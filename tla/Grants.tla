------------------------------- MODULE Grants -------------------------------
(***************************************************************************)
(* What opens a site to a restricted student, or to whoever has a code:    *)
(* the penalty box, "Allow site..." requests and override codes            *)
(* (backend/src/routes/penaltyBox.js, unblockRequests.js, overrideCodes.js,*)
(* services/penaltyGrants.js, expirePenaltyBox of services/scheduler.js).  *)
(*                                                                         *)
(* Every handler is a few statements with an await after each, so two      *)
(* handlers interleave statement by statement and the process may stop     *)
(* between any two. A call is what a handler in flight has read so far.    *)
(* That the policy cache is told of a change is PolicyCache's subject.     *)
(***************************************************************************)
EXTENDS Naturals, FiniteSets

CONSTANTS
  Students,
  Staff,        \* accounts that are not students'
  Domains,
  Addresses,    \* source addresses codes are redeemed from
  Boxes,        \* bound: the rows penalty_box can have
  Requests,     \* bound: the rows unblock_requests can have
  Codes,        \* bound: the rows override_codes can have
  Handlers,     \* bound: the requests in flight at once
  None,
  MaxSpans,     \* bound: the restrictions one row of penalty_box serves
  MaxDeaths     \* bound: handlers that stop half way

ASSUME NoneIsNoRow ==
  None \notin Students \cup Staff \cup Domains \cup Addresses \cup Boxes \cup Requests \cup Codes
ASSUME GrantBoundsAreNat == MaxSpans \in Nat \ {0} /\ MaxDeaths \in Nat

VARIABLES
  boxes,       \* penalty_box; span counts the restrictions the row has served
  requests,    \* unblock_requests; box: penalty_box_id, span: of that box when asked
  codes,       \* override_codes; opened: the addresses it opened its domain to
  calls,       \* calls[h]: what handler h is about to do
  abandoned,   \* history: approved requests whose handler stopped before the grant
  deaths

grantVars == <<boxes, requests, codes, calls, abandoned, deaths>>

Box == [student : Students \cup {None}, status : {"free", "open", "released"},
        expired : BOOLEAN, allowed : SUBSET Domains, span : 0 .. MaxSpans]

Request == [student : Students \cup {None}, domain : Domains \cup {None},
            box : Boxes \cup {None}, span : 0 .. MaxSpans,
            status : {"free", "pending", "approved", "denied"},
            once : BOOLEAN]     \* history: some admin has approved it

Code == [domain : Domains \cup {None}, target : Students \cup {None},
         status : {"free", "unused", "used"}, expired : BOOLEAN,
         opened : SUBSET Addresses,
         raced : BOOLEAN]       \* history: two redemptions overlapped

Idle == [step |-> "idle"]
Call == {Idle}
  \cup [step : {"ask"}, student : Students, domain : Domains, box : Boxes,
        span : 0 .. MaxSpans]
  \cup [step : {"approve", "grant"}, request : Requests]
  \cup [step : {"mark", "open"}, code : Codes, address : Addresses]

\* The tables, and what is in flight, keep their shape.
GrantsTypeOK ==
  /\ boxes \in [Boxes -> Box]
  /\ requests \in [Requests -> Request]
  /\ codes \in [Codes -> Code]
  /\ calls \in [Handlers -> Call]
  /\ abandoned \subseteq Requests
  /\ deaths \in 0 .. MaxDeaths

GrantsInit ==
  /\ boxes = [b \in Boxes |-> [student |-> None, status |-> "free", expired |-> FALSE,
                               allowed |-> {}, span |-> 0]]
  /\ requests = [q \in Requests |-> [student |-> None, domain |-> None, box |-> None,
                                     span |-> 0, status |-> "free", once |-> FALSE]]
  /\ codes = [c \in Codes |-> [domain |-> None, target |-> None, status |-> "free",
                               expired |-> FALSE, opened |-> {}, raced |-> FALSE]]
  /\ calls = [h \in Handlers |-> Idle]
  /\ abandoned = {}
  /\ deaths = 0

Continue(h, call) == calls' = [calls EXCEPT ![h] = call]

-----------------------------------------------------------------------------
(* The penalty box.                                                        *)

\* POST /penalty-box for a student without an unreleased row.
PlaceInBox(s, b) ==
  /\ \A other \in Boxes : ~(boxes[other].status = "open" /\ boxes[other].student = s)
  /\ boxes[b].status = "free"
  /\ boxes' = [boxes EXCEPT ![b] = [student |-> s, status |-> "open", expired |-> FALSE,
                                    allowed |-> {}, span |-> 1]]
  /\ UNCHANGED <<requests, codes, calls, abandoned, deaths>>

\* POST /penalty-box for a student with one: ON CONFLICT DO UPDATE, which leaves
\* allowed_domains alone. The row may have expired and not been released yet, and
\* then this is the beginning of another restriction.
ReuseBox(b) ==
  /\ boxes[b].status = "open"
  /\ boxes[b].expired
  /\ boxes[b].span < MaxSpans
  /\ boxes' = [boxes EXCEPT ![b].expired = FALSE, ![b].span = @ + 1]
  /\ UNCHANGED <<requests, codes, calls, abandoned, deaths>>

\* expires_at is reached.
BoxExpires(b) ==
  /\ boxes[b].status = "open" /\ ~boxes[b].expired
  /\ boxes' = [boxes EXCEPT ![b].expired = TRUE]
  /\ UNCHANGED <<requests, codes, calls, abandoned, deaths>>

\* DELETE /penalty-box/:studentId
ReleaseBox(b) ==
  /\ boxes[b].status = "open"
  /\ boxes' = [boxes EXCEPT ![b].status = "released"]
  /\ UNCHANGED <<requests, codes, calls, abandoned, deaths>>

\* expirePenaltyBox, every five minutes: one UPDATE for all students.
expirePenaltyBox ==
  LET due == {b \in Boxes : boxes[b].status = "open" /\ boxes[b].expired}
  IN /\ due # {}
     /\ boxes' = [b \in Boxes |->
                    IF b \in due THEN [boxes[b] EXCEPT !.status = "released"] ELSE boxes[b]]
     /\ UNCHANGED <<requests, codes, calls, abandoned, deaths>>

-----------------------------------------------------------------------------
(* Requests.                                                               *)

\* The unique index on (student_id, domain) WHERE status = 'pending'.
HasPending(s, d) ==
  \E q \in Requests :
    requests[q].status = "pending" /\ requests[q].student = s /\ requests[q].domain = d

InsertRequest(q, s, d, b, n) ==
  /\ requests[q].status = "free"
  /\ requests' = [requests EXCEPT ![q] = [student |-> s, domain |-> d, box |-> b, span |-> n,
                                          status |-> "pending", once |-> FALSE]]

\* POST /unblock-requests from the student's block page: no restriction is named.
StudentAsks(s, d, q) ==
  /\ ~HasPending(s, d)
  /\ InsertRequest(q, s, d, None, 0)
  /\ UNCHANGED <<boxes, codes, calls, abandoned, deaths>>

\* POST /penalty-box/:studentId/allow-request: the SELECT of the restriction, which
\* does not look at expires_at.
AskForSite(h, b, d) ==
  /\ calls[h] = Idle
  /\ boxes[b].status = "open"
  /\ Continue(h, [step |-> "ask", student |-> boxes[b].student, domain |-> d, box |-> b,
                  span |-> boxes[b].span])
  /\ UNCHANGED <<boxes, requests, codes, abandoned, deaths>>

\* Its INSERT: 409 if the student has a pending request for the domain, whatever
\* restriction that one was made for.
RecordAsk(h, q) ==
  /\ calls[h].step = "ask"
  /\ IF HasPending(calls[h].student, calls[h].domain)
     THEN UNCHANGED requests
     ELSE InsertRequest(q, calls[h].student, calls[h].domain, calls[h].box, calls[h].span)
  /\ Continue(h, Idle)
  /\ UNCHANGED <<boxes, codes, abandoned, deaths>>

\* The request's row is approved; a grant follows if it names a restriction.
ApproveRow(h, q) ==
  /\ requests' = [requests EXCEPT ![q].status = "approved", ![q].once = TRUE]
  /\ Continue(h, IF requests[q].box = None THEN Idle ELSE [step |-> "grant", request |-> q])

\* PATCH /unblock-requests/:id, approved: by id, whatever the status was.
Approve(h, q) ==
  /\ calls[h] = Idle
  /\ requests[q].status # "free"
  /\ ApproveRow(h, q)
  /\ UNCHANGED <<boxes, codes, abandoned, deaths>>

\* PATCH /unblock-requests/:id, denied: takes back no grant.
Deny(q) ==
  /\ requests[q].status # "free"
  /\ requests' = [requests EXCEPT ![q].status = "denied"]
  /\ UNCHANGED <<boxes, codes, calls, abandoned, deaths>>

\* Mutant: the grant looks the student's restriction up instead of the request's.
GrantByStudent(h) ==
  /\ calls[h].step = "grant"
  /\ LET q == requests[calls[h].request]
     IN boxes' = [b \in Boxes |->
                    IF boxes[b].student = q.student /\ boxes[b].status = "open"
                    THEN [boxes[b] EXCEPT !.allowed = @ \cup {q.domain}] ELSE boxes[b]]
  /\ Continue(h, Idle)
  /\ UNCHANGED <<requests, codes, abandoned, deaths>>

\* grantApprovedPenaltyRequest: the UPDATE of the restriction the request names.
Grant(h) ==
  /\ calls[h].step = "grant"
  /\ LET q == requests[calls[h].request]
     IN boxes' = IF boxes[q.box].status = "open"
                 THEN [boxes EXCEPT ![q.box].allowed = @ \cup {q.domain}] ELSE boxes
  /\ Continue(h, Idle)
  /\ UNCHANGED <<requests, codes, abandoned, deaths>>

-----------------------------------------------------------------------------
(* Override codes.                                                         *)

\* POST /override-codes: the INSERT of a code, for one student or for anyone, or
\* linked to a request. (The look-up of protected categories before it refuses
\* some domains, and none when it fails.)
CreateCode(h, c, d, target, q) ==
  /\ calls[h] = Idle
  /\ codes[c].status = "free"
  /\ q # None => requests[q].status # "free" /\ target = None
  /\ codes' = [codes EXCEPT ![c] = [domain |-> d, target |-> target, status |-> "unused",
                                    expired |-> FALSE, opened |-> {}, raced |-> FALSE]]
  /\ Continue(h, IF q = None THEN Idle ELSE [step |-> "approve", request |-> q])
  /\ UNCHANGED <<boxes, requests, abandoned, deaths>>

\* Mutant: the linked request is approved and nothing granted.
ApproveLinkedOnly(h) ==
  /\ calls[h].step = "approve"
  /\ requests' = [requests EXCEPT ![calls[h].request].status = "approved",
                                  ![calls[h].request].once = TRUE]
  /\ Continue(h, Idle)
  /\ UNCHANGED <<boxes, codes, abandoned, deaths>>

\* ... and the approval of the request it is linked to.
ApproveLinked(h) ==
  /\ calls[h].step = "approve"
  /\ ApproveRow(h, calls[h].request)
  /\ UNCHANGED <<boxes, codes, abandoned, deaths>>

Redeeming(c) == {h \in Handlers : calls[h].step = "mark" /\ calls[h].code = c}

\* Mutant: a used code is found too.
FindUsedCode(h, c, a, who) ==
  /\ calls[h] = Idle
  /\ codes[c].status # "free" /\ ~codes[c].expired
  /\ codes[c].target # None /\ who # None => codes[c].target = who
  /\ codes' = [codes EXCEPT ![c].raced = @ \/ Redeeming(c) # {}]
  /\ Continue(h, [step |-> "mark", code |-> c, address |-> a])
  /\ UNCHANGED <<boxes, requests, abandoned, deaths>>

\* POST /override-codes/verify: the SELECT, and the check that a code for one
\* student is not another's. Who sends no token may be anyone.
FindCode(h, c, a, who) ==
  /\ calls[h] = Idle
  /\ codes[c].status = "unused" /\ ~codes[c].expired
  /\ codes[c].target # None /\ who # None => codes[c].target = who
  /\ codes' = [codes EXCEPT ![c].raced = @ \/ Redeeming(c) # {}]
  /\ Continue(h, [step |-> "mark", code |-> c, address |-> a])
  /\ UNCHANGED <<boxes, requests, abandoned, deaths>>

\* The UPDATE by id, which does not ask whether the code is still unused.
MarkUsed(h) ==
  /\ calls[h].step = "mark"
  /\ codes' = [codes EXCEPT ![calls[h].code].status = "used"]
  /\ Continue(h, [step |-> "open", code |-> calls[h].code, address |-> calls[h].address])
  /\ UNCHANGED <<boxes, requests, abandoned, deaths>>

\* The key in Redis the DNS engine reads, for one second at least.
OpenDomain(h) ==
  /\ calls[h].step = "open"
  /\ codes' = [codes EXCEPT ![calls[h].code].opened = @ \cup {calls[h].address}]
  /\ Continue(h, Idle)
  /\ UNCHANGED <<boxes, requests, abandoned, deaths>>

CodeExpires(c) ==
  /\ codes[c].status # "free" /\ ~codes[c].expired
  /\ codes' = [codes EXCEPT ![c].expired = TRUE]
  /\ UNCHANGED <<boxes, requests, calls, abandoned, deaths>>

-----------------------------------------------------------------------------
\* A statement fails or the process stops: the rest of the handler does not happen.
HandlerDies(h) ==
  /\ calls[h] # Idle
  /\ deaths < MaxDeaths
  /\ deaths' = deaths + 1
  /\ abandoned' = IF calls[h].step = "grant" THEN abandoned \cup {calls[h].request}
                  ELSE abandoned
  /\ Continue(h, Idle)
  /\ UNCHANGED <<boxes, requests, codes>>

BoxSteps ==
  \/ \E b \in Boxes : \/ \E s \in Students : PlaceInBox(s, b)
                      \/ ReuseBox(b) \/ BoxExpires(b) \/ ReleaseBox(b)
  \/ expirePenaltyBox

RequestSteps ==
  \E q \in Requests :
    \/ \E s \in Students, d \in Domains : StudentAsks(s, d, q)
    \/ Deny(q)
    \/ \E h \in Handlers : RecordAsk(h, q) \/ Approve(h, q)

\* What changes the restrictions and the requests.
SiteSteps ==
  \/ BoxSteps \/ RequestSteps
  \/ \E h \in Handlers :
       \/ \E c \in Codes, d \in Domains, q \in Requests : CreateCode(h, c, d, None, q)
       \/ \E b \in Boxes, d \in Domains : AskForSite(h, b, d)
       \/ Grant(h) \/ ApproveLinked(h) \/ HandlerDies(h)

\* What changes the codes.
CodeSteps ==
  \/ \E c \in Codes : CodeExpires(c)
  \/ \E h \in Handlers :
       \/ \E c \in Codes, d \in Domains, target \in Students \cup {None} :
            CreateCode(h, c, d, target, None)
       \/ \E c \in Codes, a \in Addresses, who \in Students \cup Staff \cup {None} :
            FindCode(h, c, a, who)
       \/ MarkUsed(h) \/ OpenDomain(h) \/ HandlerDies(h)

GrantsNext == SiteSteps \/ CodeSteps

GrantsSpec == GrantsInit /\ [][GrantsNext]_grantVars

-----------------------------------------------------------------------------
(* What must hold.                                                         *)

\* A site is open during a restriction only because a request made for that very
\* row of penalty_box was approved, whichever student, admin or code the handlers
\* in between were about ("for the restriction it was made for").
GrantInItsBox ==
  \A b \in Boxes : \A d \in boxes[b].allowed :
    \E q \in Requests :
      requests[q].box = b /\ requests[q].domain = d /\ requests[q].once

Granting(q) == \E h \in Handlers : calls[h] = [step |-> "grant", request |-> q]

\* An approval, plain or with a code, opens the site for the restriction it was
\* asked for, unless the handler stopped between the approval and the grant.
ApprovalTakesEffect ==
  \A q \in Requests :
    (/\ requests[q].status = "approved" /\ requests[q].box # None
     /\ q \notin abandoned /\ ~Granting(q))
    => \/ requests[q].domain \in boxes[requests[q].box].allowed
       \/ boxes[requests[q].box].status = "released"

\* A code opens its domain to two addresses only if both were being redeemed
\* between the SELECT and the UPDATE of the other.
CodeOpensOnce ==
  \A c \in Codes : Cardinality(codes[c].opened) > 1 => codes[c].raced

\* A restriction that was released is granted nothing any more, by no handler that
\* read the row while it was open.
ReleasedBoxIsFinal ==
  [][\A b \in Boxes : boxes[b].status = "released" => boxes'[b] = boxes[b]]_grantVars

\* Migration 102: "a later restriction starts with an empty list again".
SitesAreForThisRestriction ==
  \A b \in Boxes : \A d \in boxes[b].allowed :
    (boxes[b].status = "open" /\ ~boxes[b].expired) =>
      \E q \in Requests : /\ requests[q].box = b /\ requests[q].domain = d
                          /\ requests[q].once /\ requests[q].span = boxes[b].span

\* "Single-use", says the page that shows the code.
SingleUse == \A c \in Codes : Cardinality(codes[c].opened) <= 1
=============================================================================
