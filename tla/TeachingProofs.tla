---------------------------- MODULE TeachingProofs ----------------------------
(***************************************************************************)
(* What holds of a school day for any number of students, lessons, rows    *)
(* and handlers in flight: grants and codes, lessons, screens, and the     *)
(* composition that the runs check.                                        *)
(***************************************************************************)
EXTENDS MCTeaching, FiniteSetTheorems, SequenceTheorems, TLAPS

-----------------------------------------------------------------------------
(* Grants reach the restriction they were asked for, an approval takes     *)
(* effect, and a code opens its domain once unless two redemptions         *)
(* overlapped.                                                             *)
(*                                                                         *)
(* What the handlers do rests on what they read before: a handler about to *)
(* grant holds an approved request that names a row of penalty_box, and    *)
(* the row it names was inserted and is never a blank one again; a handler *)
(* about to open a code's domain is the only one, as long as nobody raced. *)

OpenBoxesHaveAStudent ==
  \A b \in Boxes : boxes[b].status = "open" => boxes[b].student \in Students

\* A request stays where it is once it was approved, and names a row that exists.
RequestsNameRealBoxes ==
  \A q \in Requests :
    /\ requests[q].once => requests[q].status # "free"
    /\ requests[q].status # "free" => requests[q].domain \in Domains
    /\ requests[q].box # None => boxes[requests[q].box].status # "free"

\* What a handler in flight has read was there, and stays there.
CallsNameRealRows ==
  \A h \in Handlers :
    /\ calls[h].step = "ask" => boxes[calls[h].box].status # "free"
    /\ calls[h].step = "approve" => requests[calls[h].request].status # "free"
    /\ calls[h].step = "grant" =>
         /\ requests[calls[h].request].status # "free"
         /\ requests[calls[h].request].box # None
         /\ requests[calls[h].request].once

SiteInv ==
  /\ OpenBoxesHaveAStudent /\ RequestsNameRealBoxes /\ CallsNameRealRows
  /\ GrantInItsBox /\ ApprovalTakesEffect

\* h is redeeming c, or has marked it used.
Uses(h, c) == calls[h].step \in {"mark", "open"} /\ calls[h].code = c

CodeInv(c) ==
  /\ \A h \in Handlers : Uses(h, c) => codes[c].status # "free"
  /\ ~codes[c].raced =>
       /\ \A g, h \in Handlers : Uses(g, c) /\ Uses(h, c) => g = h
       /\ \A h \in Handlers : Uses(h, c) => codes[c].opened = {}
       /\ \A h \in Handlers : Uses(h, c) /\ calls[h].step = "open" => codes[c].status = "used"
       /\ codes[c].status = "unused" => codes[c].opened = {}
       /\ codes[c].opened = {} \/ \E a \in Addresses : codes[c].opened = {a}

GrantsInv == GrantsTypeOK /\ SiteInv /\ \A c \in Codes : CodeInv(c)

-----------------------------------------------------------------------------
(* Lemmas on the shape of the tables.                                      *)

\* What handler h holds, by what it is about to do.
LEMMA CallOfHandler ==
  ASSUME GrantsTypeOK, NEW h \in Handlers
  PROVE  /\ calls[h].step = "ask" => /\ calls[h].student \in Students /\ calls[h].domain \in Domains
                                     /\ calls[h].box \in Boxes /\ calls[h].span \in 0 .. MaxSpans
         /\ calls[h].step \in {"approve", "grant"} =>
              calls[h].request \in Requests /\ calls[h] = [step |-> calls[h].step, request |-> calls[h].request]
         /\ calls[h].step \in {"mark", "open"} => calls[h].code \in Codes /\ calls[h].address \in Addresses
         /\ calls[h].step = "idle" => calls[h] = Idle
<1>1. calls[h] \in Call
  BY DEF GrantsTypeOK
<1> QED
  BY <1>1 DEF Call, Idle

\* The calls the handlers make.
LEMMA CallsMade ==
  /\ Idle \in Call
  /\ \A s \in Students, d \in Domains, b \in Boxes, n \in 0 .. MaxSpans :
       [step |-> "ask", student |-> s, domain |-> d, box |-> b, span |-> n] \in Call
  /\ \A q \in Requests : [step |-> "approve", request |-> q] \in Call /\ [step |-> "grant", request |-> q] \in Call
  /\ \A c \in Codes, a \in Addresses :
       [step |-> "mark", code |-> c, address |-> a] \in Call /\ [step |-> "open", code |-> c, address |-> a] \in Call
BY DEF Call

\* The tables are functions of rows.
LEMMA RowsOfTables ==
  ASSUME GrantsTypeOK
  PROVE  /\ \A b \in Boxes : boxes[b] \in Box
         /\ \A q \in Requests : requests[q] \in Request
         /\ \A c \in Codes : codes[c] \in Code
BY DEF GrantsTypeOK

\* Changing a field keeps a row a row.
LEMMA FieldsOfRows ==
  /\ \A r \in Box, x \in BOOLEAN : [r EXCEPT !.expired = x] \in Box
  /\ \A r \in Box : [r EXCEPT !.status = "released"] \in Box
  /\ \A r \in Box, d \in Domains : [r EXCEPT !.allowed = r.allowed \cup {d}] \in Box
  /\ \A r \in Request : [r EXCEPT !.status = "denied"] \in Request
  /\ \A r \in Request : [r EXCEPT !.status = "approved", !.once = TRUE] \in Request
  /\ \A r \in Code : [r EXCEPT !.status = "used"] \in Code
  /\ \A r \in Code : [r EXCEPT !.expired = TRUE] \in Code
  /\ \A r \in Code, a \in Addresses : [r EXCEPT !.opened = r.opened \cup {a}] \in Code
  /\ \A r \in Code, x \in BOOLEAN : [r EXCEPT !.raced = x] \in Code
BY DEF Box, Request, Code

LEMMA GrantsInitEstablishes == GrantsInit => GrantsInv
<1> SUFFICES ASSUME GrantsInit PROVE GrantsInv
  OBVIOUS
<1>1. GrantsTypeOK
  <2>1. boxes \in [Boxes -> Box]
    BY GrantBoundsAreNat DEF GrantsInit, Box
  <2>2. requests \in [Requests -> Request]
    BY GrantBoundsAreNat DEF GrantsInit, Request
  <2>3. codes \in [Codes -> Code]
    BY DEF GrantsInit, Code
  <2>4. calls \in [Handlers -> Call] /\ deaths \in 0 .. MaxDeaths
    BY CallsMade, GrantBoundsAreNat DEF GrantsInit
  <2> QED
    BY <2>1, <2>2, <2>3, <2>4 DEF GrantsInit, GrantsTypeOK
<1>2. \A h \in Handlers : calls[h].step = "idle"
  BY DEF GrantsInit, Idle
<1>3. SiteInv
  BY <1>2 DEF GrantsInit, SiteInv, OpenBoxesHaveAStudent, RequestsNameRealBoxes, CallsNameRealRows,
    GrantInItsBox, ApprovalTakesEffect
<1>4. ASSUME NEW c \in Codes PROVE CodeInv(c)
  BY <1>2 DEF GrantsInit, CodeInv, Uses
<1> QED
  BY <1>1, <1>3, <1>4 DEF GrantsInv

-----------------------------------------------------------------------------
(* Who can disturb what.                                                   *)

\* The codes only mind the handlers that redeem them.
LEMMA CodesUndisturbed ==
  ASSUME GrantsInv, NEW c \in Codes, codes'[c] = codes[c],
         \A h \in Handlers : calls'[h] = calls[h] \/ calls'[h].step \notin {"mark", "open"}
  PROVE  CodeInv(c)'
<1>1. CodeInv(c)
  BY DEF GrantsInv
<1>2. \A h \in Handlers : Uses(h, c)' => Uses(h, c) /\ calls'[h] = calls[h]
  BY DEF Uses
<1> QED
  BY <1>1, <1>2 DEF CodeInv

\* The restrictions and requests do not mind the handlers that deal with codes.
LEMMA SitesUndisturbed ==
  ASSUME GrantsInv, boxes' = boxes, requests' = requests, abandoned' = abandoned,
         \A h \in Handlers : calls'[h] = calls[h]
                               \/ (/\ calls[h].step # "grant"
                                   /\ calls'[h].step \notin {"ask", "approve", "grant"})
  PROVE  SiteInv'
<1>1. SiteInv
  BY DEF GrantsInv
<1>2. CallsNameRealRows'
  BY <1>1 DEF SiteInv, CallsNameRealRows
<1>3. \A q \in Requests : Granting(q) => Granting(q)'
  BY DEF Granting
<1>4. ApprovalTakesEffect'
  BY <1>1, <1>3 DEF SiteInv, ApprovalTakesEffect
<1> QED
  BY <1>1, <1>2, <1>4 DEF SiteInv, OpenBoxesHaveAStudent, RequestsNameRealBoxes, GrantInItsBox

\* A row of penalty_box may begin with nothing allowed, end, or be extended: no
\* request and no handler minds.
LEMMA BoxChangeKeeps ==
  ASSUME GrantsInv, UNCHANGED <<requests, codes, calls, abandoned, deaths>>,
         boxes' \in [Boxes -> Box],
         \A b \in Boxes : \/ boxes[b].status = "free" /\ boxes'[b].allowed = {}
                          \/ /\ boxes'[b].allowed = boxes[b].allowed
                             /\ boxes[b].status # "free" => boxes'[b].status # "free"
                             /\ boxes[b].status = "released" => boxes'[b].status = "released",
         \A b \in Boxes : boxes'[b].status = "open" => boxes'[b].student \in Students
  PROVE  GrantsInv'
<1>1. SiteInv /\ GrantsTypeOK /\ \A q \in Requests : requests[q] \in Request
  BY RowsOfTables DEF GrantsInv
<1>2. GrantsTypeOK'
  BY <1>1 DEF GrantsTypeOK
<1>3. \A q \in Requests : requests[q].box # None => requests[q].box \in Boxes
  BY <1>1 DEF Request
<1>4. RequestsNameRealBoxes'
  BY <1>1, <1>3 DEF SiteInv, RequestsNameRealBoxes
<1>5. CallsNameRealRows'
  BY <1>1, CallOfHandler DEF SiteInv, CallsNameRealRows
<1>6. GrantInItsBox'
  BY <1>1 DEF SiteInv, GrantInItsBox
<1>7. ApprovalTakesEffect'
  BY <1>1, <1>3 DEF SiteInv, ApprovalTakesEffect, RequestsNameRealBoxes, Granting
<1>8. \A c \in Codes : CodeInv(c)'
  BY CodesUndisturbed
<1> QED
  BY <1>2, <1>4, <1>5, <1>6, <1>7, <1>8 DEF GrantsInv, SiteInv, OpenBoxesHaveAStudent

LEMMA BoxStepsKeep == ASSUME GrantsInv, BoxSteps PROVE GrantsInv'
<1>1. /\ GrantsTypeOK /\ OpenBoxesHaveAStudent
      /\ \A b \in Boxes : boxes[b] \in Box
      /\ boxes \in [Boxes -> Box]
  BY RowsOfTables DEF GrantsInv, SiteInv, GrantsTypeOK
<1>2. ASSUME NEW s \in Students, NEW b \in Boxes, PlaceInBox(s, b) PROVE GrantsInv'
  <2>1. [student |-> s, status |-> "open", expired |-> FALSE, allowed |-> {}, span |-> 1] \in Box
    BY GrantBoundsAreNat DEF Box
  <2>2. /\ boxes' \in [Boxes -> Box] /\ boxes[b].status = "free"
        /\ boxes'[b].allowed = {} /\ boxes'[b].student = s
        /\ \A o \in Boxes \ {b} : boxes'[o] = boxes[o]
    BY <1>1, <1>2, <2>1 DEF PlaceInBox
  <2> QED
    BY <1>1, <1>2, <2>2, BoxChangeKeeps DEF PlaceInBox, OpenBoxesHaveAStudent
<1>3. ASSUME NEW b \in Boxes, ReuseBox(b) PROVE GrantsInv'
  <2>1. boxes' = [boxes EXCEPT ![b] = [boxes[b] EXCEPT !.expired = FALSE, !.span = boxes[b].span + 1]]
    BY <1>1, <1>3 DEF ReuseBox
  <2>2. [boxes[b] EXCEPT !.expired = FALSE, !.span = boxes[b].span + 1] \in Box
    <3>1. boxes[b].span + 1 \in 0 .. MaxSpans
      BY <1>1, <1>3, GrantBoundsAreNat DEF ReuseBox, Box
    <3> QED
      BY <1>1, <3>1 DEF Box
  <2>3. /\ boxes'[b].allowed = boxes[b].allowed /\ boxes'[b].status = boxes[b].status
        /\ boxes'[b].student = boxes[b].student
        /\ \A o \in Boxes \ {b} : boxes'[o] = boxes[o]
        /\ boxes' \in [Boxes -> Box]
    BY <1>1, <2>1, <2>2 DEF Box
  <2> QED
    BY <1>1, <1>3, <2>3, BoxChangeKeeps DEF ReuseBox, OpenBoxesHaveAStudent
<1>4. ASSUME NEW b \in Boxes, BoxExpires(b) \/ ReleaseBox(b) PROVE GrantsInv'
  <2>1. PICK r \in Box : /\ boxes' = [boxes EXCEPT ![b] = r]
                         /\ r.allowed = boxes[b].allowed /\ r.student = boxes[b].student
                         /\ r.status \in {"open", "released"} /\ boxes[b].status = "open"
    <3>1. CASE BoxExpires(b)
      <4>1. boxes' = [boxes EXCEPT ![b] = [boxes[b] EXCEPT !.expired = TRUE]]
        BY <3>1 DEF BoxExpires
      <4>2. [boxes[b] EXCEPT !.expired = TRUE] \in Box
        BY <1>1, FieldsOfRows
      <4> QED
        BY <1>1, <3>1, <4>1, <4>2 DEF BoxExpires, Box
    <3>2. CASE ReleaseBox(b)
      <4>1. boxes' = [boxes EXCEPT ![b] = [boxes[b] EXCEPT !.status = "released"]]
        BY <3>2 DEF ReleaseBox
      <4>2. [boxes[b] EXCEPT !.status = "released"] \in Box
        BY <1>1, FieldsOfRows
      <4> QED
        BY <1>1, <3>2, <4>1, <4>2 DEF ReleaseBox, Box
    <3> QED
      BY <1>4, <3>1, <3>2
  <2>2. boxes' \in [Boxes -> Box] /\ boxes'[b] = r /\ \A o \in Boxes \ {b} : boxes'[o] = boxes[o]
    BY <1>1, <2>1
  <2> QED
    BY <1>1, <1>4, <2>1, <2>2, BoxChangeKeeps DEF BoxExpires, ReleaseBox, OpenBoxesHaveAStudent
<1>5. ASSUME expirePenaltyBox PROVE GrantsInv'
  <2>1. \A b \in Boxes : \/ boxes'[b] = boxes[b]
                         \/ boxes[b].status = "open" /\ boxes'[b] = [boxes[b] EXCEPT !.status = "released"]
    BY <1>5 DEF expirePenaltyBox
  <2>2. \A b \in Boxes : boxes'[b] \in Box
    BY <1>1, <2>1, FieldsOfRows
  <2>3. boxes' \in [Boxes -> Box]
    BY <1>5, <2>2 DEF expirePenaltyBox
  <2>4. \A b \in Boxes : \/ boxes'[b] = boxes[b]
                         \/ /\ boxes[b].status = "open" /\ boxes'[b].status = "released"
                            /\ boxes'[b].allowed = boxes[b].allowed
    BY <1>1, <2>1 DEF Box
  <2> QED
    BY <1>1, <1>5, <2>3, <2>4, BoxChangeKeeps DEF expirePenaltyBox, OpenBoxesHaveAStudent
<1> QED
  BY <1>2, <1>3, <1>4, <1>5 DEF BoxSteps

-----------------------------------------------------------------------------
(* Requests and grants.                                                    *)

\* A handler goes on to its next statement.
LEMMA ContinueType ==
  ASSUME GrantsTypeOK, NEW h \in Handlers, NEW call \in Call, Continue(h, call)
  PROVE  /\ calls' \in [Handlers -> Call] /\ calls'[h] = call
         /\ \A g \in Handlers \ {h} : calls'[g] = calls[g]
BY DEF GrantsTypeOK, Continue

\* A new request takes a blank row: nothing speaks of that one yet.
LEMMA InsertKeeps ==
  ASSUME GrantsInv, NEW q \in Requests, NEW s \in Students, NEW d \in Domains,
         NEW b \in Boxes \cup {None}, NEW n \in 0 .. MaxSpans, InsertRequest(q, s, d, b, n),
         b # None => boxes[b].status # "free", boxes' = boxes, abandoned' = abandoned,
         \A g \in Handlers : calls'[g] = calls[g] \/ (calls[g].step # "grant" /\ calls'[g] = Idle)
  PROVE  SiteInv' /\ requests' \in [Requests -> Request]
<1>1. SiteInv /\ GrantsTypeOK /\ requests \in [Requests -> Request]
  BY DEF GrantsInv, GrantsTypeOK
<1> DEFINE new == [student |-> s, domain |-> d, box |-> b, span |-> n, status |-> "pending", once |-> FALSE]
<1>2. new \in Request
  BY DEF Request
<1>3. /\ requests' \in [Requests -> Request] /\ requests'[q] = new /\ requests[q].status = "free"
      /\ \A o \in Requests \ {q} : requests'[o] = requests[o]
  BY <1>1, <1>2 DEF InsertRequest
<1>4. RequestsNameRealBoxes'
  BY <1>1, <1>3 DEF SiteInv, RequestsNameRealBoxes
<1>5. CallsNameRealRows'
  <2> SUFFICES ASSUME NEW h \in Handlers
               PROVE  /\ calls'[h].step = "ask" => boxes[calls'[h].box].status # "free"
                      /\ calls'[h].step = "approve" => requests'[calls'[h].request].status # "free"
                      /\ calls'[h].step = "grant" =>
                           /\ requests'[calls'[h].request].status # "free"
                           /\ requests'[calls'[h].request].box # None
                           /\ requests'[calls'[h].request].once
    BY DEF CallsNameRealRows
  <2>1. CASE calls'[h] = Idle
    BY <2>1 DEF Idle
  <2>2. CASE calls'[h] = calls[h]
    <3>1. calls[h].step \in {"approve", "grant"} => calls[h].request \in Requests \ {q}
      BY <1>1, <1>3, CallOfHandler DEF SiteInv, CallsNameRealRows
    <3> QED
      BY <1>1, <1>3, <2>2, <3>1 DEF SiteInv, CallsNameRealRows
  <2> QED
    BY <2>1, <2>2
<1>6. GrantInItsBox'
  BY <1>1, <1>3 DEF SiteInv, GrantInItsBox, RequestsNameRealBoxes
<1>7. ApprovalTakesEffect'
  <2>1. \A o \in Requests : Granting(o) => Granting(o)'
    BY DEF Granting
  <2> QED
    BY <1>1, <1>3, <2>1 DEF SiteInv, ApprovalTakesEffect
<1> QED
  BY <1>1, <1>3, <1>4, <1>5, <1>6, <1>7 DEF SiteInv, OpenBoxesHaveAStudent

\* An approval is followed by the grant when there is a restriction to grant in.
LEMMA ApproveKeeps ==
  ASSUME GrantsInv, NEW h \in Handlers, NEW q \in Requests, requests[q].status # "free",
         calls[h].step # "grant", ApproveRow(h, q), boxes' = boxes, abandoned' = abandoned
  PROVE  /\ SiteInv' /\ requests' \in [Requests -> Request] /\ calls' \in [Handlers -> Call]
         /\ \A g \in Handlers : calls'[g] = calls[g] \/ calls'[g].step \notin {"mark", "open"}
<1>1. SiteInv /\ GrantsTypeOK /\ requests \in [Requests -> Request] /\ requests[q] \in Request
  BY DEF GrantsInv, GrantsTypeOK
<1> DEFINE next == IF requests[q].box = None THEN Idle ELSE [step |-> "grant", request |-> q]
<1>2. next \in Call /\ next.step \in {"idle", "grant"}
  BY CallsMade DEF Idle
<1>3. /\ calls' \in [Handlers -> Call] /\ calls'[h] = next
      /\ \A g \in Handlers \ {h} : calls'[g] = calls[g]
  BY <1>1, <1>2, ContinueType DEF ApproveRow
<1>4. requests' = [requests EXCEPT ![q] = [requests[q] EXCEPT !.status = "approved", !.once = TRUE]]
  BY <1>1 DEF ApproveRow
<1>5. [requests[q] EXCEPT !.status = "approved", !.once = TRUE] \in Request
  BY <1>1, FieldsOfRows
<1>6. /\ requests' \in [Requests -> Request]
      /\ requests'[q].box = requests[q].box /\ requests'[q].domain = requests[q].domain
      /\ requests'[q].once /\ requests'[q].status = "approved"
      /\ \A o \in Requests \ {q} : requests'[o] = requests[o]
  BY <1>1, <1>4, <1>5 DEF Request
<1>7. RequestsNameRealBoxes'
  BY <1>1, <1>6 DEF SiteInv, RequestsNameRealBoxes
<1>8. CallsNameRealRows'
  <2> SUFFICES ASSUME NEW g \in Handlers
               PROVE  /\ calls'[g].step = "ask" => boxes[calls'[g].box].status # "free"
                      /\ calls'[g].step = "approve" => requests'[calls'[g].request].status # "free"
                      /\ calls'[g].step = "grant" =>
                           /\ requests'[calls'[g].request].status # "free"
                           /\ requests'[calls'[g].request].box # None
                           /\ requests'[calls'[g].request].once
    BY DEF CallsNameRealRows
  <2>1. CASE g = h
    <3>1. next = Idle \/ (requests[q].box # None /\ next = [step |-> "grant", request |-> q])
      OBVIOUS
    <3>2. CASE next = Idle
      BY <1>3, <2>1, <3>2 DEF Idle
    <3>3. CASE requests[q].box # None /\ next = [step |-> "grant", request |-> q]
      BY <1>3, <1>6, <2>1, <3>3
    <3> QED
      BY <3>1, <3>2, <3>3
  <2>2. CASE g # h
    <3>1. /\ calls[g].step \in {"approve", "grant"} => calls[g].request \in Requests
          /\ calls'[g] = calls[g]
      BY <1>1, <1>3, <2>2, CallOfHandler
    <3>2. \A o \in Requests : /\ requests[o].status # "free" => requests'[o].status # "free"
                              /\ requests[o].once => requests'[o].once
                              /\ requests'[o].box = requests[o].box
      BY <1>6
    <3> QED
      BY <1>1, <3>1, <3>2 DEF SiteInv, CallsNameRealRows
  <2> QED
    BY <2>1, <2>2
<1>9. GrantInItsBox'
  BY <1>1, <1>6 DEF SiteInv, GrantInItsBox
<1>10. ApprovalTakesEffect'
  <2>1. \A o \in Requests : Granting(o) => Granting(o)'
    BY <1>3 DEF Granting
  <2>2. requests[q].box # None => Granting(q)'
    BY <1>3 DEF Granting
  <2> QED
    BY <1>1, <1>6, <2>1, <2>2 DEF SiteInv, ApprovalTakesEffect
<1> QED
  BY <1>1, <1>2, <1>3, <1>6, <1>7, <1>8, <1>9, <1>10 DEF SiteInv, OpenBoxesHaveAStudent

\* The grant finds the row open or released, never a blank one.
LEMMA GrantKeeps == ASSUME GrantsInv, NEW h \in Handlers, Grant(h) PROVE GrantsInv'
<1>1. /\ SiteInv /\ GrantsTypeOK /\ boxes \in [Boxes -> Box]
      /\ \A q \in Requests : requests[q] \in Request
      /\ \A b \in Boxes : boxes[b] \in Box
  BY RowsOfTables DEF GrantsInv, GrantsTypeOK
<1> DEFINE q == calls[h].request
<1> DEFINE b == requests[q].box
<1> DEFINE d == requests[q].domain
<1>2. /\ q \in Requests /\ calls[h] = [step |-> "grant", request |-> q]
      /\ requests[q].status # "free" /\ b # None /\ requests[q].once
  BY <1>1, CallOfHandler DEF Grant, SiteInv, CallsNameRealRows
<1>3. b \in Boxes /\ d \in Domains \cup {None} /\ boxes[b].status # "free"
  BY <1>1, <1>2 DEF Request, SiteInv, RequestsNameRealBoxes
<1>4. calls' \in [Handlers -> Call] /\ calls'[h] = Idle /\ \A g \in Handlers \ {h} : calls'[g] = calls[g]
  BY <1>1, CallsMade, ContinueType DEF Grant
<1>5. boxes' = IF boxes[b].status = "open"
               THEN [boxes EXCEPT ![b] = [boxes[b] EXCEPT !.allowed = boxes[b].allowed \cup {d}]] ELSE boxes
  BY <1>1, <1>3 DEF Grant
<1>6. d \in Domains
  BY <1>1, <1>2 DEF SiteInv, RequestsNameRealBoxes
<1>7. /\ boxes' \in [Boxes -> Box]
      /\ \A o \in Boxes : /\ boxes'[o].status = boxes[o].status /\ boxes'[o].student = boxes[o].student
                          /\ boxes[o].allowed \subseteq boxes'[o].allowed
                          /\ o # b => boxes'[o] = boxes[o]
      /\ boxes'[b].allowed \subseteq boxes[b].allowed \cup {d}
      /\ boxes[b].status = "open" => d \in boxes'[b].allowed
      /\ boxes[b].status \in {"open", "released"}
  <2>1. [boxes[b] EXCEPT !.allowed = boxes[b].allowed \cup {d}] \in Box
    BY <1>1, <1>3, <1>6, FieldsOfRows
  <2>2. boxes[b] \in Box /\ boxes[b].status \in {"open", "released"}
    BY <1>1, <1>3 DEF Box
  <2>3. [boxes[b] EXCEPT !.allowed = boxes[b].allowed \cup {d}].allowed = boxes[b].allowed \cup {d}
    BY <2>2 DEF Box
  <2>4. /\ [boxes[b] EXCEPT !.allowed = boxes[b].allowed \cup {d}].status = boxes[b].status
        /\ [boxes[b] EXCEPT !.allowed = boxes[b].allowed \cup {d}].student = boxes[b].student
    BY <2>2 DEF Box
  <2> HIDE DEF q, b, d
  <2> QED
    BY <1>1, <1>3, <1>5, <2>1, <2>2, <2>3, <2>4
<1>8. requests' = requests /\ codes' = codes /\ abandoned' = abandoned /\ deaths' = deaths
  BY DEF Grant
<1>9. GrantsTypeOK'
  BY <1>4, <1>7, <1>8, <1>1 DEF GrantsTypeOK
<1>10. OpenBoxesHaveAStudent'
  BY <1>1, <1>7 DEF SiteInv, OpenBoxesHaveAStudent
<1>11. RequestsNameRealBoxes'
  <2>1. \A o \in Requests : requests[o].box # None => requests[o].box \in Boxes
    BY <1>1 DEF Request
  <2> QED
    BY <1>1, <1>7, <1>8, <2>1 DEF SiteInv, RequestsNameRealBoxes
<1>12. CallsNameRealRows'
  <2> SUFFICES ASSUME NEW g \in Handlers, g # h
               PROVE  /\ calls[g].step = "ask" => boxes'[calls[g].box].status # "free"
                      /\ calls[g].step = "approve" => requests[calls[g].request].status # "free"
                      /\ calls[g].step = "grant" =>
                           /\ requests[calls[g].request].status # "free"
                           /\ requests[calls[g].request].box # None
                           /\ requests[calls[g].request].once
    BY <1>4, <1>8 DEF CallsNameRealRows, Idle
  <2>1. calls[g].step = "ask" => calls[g].box \in Boxes
    BY <1>1, CallOfHandler
  <2> QED
    BY <1>1, <1>7, <2>1 DEF SiteInv, CallsNameRealRows
<1>13. GrantInItsBox'
  <2> SUFFICES ASSUME NEW o \in Boxes, NEW e \in boxes'[o].allowed
               PROVE  \E r \in Requests : requests[r].box = o /\ requests[r].domain = e /\ requests[r].once
    BY <1>8 DEF GrantInItsBox
  <2>1. CASE e \in boxes[o].allowed
    BY <1>1, <2>1 DEF SiteInv, GrantInItsBox
  <2>2. CASE e \notin boxes[o].allowed
    BY <1>2, <1>7, <2>2
  <2> QED
    BY <2>1, <2>2
<1>14. ApprovalTakesEffect'
  <2> SUFFICES ASSUME NEW r \in Requests, requests[r].status = "approved", requests[r].box # None,
                      r \notin abandoned, ~Granting(r)'
               PROVE  \/ requests[r].domain \in boxes'[requests[r].box].allowed
                      \/ boxes'[requests[r].box].status = "released"
    BY <1>8 DEF ApprovalTakesEffect
  <2>1. CASE r = q
    BY <1>3, <1>7, <2>1
  <2>2. CASE r # q
    <3>1. ~Granting(r)
      BY <1>2, <1>4, <2>2 DEF Granting
    <3>2. requests[r].box \in Boxes
      BY <1>1 DEF Request
    <3> QED
      BY <1>1, <1>7, <3>1, <3>2 DEF SiteInv, ApprovalTakesEffect
  <2> QED
    BY <2>1, <2>2
<1>15. \A c \in Codes : CodeInv(c)'
  BY <1>4, <1>8, CodesUndisturbed DEF Idle
<1> QED
  BY <1>9, <1>10, <1>11, <1>12, <1>13, <1>14, <1>15 DEF GrantsInv, SiteInv

LEMMA RequestStepsKeep == ASSUME GrantsInv, RequestSteps PROVE GrantsInv'
<1>1. /\ SiteInv /\ GrantsTypeOK /\ requests \in [Requests -> Request]
      /\ \A q \in Requests : requests[q] \in Request
  BY RowsOfTables DEF GrantsInv, GrantsTypeOK
<1>2. ASSUME NEW q \in Requests, NEW s \in Students, NEW d \in Domains, StudentAsks(s, d, q)
      PROVE  GrantsInv'
  <2>1. 0 \in 0 .. MaxSpans
    BY GrantBoundsAreNat
  <2>2. SiteInv' /\ requests' \in [Requests -> Request]
    BY <1>2, <2>1, InsertKeeps DEF StudentAsks
  <2>3. \A c \in Codes : CodeInv(c)'
    BY <1>2, CodesUndisturbed DEF StudentAsks
  <2> QED
    BY <1>1, <1>2, <2>2, <2>3 DEF StudentAsks, GrantsInv, GrantsTypeOK
<1>3. ASSUME NEW q \in Requests, NEW h \in Handlers, RecordAsk(h, q) PROVE GrantsInv'
  <2>1. /\ calls' \in [Handlers -> Call] /\ calls'[h] = Idle
        /\ \A g \in Handlers \ {h} : calls'[g] = calls[g]
    BY <1>1, <1>3, CallsMade, ContinueType DEF RecordAsk
  <2>2. /\ calls[h].step = "ask" /\ calls[h].student \in Students /\ calls[h].domain \in Domains
        /\ calls[h].box \in Boxes /\ calls[h].span \in 0 .. MaxSpans /\ boxes[calls[h].box].status # "free"
    BY <1>1, <1>3, CallOfHandler DEF RecordAsk, SiteInv, CallsNameRealRows
  <2>3. SiteInv' /\ requests' \in [Requests -> Request]
    <3>1. CASE requests' = requests
      BY <1>1, <1>3, <2>1, <2>2, <3>1, SitesUndisturbed DEF RecordAsk, Idle
    <3>2. CASE InsertRequest(q, calls[h].student, calls[h].domain, calls[h].box, calls[h].span)
      BY <1>3, <2>1, <2>2, <3>2, InsertKeeps DEF RecordAsk
    <3> QED
      BY <1>3, <3>1, <3>2 DEF RecordAsk
  <2>4. \A c \in Codes : CodeInv(c)'
    BY <1>3, <2>1, CodesUndisturbed DEF RecordAsk, Idle
  <2> QED
    BY <1>1, <1>3, <2>1, <2>3, <2>4 DEF RecordAsk, GrantsInv, GrantsTypeOK
<1>4. ASSUME NEW q \in Requests, NEW h \in Handlers, Approve(h, q) PROVE GrantsInv'
  <2>1. /\ SiteInv' /\ requests' \in [Requests -> Request] /\ calls' \in [Handlers -> Call]
        /\ \A g \in Handlers : calls'[g] = calls[g] \/ calls'[g].step \notin {"mark", "open"}
    BY <1>4, ApproveKeeps DEF Approve, Idle
  <2>2. \A c \in Codes : CodeInv(c)'
    BY <1>4, <2>1, CodesUndisturbed DEF Approve
  <2> QED
    BY <1>1, <1>4, <2>1, <2>2 DEF Approve, GrantsInv, GrantsTypeOK
<1>5. ASSUME NEW q \in Requests, Deny(q) PROVE GrantsInv'
  <2>1. requests' = [requests EXCEPT ![q] = [requests[q] EXCEPT !.status = "denied"]]
    BY <1>5 DEF Deny
  <2>2. [requests[q] EXCEPT !.status = "denied"] \in Request
    BY <1>1, FieldsOfRows
  <2>3. /\ requests' \in [Requests -> Request] /\ requests'[q].status = "denied"
        /\ requests'[q].box = requests[q].box /\ requests'[q].domain = requests[q].domain
        /\ requests'[q].once = requests[q].once /\ requests[q].status # "free"
        /\ \A o \in Requests \ {q} : requests'[o] = requests[o]
    BY <1>1, <1>5, <2>1, <2>2 DEF Deny, Request
  <2>4. RequestsNameRealBoxes' /\ GrantInItsBox'
    BY <1>1, <1>5, <2>3 DEF Deny, SiteInv, RequestsNameRealBoxes, GrantInItsBox
  <2>5. CallsNameRealRows'
    BY <1>1, <1>5, <2>3, CallOfHandler DEF Deny, SiteInv, CallsNameRealRows
  <2>6. ApprovalTakesEffect'
    BY <1>1, <1>5, <2>3 DEF Deny, SiteInv, ApprovalTakesEffect, Granting
  <2>7. OpenBoxesHaveAStudent' /\ \A c \in Codes : CodeInv(c)'
    BY <1>1, <1>5, CodesUndisturbed DEF Deny, SiteInv, OpenBoxesHaveAStudent
  <2> QED
    BY <1>1, <1>5, <2>3, <2>4, <2>5, <2>6, <2>7 DEF Deny, GrantsInv, GrantsTypeOK, SiteInv
<1> QED
  BY <1>2, <1>3, <1>4, <1>5 DEF RequestSteps

-----------------------------------------------------------------------------
(* Override codes.                                                         *)

\* A change of one code, and of what one handler does, is a change of nothing else.
LEMMA CodeChangeKeeps ==
  ASSUME GrantsInv, NEW c \in Codes, NEW h \in Handlers,
         UNCHANGED <<boxes, requests, abandoned, deaths>>,
         codes' \in [Codes -> Code], \A o \in Codes \ {c} : codes'[o] = codes[o],
         calls' \in [Handlers -> Call], \A g \in Handlers \ {h} : calls'[g] = calls[g],
         calls[h].step # "grant",
         calls'[h].step \in {"ask", "grant"} => calls'[h] = calls[h],
         calls'[h].step = "approve" => requests[calls'[h].request].status # "free",
         calls'[h].step \in {"mark", "open"} => calls'[h].code = c,
         CodeInv(c)'
  PROVE  GrantsInv'
<1>1. SiteInv /\ GrantsTypeOK
  BY DEF GrantsInv
<1>2. GrantsTypeOK'
  BY <1>1 DEF GrantsTypeOK
<1>3. CallsNameRealRows'
  BY <1>1 DEF SiteInv, CallsNameRealRows
<1>4. ApprovalTakesEffect'
  <2>1. \A q \in Requests : Granting(q) => Granting(q)'
    BY DEF Granting
  <2> QED
    BY <1>1, <2>1 DEF SiteInv, ApprovalTakesEffect
<1>5. OpenBoxesHaveAStudent' /\ RequestsNameRealBoxes' /\ GrantInItsBox'
  BY <1>1 DEF SiteInv, OpenBoxesHaveAStudent, RequestsNameRealBoxes, GrantInItsBox
<1>6. ASSUME NEW o \in Codes \ {c} PROVE CodeInv(o)'
  <2>1. CodeInv(o)
    BY DEF GrantsInv
  <2>2. \A g \in Handlers : Uses(g, o)' => Uses(g, o) /\ calls'[g] = calls[g]
    BY <1>6 DEF Uses
  <2> QED
    BY <1>6, <2>1, <2>2 DEF CodeInv
<1> QED
  BY <1>2, <1>3, <1>4, <1>5, <1>6 DEF GrantsInv, SiteInv

LEMMA CreateCodeKeeps ==
  ASSUME GrantsInv, NEW h \in Handlers, NEW c \in Codes, NEW d \in Domains,
         NEW target \in Students \cup {None}, NEW q \in Requests \cup {None},
         CreateCode(h, c, d, target, q)
  PROVE  GrantsInv'
<1> DEFINE new == [domain |-> d, target |-> target, status |-> "unused", expired |-> FALSE,
                   opened |-> {}, raced |-> FALSE]
<1> DEFINE next == IF q = None THEN Idle ELSE [step |-> "approve", request |-> q]
<1>1. GrantsTypeOK /\ codes \in [Codes -> Code] /\ CodeInv(c) /\ new \in Code
  BY DEF GrantsInv, GrantsTypeOK, Code
<1>2. /\ next \in Call /\ next.step \in {"idle", "approve"}
      /\ next.step = "approve" => requests[next.request].status # "free"
  BY CallsMade DEF Idle, CreateCode
<1>3. codes' = [codes EXCEPT ![c] = new] /\ Continue(h, next) /\ calls[h] = Idle /\ codes[c].status = "free"
  BY DEF CreateCode
<1> HIDE DEF new, next
<1>4. /\ calls' \in [Handlers -> Call] /\ calls'[h] = next
      /\ \A g \in Handlers \ {h} : calls'[g] = calls[g]
  BY <1>1, <1>2, <1>3, ContinueType
<1>5. /\ codes' \in [Codes -> Code] /\ codes'[c] = new
      /\ \A o \in Codes \ {c} : codes'[o] = codes[o]
  BY <1>1, <1>3
<1>6. CodeInv(c)'
  <2>1. \A g \in Handlers : ~Uses(g, c)'
    BY <1>1, <1>2, <1>3, <1>4 DEF CodeInv, Uses
  <2> QED
    BY <1>5, <2>1 DEF CodeInv, new
<1>7. UNCHANGED <<boxes, requests, abandoned, deaths>>
  BY DEF CreateCode
<1>8. /\ calls[h].step # "grant" /\ calls'[h].step \notin {"ask", "grant", "mark", "open"}
      /\ calls'[h].step = "approve" => requests[calls'[h].request].status # "free"
  BY <1>2, <1>3, <1>4 DEF Idle
<1> QED
  BY <1>4, <1>5, <1>6, <1>7, <1>8, CodeChangeKeeps

\* The first of two redemptions races with nobody, the second sees the first.
LEMMA FindCodeKeeps ==
  ASSUME GrantsInv, NEW h \in Handlers, NEW c \in Codes, NEW a \in Addresses, NEW who, FindCode(h, c, a, who)
  PROVE  GrantsInv'
<1> DEFINE next == [step |-> "mark", code |-> c, address |-> a]
<1>1. GrantsTypeOK /\ codes \in [Codes -> Code] /\ codes[c] \in Code /\ CodeInv(c) /\ next \in Call
  BY CallsMade DEF GrantsInv, GrantsTypeOK
<1>2. codes' = [codes EXCEPT ![c] = [codes[c] EXCEPT !.raced = codes[c].raced \/ Redeeming(c) # {}]]
  BY DEF FindCode
<1>3. [codes[c] EXCEPT !.raced = codes[c].raced \/ Redeeming(c) # {}] \in Code
  <2>1. (codes[c].raced \/ Redeeming(c) # {}) \in BOOLEAN
    OBVIOUS
  <2> QED
    BY <1>1, <2>1, FieldsOfRows
<1>4. /\ codes' \in [Codes -> Code]
      /\ codes'[c].status = "unused" /\ codes[c].status = "unused" /\ codes'[c].opened = codes[c].opened
      /\ ~codes'[c].raced => ~codes[c].raced /\ Redeeming(c) = {}
      /\ \A o \in Codes \ {c} : codes'[o] = codes[o]
  BY <1>1, <1>2, <1>3 DEF FindCode, Code
<1>5. /\ calls' \in [Handlers -> Call] /\ calls'[h] = next
      /\ \A g \in Handlers \ {h} : calls'[g] = calls[g]
  BY <1>1, ContinueType DEF FindCode
<1>6. CodeInv(c)'
  <2>1. ~codes'[c].raced => \A g \in Handlers : ~Uses(g, c)
    BY <1>1, <1>4 DEF CodeInv, Uses, Redeeming
  <2>2. ~codes'[c].raced => \A g \in Handlers : Uses(g, c)' => g = h
    BY <1>5, <2>1 DEF Uses
  <2>3. ~codes'[c].raced => codes'[c].opened = {}
    BY <1>1, <1>4 DEF CodeInv
  <2> QED
    BY <1>4, <1>5, <2>2, <2>3 DEF CodeInv, Uses
<1> QED
  BY <1>4, <1>5, <1>6, CodeChangeKeeps DEF FindCode, Idle

LEMMA MarkUsedKeeps == ASSUME GrantsInv, NEW h \in Handlers, MarkUsed(h) PROVE GrantsInv'
<1>1. GrantsTypeOK /\ codes \in [Codes -> Code] /\ calls[h].step = "mark"
  BY DEF GrantsInv, GrantsTypeOK, MarkUsed
<1>a. PICK c \in Codes, a \in Addresses : calls[h].code = c /\ calls[h].address = a
  BY <1>1, CallOfHandler
<1> DEFINE next == [step |-> "open", code |-> c, address |-> a]
<1>2. next \in Call
  BY CallsMade
<1>3. codes[c] \in Code /\ CodeInv(c)
  BY <1>1 DEF GrantsInv
<1>4. codes' = [codes EXCEPT ![c] = [codes[c] EXCEPT !.status = "used"]]
  BY <1>a DEF MarkUsed
<1>5. [codes[c] EXCEPT !.status = "used"] \in Code
  BY <1>3, FieldsOfRows
<1>6. /\ calls' \in [Handlers -> Call] /\ calls'[h] = next
      /\ \A g \in Handlers \ {h} : calls'[g] = calls[g]
  BY <1>1, <1>2, <1>a, ContinueType DEF MarkUsed
<1>7. Uses(h, c) /\ next.code = c /\ next.step = "open"
  BY <1>1, <1>a DEF Uses
<1> HIDE DEF next
<1>8. /\ codes' \in [Codes -> Code] /\ codes'[c].status = "used"
      /\ codes'[c].opened = codes[c].opened /\ codes'[c].raced = codes[c].raced
      /\ \A o \in Codes \ {c} : codes'[o] = codes[o]
  BY <1>1, <1>2, <1>3, <1>4, <1>5 DEF Code
<1>9. CodeInv(c)'
  <2>1. \A g \in Handlers : Uses(g, c)' <=> Uses(g, c)
    BY <1>6, <1>7 DEF Uses
  <2> QED
    BY <1>3, <1>6, <1>7, <1>8, <2>1 DEF CodeInv
<1> QED
  BY <1>1, <1>2, <1>6, <1>7, <1>8, <1>9, CodeChangeKeeps DEF MarkUsed

LEMMA OpenDomainKeeps == ASSUME GrantsInv, NEW h \in Handlers, OpenDomain(h) PROVE GrantsInv'
<1>1. GrantsTypeOK /\ codes \in [Codes -> Code] /\ calls[h].step = "open"
  BY DEF GrantsInv, GrantsTypeOK, OpenDomain
<1>a. PICK c \in Codes, a \in Addresses : calls[h].code = c /\ calls[h].address = a
  BY <1>1, CallOfHandler
<1>2. Uses(h, c)
  BY <1>1, <1>a DEF Uses
<1>3. codes[c] \in Code /\ CodeInv(c)
  BY <1>1 DEF GrantsInv
<1>4. codes' = [codes EXCEPT ![c] = [codes[c] EXCEPT !.opened = codes[c].opened \cup {a}]]
  BY <1>a DEF OpenDomain
<1>5. [codes[c] EXCEPT !.opened = codes[c].opened \cup {a}] \in Code
  BY <1>3, FieldsOfRows
<1>6. /\ calls' \in [Handlers -> Call] /\ calls'[h] = Idle
      /\ \A g \in Handlers \ {h} : calls'[g] = calls[g]
  BY <1>1, ContinueType, CallsMade DEF OpenDomain
<1>7. /\ codes' \in [Codes -> Code] /\ codes'[c].status = codes[c].status
      /\ codes'[c].opened = codes[c].opened \cup {a} /\ codes'[c].raced = codes[c].raced
      /\ \A o \in Codes \ {c} : codes'[o] = codes[o]
  BY <1>1, <1>2, <1>3, <1>4, <1>5 DEF Code
<1>8. CodeInv(c)'
  <2>1. \A g \in Handlers : Uses(g, c)' => g # h /\ Uses(g, c)
    BY <1>6 DEF Uses, Idle
  <2>2. ~codes'[c].raced => /\ \A g \in Handlers : ~Uses(g, c)'
                            /\ codes'[c].opened = {a}
                            /\ codes'[c].status = "used"
    BY <1>1, <1>2, <1>3, <1>7, <2>1 DEF CodeInv
  <2>3. \A g \in Handlers : Uses(g, c)' => codes'[c].status # "free"
    BY <1>3, <1>7, <2>1 DEF CodeInv
  <2> QED
    BY <1>2, <2>2, <2>3 DEF CodeInv
<1>9. calls[h].step # "grant" /\ calls'[h].step = "idle"
  BY <1>1, <1>6 DEF Idle
<1>10. UNCHANGED <<boxes, requests, abandoned, deaths>>
  BY DEF OpenDomain
<1> QED
  BY <1>6, <1>7, <1>8, <1>9, <1>10, CodeChangeKeeps

LEMMA CodeExpiresKeeps == ASSUME GrantsInv, NEW c \in Codes, CodeExpires(c) PROVE GrantsInv'
<1>1. GrantsTypeOK /\ SiteInv /\ codes \in [Codes -> Code] /\ codes[c] \in Code /\ CodeInv(c)
  BY DEF GrantsInv, GrantsTypeOK
<1>2. codes' = [codes EXCEPT ![c] = [codes[c] EXCEPT !.expired = TRUE]]
  BY DEF CodeExpires
<1>3. [codes[c] EXCEPT !.expired = TRUE] \in Code
  BY <1>1, FieldsOfRows
<1>4. /\ codes' \in [Codes -> Code] /\ codes'[c].status = codes[c].status
      /\ codes'[c].opened = codes[c].opened /\ codes'[c].raced = codes[c].raced
      /\ \A o \in Codes \ {c} : codes'[o] = codes[o]
  BY <1>1, <1>2, <1>3 DEF Code
<1>5. CodeInv(c)'
  BY <1>1, <1>4 DEF CodeExpires, CodeInv, Uses
<1>6. \A o \in Codes \ {c} : CodeInv(o)'
  BY <1>4, CodesUndisturbed DEF CodeExpires
<1>7. SiteInv'
  BY SitesUndisturbed DEF CodeExpires
<1> QED
  BY <1>1, <1>4, <1>5, <1>6, <1>7 DEF CodeExpires, GrantsInv, GrantsTypeOK

-----------------------------------------------------------------------------
(* What the handlers have left to do.                                      *)

LEMMA AskForSiteKeeps ==
  ASSUME GrantsInv, NEW h \in Handlers, NEW b \in Boxes, NEW d \in Domains, AskForSite(h, b, d)
  PROVE  GrantsInv'
<1> DEFINE next == [step |-> "ask", student |-> boxes[b].student, domain |-> d, box |-> b,
                    span |-> boxes[b].span]
<1>1. GrantsTypeOK /\ SiteInv /\ boxes[b] \in Box
  BY DEF GrantsInv, GrantsTypeOK
<1>2. boxes[b].status = "open" /\ boxes[b].student \in Students /\ boxes[b].span \in 0 .. MaxSpans
  BY <1>1 DEF AskForSite, SiteInv, OpenBoxesHaveAStudent, Box
<1>3. next \in Call
  BY <1>2, CallsMade
<1>4. next.step = "ask" /\ next.box = b
  OBVIOUS
<1>5. /\ calls' \in [Handlers -> Call] /\ calls'[h] = next
      /\ \A g \in Handlers \ {h} : calls'[g] = calls[g]
  BY <1>1, <1>3, ContinueType DEF AskForSite
<1> HIDE DEF next
<1>6. UNCHANGED <<boxes, requests, codes, abandoned, deaths>> /\ calls[h] = Idle
  BY DEF AskForSite
<1>7. CallsNameRealRows'
  BY <1>1, <1>2, <1>4, <1>5, <1>6 DEF SiteInv, CallsNameRealRows
<1>8. ApprovalTakesEffect'
  <2>1. \A q \in Requests : Granting(q) => Granting(q)'
    BY <1>5, <1>6 DEF Granting, Idle
  <2> QED
    BY <1>1, <1>6, <2>1 DEF SiteInv, ApprovalTakesEffect
<1>9. OpenBoxesHaveAStudent' /\ RequestsNameRealBoxes' /\ GrantInItsBox'
  BY <1>1, <1>6 DEF SiteInv, OpenBoxesHaveAStudent, RequestsNameRealBoxes, GrantInItsBox
<1>10. \A c \in Codes : CodeInv(c)'
  BY <1>4, <1>5, <1>6, CodesUndisturbed
<1> QED
  BY <1>1, <1>5, <1>6, <1>7, <1>8, <1>9, <1>10 DEF GrantsInv, GrantsTypeOK, SiteInv

LEMMA ApproveLinkedKeeps == ASSUME GrantsInv, NEW h \in Handlers, ApproveLinked(h) PROVE GrantsInv'
<1>1. GrantsTypeOK /\ SiteInv /\ calls[h].step = "approve"
  BY DEF GrantsInv, ApproveLinked
<1>2. PICK q \in Requests : calls[h].request = q /\ requests[q].status # "free"
  BY <1>1, CallOfHandler DEF SiteInv, CallsNameRealRows
<1>3. /\ SiteInv' /\ requests' \in [Requests -> Request] /\ calls' \in [Handlers -> Call]
      /\ \A g \in Handlers : calls'[g] = calls[g] \/ calls'[g].step \notin {"mark", "open"}
  BY <1>1, <1>2, ApproveKeeps DEF ApproveLinked
<1>4. \A c \in Codes : CodeInv(c)'
  BY <1>3, CodesUndisturbed DEF ApproveLinked
<1> QED
  BY <1>1, <1>3, <1>4 DEF ApproveLinked, GrantsInv, GrantsTypeOK

\* A handler that stops between the approval and the grant is remembered.
LEMMA HandlerDiesKeeps == ASSUME GrantsInv, NEW h \in Handlers, HandlerDies(h) PROVE GrantsInv'
<1>1. GrantsTypeOK /\ SiteInv
  BY DEF GrantsInv
<1>2. /\ calls' \in [Handlers -> Call] /\ calls'[h] = Idle
      /\ \A g \in Handlers \ {h} : calls'[g] = calls[g]
  BY <1>1, CallsMade, ContinueType DEF HandlerDies
<1>3. /\ abandoned' \subseteq Requests /\ abandoned \subseteq abandoned'
      /\ calls[h].step = "grant" => calls[h].request \in abandoned'
  BY <1>1, CallOfHandler DEF HandlerDies, GrantsTypeOK
<1>4. deaths' \in 0 .. MaxDeaths
  BY <1>1, GrantBoundsAreNat DEF HandlerDies, GrantsTypeOK
<1>5. UNCHANGED <<boxes, requests, codes>>
  BY DEF HandlerDies
<1>6. CallsNameRealRows'
  BY <1>1, <1>2, <1>5 DEF SiteInv, CallsNameRealRows, Idle
<1>7. ApprovalTakesEffect'
  <2>1. \A q \in Requests : Granting(q) => Granting(q)' \/ q \in abandoned'
    BY <1>2, <1>3 DEF Granting
  <2> QED
    BY <1>1, <1>3, <1>5, <2>1 DEF SiteInv, ApprovalTakesEffect
<1>8. OpenBoxesHaveAStudent' /\ RequestsNameRealBoxes' /\ GrantInItsBox'
  BY <1>1, <1>5 DEF SiteInv, OpenBoxesHaveAStudent, RequestsNameRealBoxes, GrantInItsBox
<1>9. \A c \in Codes : CodeInv(c)'
  BY <1>2, <1>5, CodesUndisturbed DEF Idle
<1> QED
  BY <1>1, <1>2, <1>3, <1>4, <1>5, <1>6, <1>7, <1>8, <1>9 DEF GrantsInv, GrantsTypeOK, SiteInv

LEMMA GrantsInvKept == GrantsInv /\ [GrantsNext]_grantVars => GrantsInv'
<1> SUFFICES ASSUME GrantsInv, [GrantsNext]_grantVars PROVE GrantsInv'
  OBVIOUS
<1>1. CASE UNCHANGED grantVars
  <2>1. GrantsTypeOK' /\ SiteInv'
    BY <1>1, SitesUndisturbed DEF grantVars, GrantsInv, GrantsTypeOK
  <2>2. \A c \in Codes : CodeInv(c)'
    BY <1>1, CodesUndisturbed DEF grantVars
  <2> QED
    BY <2>1, <2>2 DEF GrantsInv
<1>2. CASE SiteSteps
  BY <1>2, BoxStepsKeep, RequestStepsKeep, CreateCodeKeeps, AskForSiteKeeps, GrantKeeps,
    ApproveLinkedKeeps, HandlerDiesKeeps DEF SiteSteps
<1>3. CASE CodeSteps
  BY <1>3, CreateCodeKeeps, FindCodeKeeps, MarkUsedKeeps, OpenDomainKeeps, CodeExpiresKeeps,
    HandlerDiesKeeps DEF CodeSteps
<1> QED
  BY <1>1, <1>2, <1>3 DEF GrantsNext

-----------------------------------------------------------------------------
\* The inductive invariant holds in every state of every run.
THEOREM GrantsInvariance == GrantsSpec => []GrantsInv
BY GrantsInitEstablishes, GrantsInvKept, PTL DEF GrantsSpec

\* The tables, and what the handlers hold, keep their shape.
THEOREM GrantsTypeCorrect == GrantsSpec => []GrantsTypeOK
<1>1. GrantsInv => GrantsTypeOK
  BY DEF GrantsInv
<1> QED
  BY <1>1, GrantsInvariance, PTL

\* A site is open in a restriction because a request made for that row of
\* penalty_box was approved (grantApprovedPenaltyRequest), whatever the handlers
\* in between were about.
THEOREM GrantsStayInTheirBox == GrantsSpec => []GrantInItsBox
<1>1. GrantsInv => GrantInItsBox
  BY DEF GrantsInv, SiteInv
<1> QED
  BY <1>1, GrantsInvariance, PTL

\* An approval by PATCH /unblock-requests or by a linked override code opens the
\* site, unless its handler stopped half way or the restriction is over.
THEOREM ApprovalsTakeEffect == GrantsSpec => []ApprovalTakesEffect
<1>1. GrantsInv => ApprovalTakesEffect
  BY DEF GrantsInv, SiteInv
<1> QED
  BY <1>1, GrantsInvariance, PTL

\* A code opens its domain to a second address only when the SELECT of one
\* POST /override-codes/verify fell between the SELECT and the UPDATE of another.
THEOREM CodesOpenOnce == GrantsSpec => []CodeOpensOnce
<1>1. GrantsInv => CodeOpensOnce
  <2> SUFFICES ASSUME GrantsInv, NEW c \in Codes, ~codes[c].raced
               PROVE  ~(Cardinality(codes[c].opened) > 1)
    BY RowsOfTables DEF CodeOpensOnce, GrantsInv, Code
  <2>1. codes[c].opened = {} \/ \E a \in Addresses : codes[c].opened = {a}
    BY DEF GrantsInv, CodeInv
  <2>2. Cardinality(codes[c].opened) \in {0, 1}
    BY <2>1, FS_EmptySet, FS_Singleton
  <2> QED
    BY <2>2
<1> QED
  BY <1>1, GrantsInvariance, PTL

\* No handler that read a restriction while it was open changes it after it was
\* released: released_at IS NULL is in every UPDATE.
THEOREM ReleasedBoxesAreFinal == GrantsSpec => ReleasedBoxIsFinal
<1>1. GrantsInv /\ [GrantsNext]_grantVars =>
        [\A b \in Boxes : boxes[b].status = "released" => boxes'[b] = boxes[b]]_grantVars
  <2> SUFFICES ASSUME GrantsInv, GrantsNext, NEW b \in Boxes, boxes[b].status = "released"
               PROVE  boxes'[b] = boxes[b]
    OBVIOUS
  <2>1. GrantsTypeOK /\ boxes \in [Boxes -> Box]
    BY DEF GrantsInv, GrantsTypeOK
  <2>2. ASSUME BoxSteps PROVE boxes'[b] = boxes[b]
    BY <2>1, <2>2 DEF BoxSteps, PlaceInBox, ReuseBox, BoxExpires, ReleaseBox, expirePenaltyBox
  <2>3. ASSUME NEW h \in Handlers, Grant(h) PROVE boxes'[b] = boxes[b]
    BY <2>1, <2>3 DEF Grant
  <2>4. CASE boxes' = boxes
    BY <2>4
  <2> QED
    BY <2>2, <2>3, <2>4 DEF GrantsNext, SiteSteps, CodeSteps, RequestSteps, StudentAsks, Deny, RecordAsk,
      Approve, CreateCode, AskForSite, ApproveLinked, HandlerDies, CodeExpires, FindCode, MarkUsed, OpenDomain
<1> QED
  BY <1>1, GrantsInvariance, PTL DEF GrantsSpec, ReleasedBoxIsFinal

-----------------------------------------------------------------------------
(* A class has one session at a time unless two starts overlapped.         *)
(*                                                                         *)
(* The COMMIT of a teacher's start closes the sessions it saw when its     *)
(* transaction began, and the bell schedule inserts where it saw none:     *)
(* that these are all the open sessions still is what one start at a time  *)
(* gives, and what has to be carried through every other step.             *)

LessonRow == [status : {"free", "active", "ended"}, auto : BOOLEAN, due : BOOLEAN]

\* What a start that nothing overlapped has seen is all there is.
OneStart ==
  ~raced =>
    /\ \A i, j \in Starting : i = j
    /\ \A k, l \in Open : k = l
    /\ \A j \in Jobs : /\ jobs[j].step = "start" => Open \subseteq jobs[j].seen
                       /\ jobs[j].step = "autoStart" => Open = {}

ClassTypes == ClassTypeOK /\ wire \in [Pupils -> Seq(Messages)]
ClassInv == ClassTypes /\ OneStart

-----------------------------------------------------------------------------
(* The types.                                                              *)

\* What handler j holds, by what it is about to do.
LEMMA JobOfHandler ==
  ASSUME ClassTypes, NEW j \in Jobs
  PROVE  /\ jobs[j] \in Job
         /\ jobs[j].step = "start" => jobs[j].seen \in SUBSET Lessons
         /\ jobs[j].step \in {"join", "greet"} =>
              /\ jobs[j].student \in Pupils /\ jobs[j].locked \in BOOLEAN
              /\ jobs[j] = [step |-> jobs[j].step, student |-> jobs[j].student, locked |-> jobs[j].locked]
         /\ jobs[j].step = "idle" => jobs[j] = NoJob
<1>1. jobs[j] \in Job
  BY DEF ClassTypes, ClassTypeOK
<1> QED
  BY <1>1 DEF Job, NoJob

\* The jobs there are.
LEMMA JobsDone ==
  /\ NoJob \in Job /\ [step |-> "autoStart"] \in Job /\ NoJob.step = "idle"
  /\ [step |-> "endClass"] \in Job /\ [step |-> "engage"] \in Job /\ [step |-> "release"] \in Job
  /\ \A seen \in SUBSET Lessons : [step |-> "start", seen |-> seen] \in Job
  /\ \A s \in Pupils, b \in BOOLEAN : /\ [step |-> "join", student |-> s, locked |-> b] \in Job
                                      /\ [step |-> "greet", student |-> s, locked |-> b] \in Job
BY DEF Job, NoJob

LEMMA DoType ==
  ASSUME ClassTypes, NEW j \in Jobs, NEW job \in Job, Do(j, job)
  PROVE  /\ jobs' \in [Jobs -> Job] /\ jobs'[j] = job
         /\ \A i \in Jobs \ {j} : jobs'[i] = jobs[i]
BY DEF ClassTypes, ClassTypeOK, Do

LEMMA ClassFaultType == ASSUME ClassTypes, Fault PROVE faults' \in 0 .. MaxFaults
BY ClassroomFaultsAreNat DEF ClassTypes, ClassTypeOK, Fault

\* To blame somebody for something is an excuse.
LEMMA BlameType ==
  ASSUME ClassTypes, NEW students, NEW reason \in Reasons, Blame(students, reason)
  PROVE  excuse' \in [Pupils -> SUBSET Reasons]
BY DEF ClassTypes, ClassTypeOK, Blame

\* A message is under way to those who are connected, and the rest of what Send
\* writes keeps its shape.
LEMMA SendType ==
  ASSUME ClassTypes, NEW students, NEW message \in Messages, Send(students, message)
  PROVE  /\ wire' \in [Pupils -> Seq(Messages)] /\ \A s \in Pupils : Len(wire'[s]) <= MaxWire
         /\ mirror' \in [Pupils -> BOOLEAN] /\ excuse' \in [Pupils -> SUBSET Reasons]
         /\ owed' \in SUBSET Pupils /\ faults' \in 0 .. MaxFaults
<1>1. /\ wire \in [Pupils -> Seq(Messages)] /\ \A s \in Pupils : Len(wire[s]) <= MaxWire
      /\ mirror \in [Pupils -> BOOLEAN] /\ excuse \in [Pupils -> SUBSET Reasons] /\ owed \in SUBSET Pupils
  BY DEF ClassTypes, ClassTypeOK
<1>2. ASSUME NEW s \in Pupils
      PROVE  wire'[s] \in Seq(Messages) /\ Len(wire'[s]) <= MaxWire
  <2>1. CASE wire'[s] = wire[s]
    BY <1>1, <2>1
  <2>2. CASE s \in students /\ wire'[s] = Append(wire[s], message)
    <3>1. Len(wire[s]) < MaxWire /\ Len(wire[s]) \in Nat
      BY <1>1, <2>2 DEF Send
    <3>2. Append(wire[s], message) \in Seq(Messages) /\ Len(Append(wire[s], message)) = Len(wire[s]) + 1
      BY <1>1
    <3> QED
      BY <2>2, <3>1, <3>2, WireIsPositive
  <2> QED
    BY <2>1, <2>2 DEF Send
<1>3. wire' \in [Pupils -> Seq(Messages)]
  BY <1>2 DEF Send
<1>4. mirror' \in [Pupils -> BOOLEAN]
  BY <1>1 DEF Send
<1>5. excuse' \in [Pupils -> SUBSET Reasons]
  <2>1. {"missed", "unwritten", "late", "freed"} \subseteq Reasons
    BY DEF Reasons
  <2> QED
    BY <1>1, <2>1 DEF Send
<1>6. owed' \in SUBSET Pupils
  BY <1>1 DEF Send
<1>7. faults' \in 0 .. MaxFaults
  <2>1. faults' = faults \/ Fault
    BY DEF Send
  <2> QED
    BY <2>1, ClassFaultType DEF ClassTypes, ClassTypeOK
<1> QED
  BY <1>2, <1>3, <1>4, <1>5, <1>6, <1>7

LEMMA ClassInitEstablishes == ClassInit => ClassInv
<1> SUFFICES ASSUME ClassInit PROVE ClassInv
  OBVIOUS
<1>1. /\ lessons \in [Lessons -> LessonRow]
      /\ pulse \in [status : {"none", "active", "ended"}, locked : BOOLEAN]
  BY DEF ClassInit, LessonRow
<1>2. jobs \in [Jobs -> Job] /\ \A j \in Jobs : jobs[j].step = "idle"
  BY JobsDone DEF ClassInit
<1>3. /\ wire \in [Pupils -> Seq(Messages)]
      /\ \A s \in Pupils : wire[s] \in Seq(Messages) /\ Len(wire[s]) <= MaxWire
  <2>1. <<>> \in Seq(Messages) /\ Len(<<>>) = 0
    OBVIOUS
  <2> QED
    BY <2>1, WireIsPositive DEF ClassInit
<1>4. ClassTypes
  <2>1. /\ roster \subseteq Pupils /\ joined \subseteq Pupils /\ online \subseteq Pupils
        /\ arming \subseteq Pupils /\ owed \subseteq Pupils /\ raced \in BOOLEAN
    BY DEF ClassInit
  <2>2. /\ device \in [Pupils -> {"none", "teacher", "pulse"}] /\ mirror \in [Pupils -> BOOLEAN]
        /\ excuse \in [Pupils -> SUBSET Reasons]
    BY DEF ClassInit
  <2>3. faults \in 0 .. MaxFaults
    BY ClassroomFaultsAreNat DEF ClassInit
  <2> QED
    BY <1>1, <1>2, <1>3, <2>1, <2>2, <2>3 DEF ClassTypes, ClassTypeOK, LessonRow
<1>5. Open = {} /\ Starting = {}
  BY <1>2 DEF ClassInit, Open, Starting
<1> QED
  BY <1>2, <1>4, <1>5 DEF ClassInv, OneStart

-----------------------------------------------------------------------------
(* The sessions.                                                           *)

\* Who does not start a session, and opens none, does not mind the starts.
LEMMA StartsUndisturbed ==
  ASSUME ClassInv, raced' = raced, Open' \subseteq Open,
         \A j \in Jobs : jobs'[j] = jobs[j] \/ jobs'[j].step \notin {"start", "autoStart"}
  PROVE  OneStart'
<1>1. OneStart
  BY DEF ClassInv
<1>2. Starting' \subseteq Starting
  BY DEF Starting
<1> QED
  BY <1>1, <1>2 DEF OneStart

\* A start that overlaps none sees every open session.
LEMMA StartKeeps ==
  ASSUME ClassInv, NEW j \in Jobs, StartLesson(j) \/ AutoStart(j)
  PROVE  OneStart'
<1>1. OneStart /\ ClassTypes
  BY DEF ClassInv
<1>2. Open' = Open
  BY DEF StartLesson, AutoStart, Open
<1>3. Open \in SUBSET Lessons
  BY DEF Open
<1>4. PICK job \in Job : /\ Do(j, job) /\ job.step \in {"start", "autoStart"}
                         /\ job.step = "start" => job.seen = Open
                         /\ job.step = "autoStart" => Open = {}
  BY <1>3, JobsDone DEF StartLesson, AutoStart
<1>5. jobs'[j] = job /\ \A i \in Jobs \ {j} : jobs'[i] = jobs[i]
  BY <1>1, <1>4, DoType
<1>6. raced' = (raced \/ Starting # {})
  BY DEF StartLesson, AutoStart
<1>7. ~raced' => Starting = {} /\ ~raced
  BY <1>6
<1>8. Starting' \subseteq Starting \cup {j}
  BY <1>5 DEF Starting
<1>9. ~raced' => \A i \in Jobs \ {j} : jobs'[i].step \notin {"start", "autoStart"}
  BY <1>5, <1>7 DEF Starting
<1> QED
  BY <1>1, <1>2, <1>4, <1>5, <1>7, <1>8, <1>9 DEF OneStart

\* The session that is opened is then the only one.
LEMMA OpeningKeeps ==
  ASSUME ClassInv, NEW j \in Jobs, NEW l \in Lessons, CommitLesson(j, l) \/ InsertAutoLesson(j, l)
  PROVE  OneStart' /\ lessons' \in [Lessons -> LessonRow]
<1>1. OneStart /\ ClassTypes /\ lessons \in [Lessons -> LessonRow]
  BY DEF ClassInv, ClassTypes, ClassTypeOK, LessonRow
<1>2. jobs'[j] = NoJob /\ \A i \in Jobs \ {j} : jobs'[i] = jobs[i]
  BY <1>1, JobsDone, DoType DEF CommitLesson, InsertAutoLesson
<1>3. j \in Starting /\ raced' = raced
  BY DEF CommitLesson, InsertAutoLesson, Starting
<1>4. Starting' \subseteq Starting \ {j}
  BY <1>2, JobsDone DEF Starting
<1>5. lessons' \in [Lessons -> LessonRow]
  <2>1. /\ [status |-> "active", auto |-> FALSE, due |-> FALSE] \in LessonRow
        /\ [status |-> "active", auto |-> TRUE, due |-> FALSE] \in LessonRow
        /\ \A k \in Lessons : lessons[k] \in LessonRow /\ [lessons[k] EXCEPT !.status = "ended"] \in LessonRow
    BY <1>1 DEF LessonRow
  <2>2. CASE CommitLesson(j, l)
    BY <1>1, <2>1, <2>2 DEF CommitLesson
  <2>3. CASE InsertAutoLesson(j, l)
    BY <1>1, <2>1, <2>3 DEF InsertAutoLesson
  <2> QED
    BY <2>2, <2>3
<1>6. ~raced => \A k \in Open' : k = l
  <2>1. CASE CommitLesson(j, l)
    <3>1. ~raced => Open \subseteq jobs[j].seen
      BY <1>1, <2>1 DEF CommitLesson, OneStart
    <3>2. \A k \in Lessons : k # l /\ k \in jobs[j].seen => lessons'[k].status = "ended"
      BY <1>1, <2>1 DEF CommitLesson, LessonRow
    <3>3. \A k \in Lessons : k # l /\ k \notin jobs[j].seen => lessons'[k] = lessons[k]
      BY <2>1 DEF CommitLesson
    <3> QED
      BY <3>1, <3>2, <3>3 DEF Open
  <2>2. CASE InsertAutoLesson(j, l)
    <3>1. ~raced => Open = {}
      BY <1>1, <2>2 DEF InsertAutoLesson, OneStart
    <3>2. \A k \in Lessons : k # l => lessons'[k] = lessons[k]
      BY <1>1, <2>2 DEF InsertAutoLesson
    <3> QED
      BY <3>1, <3>2 DEF Open
  <2> QED
    BY <2>1, <2>2
<1>7. ~raced => Starting' = {}
  BY <1>1, <1>3, <1>4 DEF OneStart
<1>8. ~raced => \A i \in Jobs : jobs'[i].step \notin {"start", "autoStart"}
  BY <1>7 DEF Starting
<1> QED
  BY <1>3, <1>5, <1>6, <1>7, <1>8 DEF OneStart

\* Ending opens nothing; time does not either.
LEMMA EndingKeeps ==
  ASSUME ClassInv, NEW j \in Jobs,
         \/ EndScheduledLessons(j) \/ \E l \in Lessons : EndLesson(j, l) \/ PeriodEnds(l)
  PROVE  ClassInv'
<1>1. /\ ClassTypes /\ lessons \in [Lessons -> LessonRow]
      /\ \A l \in Lessons : /\ lessons[l] \in LessonRow
                            /\ [lessons[l] EXCEPT !.status = "ended"] \in LessonRow
                            /\ [lessons[l] EXCEPT !.due = TRUE] \in LessonRow
                            /\ [lessons[l] EXCEPT !.status = "ended"].status = "ended"
                            /\ [lessons[l] EXCEPT !.due = TRUE].status = lessons[l].status
  BY DEF ClassInv, ClassTypes, ClassTypeOK, LessonRow
<1>2. lessons' \in [Lessons -> LessonRow] /\ Open' \subseteq Open
  <2>1. CASE EndScheduledLessons(j)
    <3>1. /\ lessons' \in [Lessons -> LessonRow]
          /\ \A l \in Lessons : lessons'[l] = lessons[l] \/ lessons'[l].status = "ended"
      BY <1>1, <2>1 DEF EndScheduledLessons
    <3> QED
      BY <3>1 DEF Open
  <2>2. ASSUME NEW l \in Lessons, EndLesson(j, l)
        PROVE  lessons' \in [Lessons -> LessonRow] /\ Open' \subseteq Open
    <3>1. lessons' = [lessons EXCEPT ![l] = [lessons[l] EXCEPT !.status = "ended"]]
      BY <2>2 DEF EndLesson
    <3>2. /\ lessons' \in [Lessons -> LessonRow]
          /\ \A k \in Lessons : lessons'[k] = lessons[k] \/ lessons'[k].status = "ended"
      BY <1>1, <3>1
    <3> QED
      BY <3>2 DEF Open
  <2>3. ASSUME NEW l \in Lessons, PeriodEnds(l)
        PROVE  lessons' \in [Lessons -> LessonRow] /\ Open' \subseteq Open
    <3>1. lessons' = [lessons EXCEPT ![l] = [lessons[l] EXCEPT !.due = TRUE]]
      BY <2>3 DEF PeriodEnds
    <3>2. lessons' \in [Lessons -> LessonRow] /\ \A k \in Lessons : lessons'[k].status = lessons[k].status
      BY <1>1, <3>1
    <3> QED
      BY <3>2 DEF Open
  <2> QED
    BY <2>1, <2>2, <2>3
<1>3. /\ jobs' \in [Jobs -> Job]
      /\ \A i \in Jobs : jobs'[i] = jobs[i] \/ jobs'[i].step \notin {"start", "autoStart"}
  <2>1. CASE jobs' = jobs
    BY <1>1, <2>1 DEF ClassTypes, ClassTypeOK
  <2>2. CASE Do(j, [step |-> "endClass"])
    BY <1>1, <2>2, JobsDone, DoType
  <2> QED
    BY <2>1, <2>2 DEF EndScheduledLessons, EndLesson, PeriodEnds
<1>4. owed' \in SUBSET Pupils
  BY <1>1 DEF EndScheduledLessons, EndLesson, PeriodEnds, OweClass, sentVars, ClassTypes, ClassTypeOK
<1>5. UNCHANGED <<raced, pulse, joined, roster, online, arming, device, wire, mirror, excuse, faults>>
  BY DEF EndScheduledLessons, EndLesson, PeriodEnds, pulseVars, deviceVars, sentVars
<1>6. ClassTypes'
  BY <1>1, <1>2, <1>3, <1>4, <1>5 DEF ClassTypes, ClassTypeOK, LessonRow
<1>7. OneStart'
  BY <1>2, <1>3, <1>5, StartsUndisturbed
<1> QED
  BY <1>6, <1>7 DEF ClassInv

LEMMA StartingKeeps ==
  ASSUME ClassInv, NEW j \in Jobs,
         \/ StartLesson(j) \/ AutoStart(j)
         \/ \E l \in Lessons : CommitLesson(j, l) \/ InsertAutoLesson(j, l)
  PROVE  ClassInv'
<1>1. ClassTypes /\ raced \in BOOLEAN /\ lessons \in [Lessons -> LessonRow]
  BY DEF ClassInv, ClassTypes, ClassTypeOK, LessonRow
<1>2. UNCHANGED <<pulse, joined, roster, online, arming, device, wire, mirror, excuse, owed, faults>>
  BY DEF StartLesson, AutoStart, CommitLesson, InsertAutoLesson, pulseVars, deviceVars, sentVars
<1>3. raced' \in BOOLEAN
  BY <1>1 DEF StartLesson, AutoStart, CommitLesson, InsertAutoLesson
<1>4. jobs' \in [Jobs -> Job]
  <2>1. Open \in SUBSET Lessons
    BY DEF Open
  <2>2. \E job \in Job : Do(j, job)
    BY <2>1, JobsDone DEF StartLesson, AutoStart, CommitLesson, InsertAutoLesson
  <2> QED
    BY <1>1, <2>2, DoType
<1>5. OneStart' /\ lessons' \in [Lessons -> LessonRow]
  <2>1. CASE StartLesson(j) \/ AutoStart(j)
    BY <1>1, <2>1, StartKeeps DEF StartLesson, AutoStart
  <2>2. CASE \E l \in Lessons : CommitLesson(j, l) \/ InsertAutoLesson(j, l)
    BY <2>2, OpeningKeeps
  <2> QED
    BY <2>1, <2>2
<1> QED
  BY <1>1, <1>2, <1>3, <1>4, <1>5 DEF ClassInv, ClassTypes, ClassTypeOK, LessonRow

-----------------------------------------------------------------------------
(* Locks, students and devices leave the sessions alone.                   *)

\* A handler that tells some students.
LEMMA SendingKeeps ==
  ASSUME ClassInv, NEW students, NEW message \in Messages, Send(students, message),
         UNCHANGED <<lessons, raced, pulse, joined, roster, online, arming, device>>,
         jobs' = jobs \/ \E j \in Jobs : Do(j, NoJob)
  PROVE  ClassInv'
<1>1. ClassTypes
  BY DEF ClassInv
<1>2. /\ jobs' \in [Jobs -> Job]
      /\ \A i \in Jobs : jobs'[i] = jobs[i] \/ jobs'[i].step \notin {"start", "autoStart"}
  BY <1>1, JobsDone, DoType DEF ClassTypes, ClassTypeOK
<1>3. ClassTypes'
  BY <1>1, <1>2, SendType DEF ClassTypes, ClassTypeOK
<1>4. OneStart'
  BY <1>2, StartsUndisturbed DEF Open
<1> QED
  BY <1>3, <1>4 DEF ClassInv

\* A step that sends nothing.
LEMMA QuietKeeps ==
  ASSUME ClassInv, UNCHANGED <<lessons, raced, wire, mirror>>,
         pulse' \in [status : {"none", "active", "ended"}, locked : BOOLEAN],
         roster' \in SUBSET Pupils, joined' \in SUBSET Pupils, online' \in SUBSET Pupils,
         arming' \in SUBSET Pupils, device' \in [Pupils -> {"none", "teacher", "pulse"}],
         owed' \in SUBSET Pupils, excuse' \in [Pupils -> SUBSET Reasons], faults' \in 0 .. MaxFaults,
         jobs' = jobs \/ \E j \in Jobs, job \in Job : Do(j, job) /\ job.step \notin {"start", "autoStart"}
  PROVE  ClassInv'
<1>1. ClassTypes
  BY DEF ClassInv
<1>2. /\ jobs' \in [Jobs -> Job]
      /\ \A i \in Jobs : jobs'[i] = jobs[i] \/ jobs'[i].step \notin {"start", "autoStart"}
  BY <1>1, DoType DEF ClassTypes, ClassTypeOK
<1>3. ClassTypes'
  BY <1>1, <1>2 DEF ClassTypes, ClassTypeOK
<1>4. OneStart'
  BY <1>2, StartsUndisturbed DEF Open
<1> QED
  BY <1>3, <1>4 DEF ClassInv

\* What QuietKeeps asks of the variables a step leaves alone.
LEMMA TypesInParts ==
  ASSUME ClassInv
  PROVE  /\ ClassTypes
         /\ pulse \in [status : {"none", "active", "ended"}, locked : BOOLEAN]
         /\ roster \in SUBSET Pupils /\ joined \in SUBSET Pupils /\ online \in SUBSET Pupils
         /\ arming \in SUBSET Pupils /\ device \in [Pupils -> {"none", "teacher", "pulse"}]
         /\ owed \in SUBSET Pupils /\ excuse \in [Pupils -> SUBSET Reasons] /\ faults \in 0 .. MaxFaults
BY DEF ClassInv, ClassTypes, ClassTypeOK

LEMMA SendStepsKeep ==
  ASSUME ClassInv,
         \/ \E j \in Jobs : ReleaseClass(j) \/ GreetJoined(j) \/ EngageLock(j) \/ ReleasePulse(j)
         \/ \E s \in Pupils : TeacherLocks(s) \/ TeacherUnlocks(s)
  PROVE  ClassInv'
<1>1. "teacher" \in Messages /\ "pulse" \in Messages /\ "release" \in Messages
  BY DEF Messages
<1>2. UNCHANGED <<lessons, raced, pulse, joined, roster, online, arming, device>>
  BY DEF ReleaseClass, GreetJoined, EngageLock, ReleasePulse, TeacherLocks, TeacherUnlocks,
    lessonVars, pulseVars, deviceVars
<1>3. jobs' = jobs \/ \E j \in Jobs : Do(j, NoJob)
  BY DEF ReleaseClass, GreetJoined, EngageLock, ReleasePulse, TeacherLocks, TeacherUnlocks
<1>4. ASSUME NEW students, NEW message \in Messages, Send(students, message) PROVE ClassInv'
  BY <1>2, <1>3, <1>4, SendingKeeps
<1>5. CASE \E j \in Jobs : ReleaseClass(j)
  BY <1>1, <1>4, <1>5 DEF ReleaseClass
<1>6. CASE \E j \in Jobs : GreetJoined(j)
  BY <1>1, <1>4, <1>6 DEF GreetJoined
<1>7. CASE \E j \in Jobs : EngageLock(j)
  BY <1>1, <1>4, <1>7 DEF EngageLock
<1>8. CASE \E j \in Jobs : ReleasePulse(j)
  BY <1>1, <1>4, <1>8 DEF ReleasePulse
<1>9. CASE \E s \in Pupils : TeacherLocks(s)
  BY <1>1, <1>4, <1>9 DEF TeacherLocks
<1>10. CASE \E s \in Pupils : TeacherUnlocks(s)
  BY <1>1, <1>4, <1>10 DEF TeacherUnlocks
<1> QED
  BY <1>5, <1>6, <1>7, <1>8, <1>9, <1>10

LEMMA PulseStepsKeep == ASSUME ClassInv, PulseSteps PROVE ClassInv'
<1>1. ASSUME NEW locked \in BOOLEAN, StartPulse(locked) PROVE ClassInv'
  <2>1. pulse' \in [status : {"none", "active", "ended"}, locked : BOOLEAN]
    BY <1>1 DEF StartPulse
  <2> QED
    BY <1>1, <2>1, TypesInParts, QuietKeeps DEF StartPulse, lessonVars, deviceVars, sentVars
<1>2. ASSUME NEW j \in Jobs, NEW s \in Pupils, Join(j, s) PROVE ClassInv'
  <2>1. PICK job \in Job : Do(j, job) /\ job.step \notin {"start", "autoStart"}
    <3>1. pulse.locked \in BOOLEAN
      BY TypesInParts
    <3> QED
      BY <1>2, <3>1, JobsDone DEF Join
  <2> QED
    BY <1>2, <2>1, TypesInParts, QuietKeeps DEF Join, lessonVars, pulseVars, deviceVars, sentVars
<1>3. ASSUME NEW j \in Jobs, InsertJoined(j) PROVE ClassInv'
  <2>1. PICK s \in Pupils, locked \in BOOLEAN : jobs[j] = [step |-> "join", student |-> s, locked |-> locked]
    <3>1. jobs[j].step = "join" /\ ClassTypes
      BY <1>3, TypesInParts DEF InsertJoined
    <3> QED
      BY <3>1, JobOfHandler
  <2>2. PICK job \in Job : Do(j, job) /\ job.step \notin {"start", "autoStart"}
    <3>1. [jobs[j] EXCEPT !.step = "greet"] = [step |-> "greet", student |-> s, locked |-> locked]
      BY <2>1
    <3> QED
      BY <1>3, <3>1, JobsDone DEF InsertJoined
  <2>3. joined' \in SUBSET Pupils
    BY <1>3, <2>1, TypesInParts DEF InsertJoined
  <2>4. excuse' \in [Pupils -> SUBSET Reasons]
    BY <1>3, TypesInParts, BlameType DEF InsertJoined, Reasons
  <2>5. UNCHANGED <<lessons, raced, wire, mirror, pulse, roster, online, arming, device, owed, faults>>
    BY <1>3 DEF InsertJoined, lessonVars, deviceVars
  <2> QED
    BY <2>2, <2>3, <2>4, <2>5, TypesInParts, QuietKeeps
<1>4. ASSUME NEW j \in Jobs, LockPulse(j) \/ UnlockPulse(j) \/ EndPulse(j) PROVE ClassInv'
  <2>1. pulse' \in [status : {"none", "active", "ended"}, locked : BOOLEAN]
    BY <1>4, TypesInParts DEF LockPulse, UnlockPulse, EndPulse
  <2>2. owed' \in SUBSET Pupils
    BY <1>4, TypesInParts DEF LockPulse, UnlockPulse, EndPulse, OwePulse, sentVars
  <2>3. jobs' = jobs \/ \E job \in Job : Do(j, job) /\ job.step \notin {"start", "autoStart"}
    BY <1>4, JobsDone DEF LockPulse, UnlockPulse, EndPulse
  <2>4. UNCHANGED <<lessons, raced, wire, mirror, joined, roster, online, arming, device, excuse, faults>>
    BY <1>4 DEF LockPulse, UnlockPulse, EndPulse, lessonVars, deviceVars, sentVars
  <2> QED
    BY <2>1, <2>2, <2>3, <2>4, TypesInParts, QuietKeeps
<1> QED
  BY <1>1, <1>2, <1>3, <1>4, SendStepsKeep DEF PulseSteps

\* The messages under way to a device only get fewer there.
LEMMA DeviceKeeps ==
  ASSUME ClassInv, NEW s \in Pupils, NEW left \in Seq(Messages), Len(left) <= MaxWire,
         wire' = [wire EXCEPT ![s] = left],
         UNCHANGED <<lessons, raced, pulse, joined, roster, jobs, mirror, owed>>,
         online' \in SUBSET Pupils, arming' \in SUBSET Pupils,
         device' \in [Pupils -> {"none", "teacher", "pulse"}],
         excuse' \in [Pupils -> SUBSET Reasons], faults' \in 0 .. MaxFaults
  PROVE  ClassInv'
<1>1. ClassTypes
  BY DEF ClassInv
<1>2. wire' \in [Pupils -> Seq(Messages)] /\ \A o \in Pupils : Len(wire'[o]) <= MaxWire
  BY <1>1 DEF ClassTypes, ClassTypeOK
<1>3. ClassTypes'
  BY <1>1, <1>2 DEF ClassTypes, ClassTypeOK
<1>4. OneStart'
  BY StartsUndisturbed DEF Open
<1> QED
  BY <1>3, <1>4 DEF ClassInv

LEMMA StudentStepsKeep == ASSUME ClassInv, StudentSteps PROVE ClassInv'
<1>1. ASSUME NEW s \in Pupils, RemoveMember(s) PROVE ClassInv'
  <2>1. excuse' \in [Pupils -> SUBSET Reasons] /\ faults' \in 0 .. MaxFaults
    BY <1>1, TypesInParts, BlameType, ClassFaultType DEF RemoveMember, Reasons
  <2>2. roster' \in SUBSET Pupils
    BY <1>1, TypesInParts DEF RemoveMember
  <2> QED
    BY <1>1, <2>1, <2>2, TypesInParts, QuietKeeps DEF RemoveMember, lessonVars, pulseVars, deviceVars
<1>2. ASSUME NEW s \in Pupils, AddMember(s) PROVE ClassInv'
  <2>1. roster' \in SUBSET Pupils
    BY <1>2, TypesInParts DEF AddMember
  <2> QED
    BY <1>2, <2>1, TypesInParts, QuietKeeps DEF AddMember, lessonVars, pulseVars, deviceVars, sentVars
<1>3. ASSUME NEW s \in Pupils, Receive(s) PROVE ClassInv'
  <2>1. /\ wire[s] \in Seq(Messages) /\ wire[s] # <<>> /\ Len(wire[s]) <= MaxWire
    BY <1>3 DEF Receive, ClassInv, ClassTypes, ClassTypeOK
  <2>2. Head(wire[s]) \in {"teacher", "pulse", "release"} /\ Tail(wire[s]) \in Seq(Messages)
    BY <2>1 DEF Messages
  <2>3. Len(Tail(wire[s])) = Len(wire[s]) - 1 /\ Len(wire[s]) \in Nat
    BY <2>1
  <2>4. Len(Tail(wire[s])) <= MaxWire
    BY <2>1, <2>3, WireIsPositive
  <2>5. device' \in [Pupils -> {"none", "teacher", "pulse"}]
    <3>1. CASE Head(wire[s]) = "teacher"
      BY <1>3, <3>1, TypesInParts DEF Receive
    <3>2. CASE Head(wire[s]) = "release"
      BY <1>3, <3>2, TypesInParts DEF Receive
    <3>3. CASE Head(wire[s]) = "pulse"
      BY <1>3, <3>3, TypesInParts DEF Receive
    <3> QED
      BY <2>2, <3>1, <3>2, <3>3
  <2>6. arming' \in SUBSET Pupils
    BY <1>3, TypesInParts DEF Receive
  <2>7. excuse' \in [Pupils -> SUBSET Reasons]
    BY <1>3, TypesInParts, BlameType DEF Receive, Reasons
  <2>8. /\ wire' = [wire EXCEPT ![s] = Tail(wire[s])]
        /\ UNCHANGED <<lessons, raced, pulse, joined, roster, jobs, mirror, owed, online, faults>>
    BY <1>3 DEF Receive, lessonVars, pulseVars
  <2> QED
    BY <2>2, <2>4, <2>5, <2>6, <2>7, <2>8, TypesInParts, DeviceKeeps
<1>4. ASSUME NEW s \in Pupils, ArmLock(s) PROVE ClassInv'
  <2>1. arming' \in SUBSET Pupils /\ device' \in [Pupils -> {"none", "teacher", "pulse"}]
    BY <1>4, TypesInParts DEF ArmLock
  <2> QED
    BY <1>4, <2>1, TypesInParts, QuietKeeps DEF ArmLock, lessonVars, pulseVars, sentVars
<1>5. ASSUME NEW s \in Pupils, Disconnect(s) PROVE ClassInv'
  <2>1. <<>> \in Seq(Messages) /\ Len(<<>>) <= MaxWire
    BY WireIsPositive
  <2>2. excuse' \in [Pupils -> SUBSET Reasons] /\ faults' \in 0 .. MaxFaults
    BY <1>5, TypesInParts, BlameType, ClassFaultType DEF Disconnect, Reasons
  <2>3. online' \in SUBSET Pupils /\ arming' \in SUBSET Pupils
    BY <1>5, TypesInParts DEF Disconnect
  <2>4. /\ wire' = [wire EXCEPT ![s] = <<>>]
        /\ UNCHANGED <<lessons, raced, pulse, joined, roster, jobs, mirror, owed, device>>
    BY <1>5 DEF Disconnect, lessonVars, pulseVars
  <2> QED
    BY <2>1, <2>2, <2>3, <2>4, TypesInParts, DeviceKeeps
<1>6. ASSUME NEW s \in Pupils, Connect(s) PROVE ClassInv'
  <2>1. online' \in SUBSET Pupils
    BY <1>6, TypesInParts DEF Connect
  <2> QED
    BY <1>6, <2>1, TypesInParts, QuietKeeps DEF Connect, lessonVars, pulseVars, deviceVars, sentVars
<1> QED
  BY <1>1, <1>2, <1>3, <1>4, <1>5, <1>6, SendStepsKeep DEF StudentSteps

LEMMA JobStopsKeeps == ASSUME ClassInv, NEW j \in Jobs, JobStops(j) PROVE ClassInv'
<1>1. excuse' \in [Pupils -> SUBSET Reasons] /\ faults' \in 0 .. MaxFaults
  BY TypesInParts, BlameType, ClassFaultType DEF JobStops, Reasons
<1>2. UNCHANGED <<lessons, raced, pulse, joined, roster, online, arming, device, wire, mirror, owed>>
  BY DEF JobStops, lessonVars, pulseVars, deviceVars
<1>3. \E job \in Job : Do(j, job) /\ job.step \notin {"start", "autoStart"}
  BY JobsDone DEF JobStops
<1> QED
  BY <1>1, <1>2, <1>3, TypesInParts, QuietKeeps

LEMMA ClassInvKept == ClassInv /\ [ClassNext]_classVars => ClassInv'
<1> SUFFICES ASSUME ClassInv, [ClassNext]_classVars PROVE ClassInv'
  OBVIOUS
<1>1. CASE UNCHANGED classVars
  BY <1>1, TypesInParts, QuietKeeps DEF classVars, lessonVars, pulseVars, deviceVars, sentVars
<1>2. CASE LessonSteps
  BY <1>2, StartingKeeps, EndingKeeps, SendStepsKeep DEF LessonSteps
<1>3. CASE \E j \in Jobs : JobStops(j)
  BY <1>3, JobStopsKeeps
<1> QED
  BY <1>1, <1>2, <1>3, PulseStepsKeep, StudentStepsKeep DEF ClassNext

-----------------------------------------------------------------------------
(* The screens. What a device will show is settled by the last message     *)
(* under way to it, and by what it is doing if there is none. A screen is  *)
(* wrong when nobody is about to send and that is not what was meant.      *)

\* The screen of s comes out locked if nothing more is sent to it.
EndsLocked(s) ==
  IF wire[s] # <<>> THEN wire[s][Len(wire[s])] # "release" ELSE s \in arming \/ device[s] # "none"

\* A handler is about to release s, or to lock s.
ReleaseDue(s) ==
  \E j \in Jobs : \/ jobs[j].step = "endClass" /\ s \in roster
                  \/ jobs[j].step = "release" /\ s \in joined \cup roster
LockDue(s) ==
  \E j \in Jobs : \/ jobs[j].step = "engage" /\ s \in joined
                  \/ jobs[j].step = "greet" /\ jobs[j].student = s

ReleaseComes(s) ==
  s \in owed => \/ ReleaseDue(s) \/ ~EndsLocked(s)
                \/ excuse[s] \cap {"missed", "dropped", "stopped", "late", "overtaken"} # {}
LockComes(s) ==
  s \in joined /\ Focus => \/ LockDue(s) \/ EndsLocked(s)
                           \/ excuse[s] \cap {"missed", "stopped", "slipped", "freed"} # {}
MirrorFollows(s) ==
  excuse[s] \cap {"missed", "overtaken", "unwritten"} = {} => mirror[s] = EndsLocked(s)

ScreenInv(s) == ReleaseComes(s) /\ LockComes(s) /\ MirrorFollows(s)

\* Nobody has joined, or is about to, before there is a session.
NobodyEarly ==
  pulse.status = "none" => joined = {} /\ \A j \in Jobs : jobs[j].step # "join"

ScreensInv == NobodyEarly /\ \A s \in Pupils : ScreenInv(s)

\* A step that sends s nothing: what is wrong with the screen after it was wrong before,
\* or a handler is about to see to it, or there is an excuse.
LEMMA ScreenKept ==
  ASSUME NEW s \in Pupils, ScreenInv(s),
         EndsLocked(s) => EndsLocked(s)' \/ "missed" \in excuse'[s],
         EndsLocked(s)' => EndsLocked(s) \/ excuse'[s] \cap {"missed", "overtaken"} # {},
         mirror[s] \in BOOLEAN, mirror'[s] = mirror[s], excuse[s] \subseteq excuse'[s],
         s \in owed' => s \in owed \/ ReleaseDue(s)' \/ "dropped" \in excuse'[s],
         ReleaseDue(s) => ReleaseDue(s)' \/ excuse'[s] \cap {"dropped", "stopped"} # {},
         (s \in joined /\ Focus)' => (s \in joined /\ Focus) \/ LockDue(s)' \/ "slipped" \in excuse'[s],
         LockDue(s) => LockDue(s)' \/ "stopped" \in excuse'[s]
  PROVE  ScreenInv(s)'
<1>1. ReleaseComes(s)'
  BY DEF ScreenInv, ReleaseComes
<1>2. LockComes(s)'
  BY DEF ScreenInv, LockComes
<1>3. MirrorFollows(s)'
  <2>1. EndsLocked(s) \in BOOLEAN /\ EndsLocked(s)' \in BOOLEAN
    BY DEF EndsLocked
  <2> QED
    BY <2>1 DEF ScreenInv, MirrorFollows
<1> QED
  BY <1>1, <1>2, <1>3 DEF ScreenInv

\* What a device has and has under way decides how its screen comes out.
LEMMA EndsAsBefore ==
  ASSUME NEW s \in Pupils, wire'[s] = wire[s], device'[s] = device[s], s \in arming' <=> s \in arming
  PROVE  EndsLocked(s)' = EndsLocked(s)
BY DEF EndsLocked

\* The messages to some students: those connected will show what they say.
LEMMA SendSettles ==
  ASSUME ClassTypes, NEW students, NEW message \in Messages, Send(students, message),
         UNCHANGED <<arming, device>>, NEW s \in Pupils
  PROVE  /\ s \notin students => /\ EndsLocked(s)' = EndsLocked(s) /\ mirror'[s] = mirror[s]
                                 /\ excuse'[s] = excuse[s] /\ (s \in owed' <=> s \in owed)
         /\ s \in students => /\ s \in online => EndsLocked(s)' = (message # "release")
                              /\ s \notin online => "missed" \in excuse'[s]
                              /\ mirror'[s] = (message # "release") \/ "unwritten" \in excuse'[s]
                              /\ message = "pulse" /\ ~Focus => "late" \in excuse'[s]
                              /\ message = "release" /\ Focus => "freed" \in excuse'[s]
                              /\ message = "pulse" /\ Focus => s \notin owed'
                              /\ message = "teacher" => s \notin owed'
<1>1. /\ wire \in [Pupils -> Seq(Messages)] /\ mirror \in [Pupils -> BOOLEAN] /\ wire[s] \in Seq(Messages)
  BY DEF ClassTypes, ClassTypeOK
<1>2. CASE s \notin students
  <2>1. wire'[s] = wire[s] /\ mirror'[s] = mirror[s] /\ excuse'[s] = excuse[s]
    BY <1>1, <1>2 DEF Send
  <2>2. s \in owed' <=> s \in owed
    BY <1>2 DEF Send
  <2> QED
    BY <1>2, <2>1, <2>2, EndsAsBefore
<1>3. CASE s \in students
  <2>1. s \in online => EndsLocked(s)' = (message # "release")
    <3>1. SUFFICES ASSUME s \in online PROVE EndsLocked(s)' = (message # "release")
      OBVIOUS
    <3>2. wire'[s] = Append(wire[s], message)
      BY <1>3, <3>1 DEF Send
    <3>3. wire'[s] # <<>> /\ wire'[s][Len(wire'[s])] = message
      BY <1>1, <3>2
    <3> QED
      BY <3>3 DEF EndsLocked
  <2>2. mirror'[s] = (message # "release") \/ "unwritten" \in excuse'[s]
    BY <1>3 DEF Send
  <2>3. /\ s \notin online => "missed" \in excuse'[s]
        /\ message = "pulse" /\ ~Focus => "late" \in excuse'[s]
        /\ message = "release" /\ Focus => "freed" \in excuse'[s]
    BY <1>3 DEF Send
  <2>4. message = "teacher" \/ (message = "pulse" /\ Focus) => s \notin owed'
    BY <1>3 DEF Send
  <2> QED
    BY <1>3, <2>1, <2>2, <2>3, <2>4
<1> QED
  BY <1>2, <1>3

\* A handler that sends keeps every screen right, if those it owed something are
\* among those it sends to.
LEMMA SendKeepsScreen ==
  ASSUME ClassTypes, NEW students, NEW message \in Messages, Send(students, message),
         UNCHANGED <<pulse, joined, roster, arming, device>>, NEW s \in Pupils, ScreenInv(s),
         s \notin students => /\ ReleaseDue(s) => ReleaseDue(s)'
                              /\ LockDue(s) => LockDue(s)'
  PROVE  ScreenInv(s)'
<1>1. Focus' = Focus /\ mirror[s] \in BOOLEAN
  BY DEF Focus, ClassTypes, ClassTypeOK
<1>2. CASE s \notin students
  <2>1. /\ EndsLocked(s)' = EndsLocked(s) /\ mirror'[s] = mirror[s]
        /\ excuse'[s] = excuse[s] /\ (s \in owed' <=> s \in owed)
    BY <1>2, SendSettles
  <2> QED
    BY <1>1, <1>2, <2>1, ScreenKept
<1>3. CASE s \in students
  <2>1. message \in {"teacher", "pulse", "release"}
    BY DEF Messages
  <2>2. /\ s \in online => EndsLocked(s)' = (message # "release")
        /\ s \notin online => "missed" \in excuse'[s]
        /\ mirror'[s] = (message # "release") \/ "unwritten" \in excuse'[s]
        /\ message = "pulse" /\ ~Focus => "late" \in excuse'[s]
        /\ message = "release" /\ Focus => "freed" \in excuse'[s]
        /\ message = "pulse" /\ Focus => s \notin owed'
        /\ message = "teacher" => s \notin owed'
    BY <1>3, SendSettles
  <2>3. ReleaseComes(s)'
    BY <2>1, <2>2 DEF ReleaseComes
  <2>4. LockComes(s)'
    BY <1>1, <2>1, <2>2 DEF LockComes
  <2>5. MirrorFollows(s)'
    BY <2>2 DEF MirrorFollows
  <2> QED
    BY <2>3, <2>4, <2>5 DEF ScreenInv
<1> QED
  BY <1>2, <1>3

Due == {"endClass", "release", "engage", "greet"}

\* A handler that owed nobody anything takes nothing from anybody.
LEMMA DuesKept ==
  ASSUME ClassTypes, NEW s \in Pupils, roster \subseteq roster', joined \subseteq joined',
         jobs' = jobs \/ \E j \in Jobs : /\ jobs[j].step \notin Due
                                         /\ \A i \in Jobs \ {j} : jobs'[i] = jobs[i]
  PROVE  (ReleaseDue(s) => ReleaseDue(s)') /\ (LockDue(s) => LockDue(s)')
<1>1. \A i \in Jobs : jobs[i].step \in Due => jobs'[i] = jobs[i]
  OBVIOUS
<1>2. ASSUME ReleaseDue(s) PROVE ReleaseDue(s)'
  <2>1. PICK j \in Jobs : \/ jobs[j].step = "endClass" /\ s \in roster
                          \/ jobs[j].step = "release" /\ s \in joined \cup roster
    BY <1>2 DEF ReleaseDue
  <2>2. jobs'[j] = jobs[j]
    BY <1>1, <2>1 DEF Due
  <2> QED
    BY <2>1, <2>2 DEF ReleaseDue
<1>3. ASSUME LockDue(s) PROVE LockDue(s)'
  <2>1. PICK j \in Jobs : \/ jobs[j].step = "engage" /\ s \in joined
                          \/ jobs[j].step = "greet" /\ jobs[j].student = s
    BY <1>3 DEF LockDue
  <2>2. jobs'[j] = jobs[j]
    BY <1>1, <2>1 DEF Due
  <2> QED
    BY <2>1, <2>2 DEF LockDue
<1> QED
  BY <1>2, <1>3

\* A step of the lessons, or one that takes nobody's message, device or excuse away.
LEMMA OwingKeepsScreen ==
  ASSUME ClassTypes, NEW s \in Pupils, ScreenInv(s),
         UNCHANGED <<arming, device, wire, mirror>>, excuse[s] \subseteq excuse'[s],
         roster \subseteq roster', joined \subseteq joined',
         jobs' = jobs \/ \E j \in Jobs : /\ jobs[j].step \notin Due
                                         /\ \A i \in Jobs \ {j} : jobs'[i] = jobs[i],
         s \in owed' => s \in owed \/ ReleaseDue(s)' \/ "dropped" \in excuse'[s],
         (s \in joined /\ Focus)' => (s \in joined /\ Focus) \/ LockDue(s)' \/ "slipped" \in excuse'[s]
  PROVE  ScreenInv(s)'
<1>1. EndsLocked(s)' = EndsLocked(s)
  BY EndsAsBefore
<1>2. mirror[s] \in BOOLEAN
  BY DEF ClassTypes, ClassTypeOK
<1> QED
  BY <1>1, <1>2, DuesKept, ScreenKept

LEMMA LessonsKeepScreens ==
  ASSUME ClassTypes, ScreensInv, NEW j \in Jobs,
         \/ StartLesson(j) \/ AutoStart(j) \/ EndScheduledLessons(j)
         \/ \E l \in Lessons : \/ CommitLesson(j, l) \/ InsertAutoLesson(j, l)
                               \/ PeriodEnds(l) \/ EndLesson(j, l)
  PROVE  ScreensInv'
<1>1. UNCHANGED <<pulse, joined, roster, arming, device, wire, mirror, excuse>>
  BY DEF StartLesson, AutoStart, EndScheduledLessons, CommitLesson, InsertAutoLesson, PeriodEnds,
    EndLesson, pulseVars, deviceVars, sentVars
<1>2. \/ jobs' = jobs /\ owed' = owed
      \/ \E job \in Job : /\ Do(j, job) /\ jobs[j].step \notin Due /\ job.step # "join"
                          /\ owed' = owed \/ (job.step = "endClass" /\ OweClass)
  <2>1. NoJob.step \notin Due /\ NoJob.step # "join"
    BY DEF NoJob, Due
  <2>2. CASE StartLesson(j) \/ AutoStart(j)
    <3>1. [step |-> "start", seen |-> Open] \in Job
      BY JobsDone DEF Open
    <3> QED
      BY <2>1, <2>2, <3>1, JobsDone DEF StartLesson, AutoStart, sentVars
  <2>3. CASE EndScheduledLessons(j)
    BY <2>1, <2>3, JobsDone DEF EndScheduledLessons
  <2>4. ASSUME NEW l \in Lessons, CommitLesson(j, l) \/ InsertAutoLesson(j, l)
        PROVE  \E job \in Job : /\ Do(j, job) /\ jobs[j].step \notin Due /\ job.step # "join"
                                /\ owed' = owed
    BY <2>1, <2>4, JobsDone DEF CommitLesson, InsertAutoLesson, sentVars, Due
  <2>5. ASSUME NEW l \in Lessons, EndLesson(j, l)
        PROVE  \E job \in Job : /\ Do(j, job) /\ jobs[j].step \notin Due /\ job.step # "join"
                                /\ owed' = owed \/ (job.step = "endClass" /\ OweClass)
    BY <2>1, <2>5, JobsDone DEF EndLesson
  <2>6. ASSUME NEW l \in Lessons, PeriodEnds(l) PROVE jobs' = jobs /\ owed' = owed
    BY <2>6 DEF PeriodEnds, sentVars
  <2> QED
    BY <2>2, <2>3, <2>4, <2>5, <2>6
<1>3. /\ \A i \in Jobs : jobs'[i] = jobs[i] \/ jobs'[i].step # "join"
      /\ jobs' = jobs \/ /\ jobs[j].step \notin Due
                         /\ \A i \in Jobs \ {j} : jobs'[i] = jobs[i]
  BY <1>2, DoType
<1>4. ASSUME NEW s \in Pupils PROVE ScreenInv(s)'
  <2>1. s \in owed' => s \in owed \/ ReleaseDue(s)' \/ "dropped" \in excuse'[s]
    <3>1. CASE owed' = owed
      BY <3>1
    <3>2. CASE \E job \in Job : Do(j, job) /\ job.step = "endClass" /\ OweClass
      <4>1. jobs'[j].step = "endClass"
        BY <3>2, DoType
      <4>2. s \in owed' => s \in owed \/ s \in roster \/ "dropped" \in excuse[s]
        BY <3>2 DEF OweClass
      <4> QED
        BY <1>1, <4>1, <4>2 DEF ReleaseDue
    <3> QED
      BY <1>2, <3>1, <3>2
  <2>2. Focus' = Focus /\ ScreenInv(s)
    BY <1>1 DEF Focus, ScreensInv
  <2> QED
    BY <1>1, <1>3, <2>1, <2>2, OwingKeepsScreen
<1>5. NobodyEarly'
  BY <1>1, <1>3 DEF ScreensInv, NobodyEarly
<1> QED
  BY <1>4, <1>5 DEF ScreensInv

\* The session starts, is locked, unlocked or ends, and who joins is on the list.
LEMMA PulseKeepsScreens ==
  ASSUME ClassTypes, ScreensInv,
         \/ \E locked \in BOOLEAN : StartPulse(locked)
         \/ \E j \in Jobs : \/ LockPulse(j) \/ UnlockPulse(j) \/ EndPulse(j) \/ InsertJoined(j)
                            \/ \E s \in Pupils : Join(j, s)
  PROVE  ScreensInv'
<1>1. NoJob.step = "idle" /\ NoJob.step \notin Due
  BY DEF NoJob, Due
<1>2. excuse \in [Pupils -> SUBSET Reasons]
  BY DEF ClassTypes, ClassTypeOK
<1>3. ASSUME NEW locked \in BOOLEAN, StartPulse(locked) PROVE ScreensInv'
  <2>1. UNCHANGED <<joined, roster, jobs, arming, device, wire, mirror, excuse, owed>> /\ joined = {}
    BY <1>3 DEF StartPulse, deviceVars, sentVars, ScreensInv, NobodyEarly
  <2>2. pulse'.status = "active"
    BY <1>3 DEF StartPulse
  <2>3. ASSUME NEW s \in Pupils PROVE ScreenInv(s)'
    BY <2>1, OwingKeepsScreen DEF ScreensInv
  <2> QED
    BY <2>2, <2>3 DEF ScreensInv, NobodyEarly
<1>4. ASSUME NEW j \in Jobs, LockPulse(j) PROVE ScreensInv'
  <2>1. /\ UNCHANGED <<joined, roster, arming, device, wire, mirror, excuse, owed>>
        /\ jobs[j] = NoJob /\ pulse.status = "active" /\ pulse' = [pulse EXCEPT !.locked = TRUE]
    BY <1>4 DEF LockPulse, deviceVars, sentVars
  <2>2. jobs'[j].step = "engage" /\ \A i \in Jobs \ {j} : jobs'[i] = jobs[i]
    BY <1>4, JobsDone, DoType DEF LockPulse
  <2>3. ASSUME NEW s \in Pupils PROVE ScreenInv(s)'
    <3>1. s \in joined => LockDue(s)'
      BY <2>1, <2>2 DEF LockDue
    <3> QED
      BY <1>1, <2>1, <2>2, <3>1, OwingKeepsScreen DEF ScreensInv
  <2>4. pulse'.status = "active"
    BY <2>1 DEF ClassTypes, ClassTypeOK
  <2> QED
    BY <2>3, <2>4 DEF ScreensInv, NobodyEarly
<1>5. ASSUME NEW j \in Jobs, UnlockPulse(j) \/ EndPulse(j) PROVE ScreensInv'
  <2>1. /\ UNCHANGED <<joined, roster, arming, device, wire, mirror, excuse>>
        /\ jobs[j] = NoJob /\ pulse.status = "active"
        /\ pulse' \in {[pulse EXCEPT !.locked = FALSE], [pulse EXCEPT !.status = "ended"]}
    BY <1>5 DEF UnlockPulse, EndPulse, deviceVars
  <2>2. pulse'.status # "none" /\ ~Focus'
    BY <2>1 DEF Focus, ClassTypes, ClassTypeOK
  <2>3. \/ jobs' = jobs /\ owed' = owed
        \/ Do(j, [step |-> "release"]) /\ OwePulse
    BY <1>5 DEF UnlockPulse, EndPulse
  <2>4. \/ jobs' = jobs /\ owed' = owed
        \/ /\ jobs'[j].step = "release" /\ \A i \in Jobs \ {j} : jobs'[i] = jobs[i]
           /\ OwePulse
    BY <2>3, JobsDone, DoType
  <2>5. ASSUME NEW s \in Pupils PROVE ScreenInv(s)'
    <3>1. s \in owed' => s \in owed \/ ReleaseDue(s)' \/ "dropped" \in excuse'[s]
      <4>1. CASE owed' = owed
        BY <4>1
      <4>2. CASE jobs'[j].step = "release" /\ OwePulse
        <5>1. s \in owed' => s \in owed \/ s \in joined \cup roster \/ "dropped" \in excuse[s]
          BY <4>2 DEF OwePulse
        <5> QED
          BY <2>1, <4>2, <5>1 DEF ReleaseDue
      <4> QED
        BY <2>4, <4>1, <4>2
    <3> QED
      BY <1>1, <2>1, <2>2, <2>4, <3>1, OwingKeepsScreen DEF ScreensInv
  <2> QED
    BY <2>2, <2>5 DEF ScreensInv, NobodyEarly
<1>6. ASSUME NEW j \in Jobs, InsertJoined(j) PROVE ScreensInv'
  <2>1. PICK o \in Pupils, locked \in BOOLEAN : jobs[j] = [step |-> "join", student |-> o, locked |-> locked]
    <3>1. jobs[j].step = "join"
      BY <1>6 DEF InsertJoined
    <3> QED
      BY <3>1, JobOfHandler
  <2>2. /\ UNCHANGED <<pulse, roster, arming, device, wire, mirror, owed>>
        /\ joined' = joined \cup {o} /\ Focus' = Focus
    BY <1>6, <2>1 DEF InsertJoined, deviceVars, Focus
  <2>3. /\ jobs'[j] = IF locked THEN [step |-> "greet", student |-> o, locked |-> locked] ELSE NoJob
        /\ \A i \in Jobs \ {j} : jobs'[i] = jobs[i]
    <3>1. [jobs[j] EXCEPT !.step = "greet"] = [step |-> "greet", student |-> o, locked |-> locked]
      BY <2>1
    <3> QED
      BY <1>6, <2>1, <3>1, JobsDone, DoType DEF InsertJoined
  <2>4. /\ \A s \in Pupils : excuse[s] \subseteq excuse'[s]
        /\ Focus /\ ~locked => "slipped" \in excuse'[o]
    BY <1>2, <1>6, <2>1 DEF InsertJoined, Blame
  <2>5. ASSUME NEW s \in Pupils PROVE ScreenInv(s)'
    <3>1. (s \in joined /\ Focus)' => (s \in joined /\ Focus) \/ LockDue(s)' \/ "slipped" \in excuse'[s]
      <4>1. CASE s # o
        BY <2>2, <4>1
      <4>2. CASE s = o /\ locked
        BY <2>3, <4>2 DEF LockDue
      <4>3. CASE s = o /\ ~locked
        BY <2>2, <2>4, <4>3
      <4> QED
        BY <4>1, <4>2, <4>3
    <3>2. jobs[j].step \notin Due
      BY <2>1 DEF Due
    <3> QED
      BY <2>2, <2>3, <2>4, <3>1, <3>2, OwingKeepsScreen DEF ScreensInv
  <2>6. pulse.status # "none"
    BY <2>1 DEF ScreensInv, NobodyEarly
  <2> QED
    BY <2>2, <2>5, <2>6 DEF ScreensInv, NobodyEarly
<1>7. ASSUME NEW j \in Jobs, NEW o \in Pupils, Join(j, o) PROVE ScreensInv'
  <2>1. /\ UNCHANGED <<pulse, joined, roster, arming, device, wire, mirror, excuse, owed>>
        /\ jobs[j] = NoJob /\ pulse.status = "active" /\ Focus' = Focus
    BY <1>7 DEF Join, pulseVars, deviceVars, sentVars, Focus
  <2>2. \A i \in Jobs \ {j} : jobs'[i] = jobs[i]
    <3>1. pulse.locked \in BOOLEAN
      BY DEF ClassTypes, ClassTypeOK
    <3> QED
      BY <1>7, <3>1, JobsDone, DoType DEF Join
  <2>3. ASSUME NEW s \in Pupils PROVE ScreenInv(s)'
    BY <1>1, <2>1, <2>2, OwingKeepsScreen DEF ScreensInv
  <2> QED
    BY <2>1, <2>3 DEF ScreensInv, NobodyEarly
<1> QED
  BY <1>3, <1>4, <1>5, <1>6, <1>7

\* Those a handler was about to tell are among those it tells.
LEMMA SendingKeepsScreens ==
  ASSUME ClassTypes, ScreensInv,
         \/ \E j \in Jobs : ReleaseClass(j) \/ GreetJoined(j) \/ EngageLock(j) \/ ReleasePulse(j)
         \/ \E s \in Pupils : TeacherLocks(s) \/ TeacherUnlocks(s)
  PROVE  ScreensInv'
<1>1. UNCHANGED <<pulse, joined, roster, arming, device>>
  BY DEF ReleaseClass, GreetJoined, EngageLock, ReleasePulse, TeacherLocks, TeacherUnlocks,
    pulseVars, deviceVars
<1>2. /\ "teacher" \in Messages /\ "pulse" \in Messages /\ "release" \in Messages
      /\ NoJob \in Job /\ NoJob.step = "idle"
  BY JobsDone DEF Messages
<1>3. ASSUME NEW students, NEW message \in Messages, Send(students, message), NEW j,
             jobs' = jobs \/ (j \in Jobs /\ Do(j, NoJob)),
             \A s \in Pupils \ students :
               jobs' = jobs \/ /\ jobs[j].step = "endClass" => s \notin roster
                               /\ jobs[j].step = "release" => s \notin joined \cup roster
                               /\ jobs[j].step = "engage" => s \notin joined
                               /\ jobs[j].step = "greet" => s # jobs[j].student
      PROVE  ScreensInv'
  <2>1. jobs' = jobs \/ (j \in Jobs /\ jobs'[j] = NoJob /\ \A i \in Jobs \ {j} : jobs'[i] = jobs[i])
    BY <1>2, <1>3, DoType
  <2>2. ASSUME NEW s \in Pupils PROVE ScreenInv(s)'
    <3>1. s \notin students => (ReleaseDue(s) => ReleaseDue(s)')
      BY <1>1, <1>3, <2>1 DEF ReleaseDue
    <3>2. s \notin students => (LockDue(s) => LockDue(s)')
      BY <1>1, <1>3, <2>1 DEF LockDue
    <3> QED
      BY <1>1, <1>3, <3>1, <3>2, SendKeepsScreen DEF ScreensInv
  <2>3. NobodyEarly'
    BY <1>1, <1>2, <2>1 DEF ScreensInv, NobodyEarly
  <2> QED
    BY <2>2, <2>3 DEF ScreensInv
<1>4. CASE \E j \in Jobs : ReleaseClass(j)
  BY <1>2, <1>3, <1>4 DEF ReleaseClass
<1>5. CASE \E j \in Jobs : GreetJoined(j)
  BY <1>2, <1>3, <1>5 DEF GreetJoined
<1>6. CASE \E j \in Jobs : EngageLock(j)
  BY <1>2, <1>3, <1>6 DEF EngageLock
<1>7. CASE \E j \in Jobs : ReleasePulse(j)
  BY <1>2, <1>3, <1>7 DEF ReleasePulse
<1>8. CASE \E s \in Pupils : TeacherLocks(s) \/ TeacherUnlocks(s)
  BY <1>2, <1>3, <1>8 DEF TeacherLocks, TeacherUnlocks
<1> QED
  BY <1>4, <1>5, <1>6, <1>7, <1>8

\* Taking a message leaves the last one last, or was taking the last one.
LEMMA LastMessage ==
  ASSUME NEW messages \in Seq(Messages), messages # <<>>
  PROVE  /\ Tail(messages) = <<>> => Head(messages) = messages[Len(messages)]
         /\ Tail(messages) # <<>> => Tail(messages)[Len(Tail(messages))] = messages[Len(messages)]
<1>1. /\ Len(messages) \in Nat \ {0} /\ Head(messages) = messages[1] /\ Tail(messages) \in Seq(Messages)
      /\ Len(Tail(messages)) = Len(messages) - 1
      /\ \A i \in 1 .. Len(Tail(messages)) : Tail(messages)[i] = messages[i + 1]
  BY EmptySeq, HeadTailProperties
<1>2. CASE Tail(messages) = <<>>
  <2>1. Len(Tail(messages)) = 0
    BY <1>2, EmptySeq, Zenon
  <2> QED
    BY <1>1, <1>2, <2>1
<1>3. CASE Tail(messages) # <<>>
  <2>1. Len(Tail(messages)) \in 1 .. Len(Tail(messages))
    BY <1>1, <1>3, EmptySeq
  <2> QED
    BY <1>1, <1>3, <2>1
<1> QED
  BY <1>2, <1>3

\* What a device does with what it gets.
LEMMA StudentsKeepScreens ==
  ASSUME ClassTypes, ScreensInv, NEW o \in Pupils,
         \/ RemoveMember(o) \/ AddMember(o) \/ Receive(o) \/ ArmLock(o) \/ Disconnect(o) \/ Connect(o)
  PROVE  ScreensInv'
<1>1. /\ UNCHANGED <<pulse, joined, jobs, mirror, owed>> /\ Focus' = Focus
      /\ \A s \in Pupils : LockDue(s)' = LockDue(s) /\ mirror[s] \in BOOLEAN
  BY DEF RemoveMember, AddMember, Receive, ArmLock, Disconnect, Connect, pulseVars, sentVars, Focus,
    LockDue, ClassTypes, ClassTypeOK
<1>2. /\ excuse \in [Pupils -> SUBSET Reasons] /\ device \in [Pupils -> {"none", "teacher", "pulse"}]
      /\ wire \in [Pupils -> Seq(Messages)]
  BY DEF ClassTypes, ClassTypeOK
<1>3. NobodyEarly'
  BY <1>1 DEF ScreensInv, NobodyEarly
<1>4. CASE RemoveMember(o)
  <2>1. UNCHANGED <<arming, device, wire>> /\ roster' = roster \ {o}
    BY <1>4 DEF RemoveMember, deviceVars
  <2>2. "dropped" \in excuse'[o] /\ \A s \in Pupils : excuse[s] \subseteq excuse'[s]
    BY <1>2, <1>4 DEF RemoveMember, Blame
  <2>3. ASSUME NEW s \in Pupils PROVE ScreenInv(s)'
    <3>1. s # o => (ReleaseDue(s) => ReleaseDue(s)')
      BY <1>1, <2>1 DEF ReleaseDue
    <3> QED
      BY <1>1, <2>1, <2>2, <3>1, EndsAsBefore, ScreenKept DEF ScreensInv
  <2> QED
    BY <1>3, <2>3 DEF ScreensInv
<1>5. CASE AddMember(o)
  <2>1. UNCHANGED <<arming, device, wire, excuse>> /\ roster' = roster \cup {o}
    BY <1>5 DEF AddMember, deviceVars, sentVars
  <2>2. ASSUME NEW s \in Pupils PROVE ScreenInv(s)'
    BY <1>1, <2>1, OwingKeepsScreen DEF ScreensInv
  <2> QED
    BY <1>3, <2>2 DEF ScreensInv
<1>6. ASSUME UNCHANGED roster, \A s \in Pupils : excuse[s] \subseteq excuse'[s],
             \A s \in Pupils :
                /\ EndsLocked(s) => EndsLocked(s)' \/ "missed" \in excuse'[s]
                /\ EndsLocked(s)' => EndsLocked(s) \/ excuse'[s] \cap {"missed", "overtaken"} # {}
      PROVE  ScreensInv'
  <2>1. ASSUME NEW s \in Pupils PROVE ScreenInv(s)'
    <3>1. ReleaseDue(s)' = ReleaseDue(s)
      BY <1>1, <1>6 DEF ReleaseDue
    <3> QED
      BY <1>1, <1>6, <3>1, ScreenKept DEF ScreensInv
  <2> QED
    BY <1>3, <2>1 DEF ScreensInv
<1>7. CASE Receive(o)
  <2>1. /\ wire[o] \in Seq(Messages) /\ wire[o] # <<>> /\ UNCHANGED roster
        /\ wire' = [wire EXCEPT ![o] = Tail(wire[o])]
        /\ arming' = IF Head(wire[o]) = "pulse" THEN arming \cup {o} ELSE arming
    BY <1>2, <1>7 DEF Receive
  <2>2. /\ \A s \in Pupils : excuse[s] \subseteq excuse'[s]
        /\ Head(wire[o]) # "pulse" /\ o \in arming => "overtaken" \in excuse'[o]
    BY <1>2, <1>7 DEF Receive, Blame
  <2>3. \A s \in Pupils \ {o} : EndsLocked(s)' = EndsLocked(s)
    <3>1. \A s \in Pupils \ {o} : device'[s] = device[s] /\ wire'[s] = wire[s] /\ (s \in arming' <=> s \in arming)
      BY <1>2, <1>7, <2>1 DEF Receive
    <3> QED
      BY <3>1, EndsAsBefore
  <2>4. CASE Tail(wire[o]) # <<>>
    <3>1. wire'[o] # <<>> /\ wire'[o][Len(wire'[o])] = wire[o][Len(wire[o])]
      BY <1>2, <2>1, <2>4, LastMessage
    <3>2. EndsLocked(o)' = EndsLocked(o)
      BY <2>1, <3>1 DEF EndsLocked
    <3> QED
      BY <1>6, <2>1, <2>2, <2>3, <3>2
  <2>5. CASE Tail(wire[o]) = <<>>
    <3>1. wire'[o] = <<>> /\ wire[o][Len(wire[o])] = Head(wire[o])
      BY <1>2, <2>1, <2>5, LastMessage
    <3>2. Head(wire[o]) \in {"teacher", "pulse", "release"}
      BY <2>1 DEF Messages
    <3>3. EndsLocked(o) <=> Head(wire[o]) # "release"
      BY <2>1, <3>1 DEF EndsLocked
    <3>4. EndsLocked(o)' <=> o \in arming' \/ device'[o] # "none"
      BY <3>1 DEF EndsLocked
    <3>5. CASE Head(wire[o]) = "teacher"
      <4>1. device'[o] = "teacher"
        BY <1>2, <1>7, <3>5 DEF Receive
      <4> QED
        BY <1>6, <2>1, <2>2, <2>3, <3>3, <3>4, <3>5, <4>1
    <3>6. CASE Head(wire[o]) = "pulse"
      BY <1>6, <2>1, <2>2, <2>3, <3>3, <3>4, <3>6
    <3>7. CASE Head(wire[o]) = "release"
      <4>1. device'[o] = "none"
        BY <1>2, <1>7, <3>7 DEF Receive
      <4> QED
        BY <1>6, <2>1, <2>2, <2>3, <3>3, <3>4, <3>7, <4>1
    <3> QED
      BY <3>2, <3>5, <3>6, <3>7
  <2> QED
    BY <2>4, <2>5
<1>8. CASE ArmLock(o)
  <2>1. /\ UNCHANGED <<wire, excuse, roster>> /\ o \in arming
        /\ arming' = arming \ {o} /\ device' = [device EXCEPT ![o] = "pulse"]
    BY <1>8 DEF ArmLock, sentVars
  <2>2. \A s \in Pupils : EndsLocked(s)' = EndsLocked(s)
    BY <1>2, <2>1 DEF EndsLocked
  <2> QED
    BY <1>6, <2>1, <2>2
<1>9. CASE Disconnect(o)
  <2>1. /\ UNCHANGED <<device, roster>> /\ arming' = arming \ {o}
        /\ wire' = [wire EXCEPT ![o] = <<>>]
    BY <1>9 DEF Disconnect
  <2>2. /\ \A s \in Pupils : excuse[s] \subseteq excuse'[s]
        /\ wire[o] # <<>> \/ o \in arming => "missed" \in excuse'[o]
    BY <1>2, <1>9 DEF Disconnect, Blame
  <2>3. \A s \in Pupils : s # o \/ (wire[o] = <<>> /\ o \notin arming) => EndsLocked(s)' = EndsLocked(s)
    BY <1>2, <2>1 DEF EndsLocked
  <2> QED
    BY <1>6, <2>1, <2>2, <2>3
<1>10. CASE Connect(o)
  <2>1. UNCHANGED <<arming, device, wire, excuse, roster>>
    BY <1>10 DEF Connect, deviceVars, sentVars
  <2> QED
    BY <1>6, <2>1, EndsAsBefore
<1> QED
  BY <1>4, <1>5, <1>7, <1>8, <1>9, <1>10

\* A handler that stops is everybody's excuse.
LEMMA JobStopsKeepsScreens == ASSUME ClassTypes, ScreensInv, NEW j \in Jobs, JobStops(j) PROVE ScreensInv'
<1>1. UNCHANGED <<pulse, joined, roster, arming, device, wire, mirror, owed>> /\ Focus' = Focus
  BY DEF JobStops, pulseVars, deviceVars, Focus
<1>2. jobs'[j] = NoJob /\ NoJob.step = "idle" /\ \A i \in Jobs \ {j} : jobs'[i] = jobs[i]
  BY JobsDone, DoType DEF JobStops
<1>3. excuse \in [Pupils -> SUBSET Reasons] /\ mirror \in [Pupils -> BOOLEAN]
  BY DEF ClassTypes, ClassTypeOK
<1>4. /\ \A s \in Pupils : excuse[s] \subseteq excuse'[s]
      /\ jobs[j].step \notin {"start", "autoStart"} => \A s \in Pupils : "stopped" \in excuse'[s]
  BY <1>3 DEF JobStops, Blame
<1>5. ASSUME NEW s \in Pupils PROVE ScreenInv(s)'
  <2>1. jobs[j].step \in {"start", "autoStart"} => (ReleaseDue(s) => ReleaseDue(s)') /\ (LockDue(s) => LockDue(s)')
    BY <1>1, <1>2, DuesKept DEF Due
  <2>2. ScreenInv(s) /\ mirror[s] \in BOOLEAN /\ EndsLocked(s)' = EndsLocked(s)
    BY <1>1, <1>3, EndsAsBefore DEF ScreensInv
  <2> QED
    BY <1>1, <1>4, <2>1, <2>2, ScreenKept
<1>6. NobodyEarly'
  BY <1>1, <1>2 DEF ScreensInv, NobodyEarly
<1> QED
  BY <1>5, <1>6 DEF ScreensInv

LEMMA ScreensInitEstablishes == ClassInit => ScreensInv
<1> SUFFICES ASSUME ClassInit PROVE ScreensInv
  OBVIOUS
<1>1. NobodyEarly
  BY DEF ClassInit, NobodyEarly, NoJob
<1>2. ASSUME NEW s \in Pupils PROVE ScreenInv(s)
  BY <1>2 DEF ClassInit, ScreenInv, ReleaseComes, LockComes, MirrorFollows, EndsLocked
<1> QED
  BY <1>1, <1>2 DEF ScreensInv

LEMMA ScreensInvKept == ClassInv /\ ScreensInv /\ [ClassNext]_classVars => ScreensInv'
<1> SUFFICES ASSUME ClassTypes, ScreensInv, [ClassNext]_classVars PROVE ScreensInv'
  BY DEF ClassInv
<1>1. CASE UNCHANGED classVars
  <2>1. UNCHANGED <<pulse, joined, roster, jobs, arming, device, wire, mirror, excuse, owed>> /\ Focus' = Focus
    BY <1>1 DEF classVars, pulseVars, deviceVars, sentVars, Focus
  <2>2. \A s \in Pupils : ScreenInv(s)'
    BY <2>1, OwingKeepsScreen DEF ScreensInv
  <2> QED
    BY <2>1, <2>2 DEF ScreensInv, NobodyEarly
<1>2. CASE LessonSteps
  BY <1>2, LessonsKeepScreens, SendingKeepsScreens DEF LessonSteps
<1>3. CASE PulseSteps
  BY <1>3, PulseKeepsScreens, SendingKeepsScreens DEF PulseSteps
<1>4. CASE StudentSteps
  BY <1>4, StudentsKeepScreens, SendingKeepsScreens DEF StudentSteps
<1>5. CASE \E j \in Jobs : JobStops(j)
  BY <1>5, JobStopsKeepsScreens
<1> QED
  BY <1>1, <1>2, <1>3, <1>4, <1>5 DEF ClassNext

-----------------------------------------------------------------------------
\* The inductive invariant holds in every state of every run.
THEOREM ClassInvariance == ClassSpec => []ClassInv
BY ClassInitEstablishes, ClassInvKept, PTL DEF ClassSpec

\* The tables, the jobs and the devices keep their shape, and no more messages are
\* under way to a device than the bound allows.
THEOREM ClassTypeCorrect == ClassSpec => []ClassTypeOK
<1>1. ClassInv => ClassTypeOK
  BY DEF ClassInv, ClassTypes
<1> QED
  BY <1>1, ClassInvariance, PTL

\* A class has one session at a time (POST /classes/:id/lessons, autoStartLessons)
\* unless two starts overlapped.
THEOREM ClassHasOneSession == ClassSpec => []OneSession
<1>1. ClassInv => OneSession
  <2> SUFFICES ASSUME ClassInv, ~raced PROVE Cardinality(Open) <= 1
    BY DEF OneSession
  <2>1. \A k, l \in Open : k = l
    BY DEF ClassInv, OneStart
  <2>2. CASE Open = {}
    BY <2>2, FS_EmptySet
  <2>3. CASE Open # {}
    <3>1. PICK l : Open = {l}
      BY <2>1, <2>3
    <3>2. Cardinality(Open) = 1
      BY <3>1, FS_Singleton
    <3> QED
      BY <3>2
  <2> QED
    BY <2>2, <2>3
<1> QED
  BY <1>1, ClassInvariance, PTL
\* The last message to a student settles the screen, and a handler that owes one is in
\* flight or has stopped: inductive with the types alone.
THEOREM ScreensInvariance == ClassSpec => [](ClassInv /\ ScreensInv)
BY ClassInitEstablishes, ScreensInitEstablishes, ClassInvKept, ScreensInvKept, PTL DEF ClassSpec

\* Nothing is due any more to a student who is settled.
LEMMA SettledIsDone ==
  ASSUME NEW s \in Pupils, Settled(s)
  PROVE  ~ReleaseDue(s) /\ ~LockDue(s) /\ (EndsLocked(s) => device[s] # "none")
         /\ (device[s] # "none" => EndsLocked(s))
BY DEF Settled, ReleaseDue, LockDue, EndsLocked

\* "Don't leave a student locked out of their own browser" (scheduler.js, classpulse.js):
\* who was to be released is free, but for five excuses, however handlers, messages and
\* devices interleave.
THEOREM NobodyStaysLocked == ClassSpec => []NoForgottenLock
<1>1. ScreensInv => NoForgottenLock
  BY SettledIsDone DEF ScreensInv, ScreenInv, ReleaseComes, NoForgottenLock
<1> QED
  BY <1>1, ScreensInvariance, PTL

\* The focus lock reaches whoever has joined (POST /classpulse/join, .../lock), early
\* or late, but for four excuses.
THEOREM FocusLockReachesAll == ClassSpec => []FocusLockReaches
<1>1. ClassInv /\ ScreensInv => FocusLockReaches
  <2>1. ClassInv => joined \subseteq Pupils
    BY DEF ClassInv, ClassTypes, ClassTypeOK
  <2> QED
    BY <2>1, SettledIsDone DEF ScreensInv, ScreenInv, LockComes, FocusLockReaches
<1> QED
  BY <1>1, ScreensInvariance, PTL

\* The class page shows what the device has (sockets/index.js writes both), but for a
\* message missed or overtaken, or a write that failed.
THEOREM MirrorIsTruthful == ClassSpec => []MirrorTruthful
<1>1. ScreensInv => MirrorTruthful
  <2> SUFFICES ASSUME ScreensInv, NEW s \in Pupils, Settled(s),
                      excuse[s] \cap {"missed", "overtaken", "unwritten"} = {}
               PROVE  mirror[s] = (device[s] # "none")
    BY DEF MirrorTruthful
  <2>1. mirror[s] = EndsLocked(s)
    BY DEF ScreensInv, ScreenInv, MirrorFollows
  <2>2. EndsLocked(s) = (device[s] # "none")
    BY DEF Settled, EndsLocked
  <2> QED
    BY <2>1, <2>2
<1> QED
  BY <1>1, ScreensInvariance, PTL

-----------------------------------------------------------------------------
(* The composition.                                                        *)

\* A step of the composition is one of each part, or leaves the part alone.
LEMMA TeachingSteps ==
  TeachingSpec => ClassSpec /\ GrantsSpec
<1>1. TeachingInit => ClassInit /\ GrantsInit
  BY DEF TeachingInit
<1>2. ASSUME [/\ \/ /\ UNCHANGED grantVars
                    /\ \/ part = "lessons" /\ (LessonSteps \/ \E s \in Pupils : Receive(s))
                       \/ part = "screens" /\ ClassNext /\ OneTeachersLesson
                 \/ /\ UNCHANGED classVars
                    /\ \/ part = "sites" /\ SiteSteps
                       \/ part = "codes" /\ CodeSteps
              /\ UNCHANGED part]_teachingVars
      PROVE  [ClassNext]_classVars /\ [GrantsNext]_grantVars
  BY <1>2 DEF teachingVars, ClassNext, StudentSteps, GrantsNext
<1> QED
  BY <1>1, <1>2, PTL DEF TeachingSpec, ClassSpec, GrantsSpec

\* What the instances of the runs check of all parts at once.
THEOREM TeachingTypeCorrect == TeachingSpec => []TeachingTypeOK
BY TeachingSteps, ClassTypeCorrect, GrantsTypeCorrect, PTL DEF TeachingTypeOK
===============================================================================
