------------------------ MODULE DhanComposites_proofs ------------------------
(***************************************************************************)
(* For any super and forever orders, and any calls on them: how a call     *)
(* ended agrees with what Dhan did, legs end as they were asked to, and a  *)
(* book that is reported tells of every leg.                               *)
(***************************************************************************)
EXTENDS DhanComposites, TLAPS

(* What each answer makes of the call that reads it.                       *)
LEMMA SilentVerdicts ==
  /\ Verdict(HttpError) = "returned" /\ Verdict(Text) = "returned"
  /\ Answer(TRUE, HttpError).outcome = "ambiguous"
  /\ Answer(TRUE, Text).outcome = "ambiguous"
BY DEF Verdict, Answer, HttpError, Text, Raised

AckFields == [orderId |-> "id", orderStatus |-> "CANCELLED"]

(* An acknowledgement is a payload.                                        *)
LEMMA AckVerdict == Verdict(Ack) = "returned" /\ Answer(TRUE, Ack).outcome = "payload"
<1>1. Ack.kind = "json" /\ Ack.body = Object(AckFields)
  BY DEF Ack, Json, AckFields
<1>2. Object(AckFields).shape = "object" /\ Object(AckFields).fields = AckFields
  BY DEF Object
<1>3. DOMAIN AckFields = {"orderId", "orderStatus"}
  BY DEF AckFields
<1>4. FailureInObject(AckFields) = {}
  BY <1>3 DEF FailureInObject, ErrorFields
<1>5. Classify(Object(AckFields)).outcome = "payload"
  BY <1>2, <1>4 DEF Classify, FailureIn, Payload
<1>6. QED  BY <1>1, <1>5 DEF Answer, Verdict

RefusalFields == [errorMessage |-> "words", errorCode |-> "DH-906", errorType |-> "Order_Error"]
IPFields == [errorMessage |-> "ip", errorCode |-> "DH-905", errorType |-> "Input_Exception"]

(* A refusal, of the order or of the address, is an error of its own.      *)
LEMMA RefusalVerdicts ==
  ASSUME NEW r \in {Refusal, IPRefusal}
  PROVE  Verdict(r) = "raised" /\ Answer(TRUE, r).outcome # "ambiguous"
<1> DEFINE fields == r.body.fields
<1>1. r.kind = "json" /\ r.body = Object(fields) /\ fields \in {RefusalFields, IPFields}
  BY DEF Refusal, IPRefusal, Json, Object, RefusalFields, IPFields
<1>2. r.body.shape = "object"
  BY <1>1 DEF Object
<1>3. DOMAIN fields = {"errorMessage", "errorCode", "errorType"}
  BY <1>1 DEF RefusalFields, IPFields
<1>4. PICK failure : FailureInObject(fields) = {failure}
  BY <1>3 DEF FailureInObject, ErrorFields
<1>5. Classify(r.body) = Raised(Raise(CHOOSE f \in {failure} : TRUE))
  BY <1>2, <1>4 DEF Classify, FailureIn
<1>6. Answer(TRUE, r).outcome \in {"rateLimited", "ipNotWhitelisted", "apiError"}
  BY <1>1, <1>5 DEF Answer, Raised, Raise
<1>7. QED  BY <1>6 DEF Verdict

(* A JSON scalar is read as a definitive failure.                          *)
LEMMA ScalarVerdict ==
  Verdict(Json(Scalar)) = "raised" /\ Answer(TRUE, Json(Scalar)).outcome # "ambiguous"
BY DEF Verdict, Answer, Json, Classify, Scalar, Raised

(* The garbled answers there can be.                                       *)
LEMMA GarbledValues ==
  ASSUME NEW r \in Garbled
  PROVE  r = Text \/ (r = Json(Scalar) /\ "scalar" \in GatewayFaults)
BY DEF Garbled

(* No two answers are mistaken for one another.                            *)
LEMMA AnswersDiffer ==
  /\ Refusal # IPRefusal /\ Ack \notin {Refusal, IPRefusal}
  /\ HttpError \notin {Ack, Refusal, IPRefusal} \cup Garbled
  /\ {Ack, Refusal, IPRefusal} \cap Garbled = {}
<1>1. Ack.kind = "json" /\ Refusal.kind = "json" /\ IPRefusal.kind = "json"
      /\ Text.kind = "text" /\ HttpError.kind = "httpError" /\ Json(Scalar).kind = "json"
  BY DEF Ack, Refusal, IPRefusal, Json, Text, HttpError
<1>2. Refusal.body.fields.errorMessage = "words" /\ IPRefusal.body.fields.errorMessage = "ip"
  BY DEF Refusal, IPRefusal, Json, Object
<1>3. DOMAIN Ack.body.fields = {"orderId", "orderStatus"}
      /\ DOMAIN Refusal.body.fields = {"errorMessage", "errorCode", "errorType"}
      /\ DOMAIN IPRefusal.body.fields = {"errorMessage", "errorCode", "errorType"}
  BY DEF Ack, Refusal, IPRefusal, Json, Object
<1>4. Ack # Refusal /\ Ack # IPRefusal
  BY <1>3
<1>5. Json(Scalar) \notin {Ack, Refusal, IPRefusal}
  <2>1. /\ Ack.body.shape = "object" /\ Refusal.body.shape = "object"
        /\ IPRefusal.body.shape = "object" /\ Json(Scalar).body.shape = "scalar"
    BY DEF Ack, Refusal, IPRefusal, Json, Object, Scalar
  <2>2. QED  BY <2>1
<1>6. QED  BY <1>1, <1>2, <1>4, <1>5, GarbledValues

-------------------------------------------------------------------------------
(* A modify of an exit names no term of the entry.                         *)
LEMMA ExitPayload ==
  ASSUME NEW m \in Modifies, NEW l \in Exits
  PROVE  "entry" \notin DOMAIN ModifyPayload(l, Named[m])
BY CompositesAssumption DEF ModifyPayload, Exits, Legs

(* Where each call stands, in its request, its answer and what Dhan did.   *)
RequestInv ==
  /\ \A c \in requests : c \in Calls /\ c \notin applied
  /\ \A c \in Calls : told[c] = "nothing" => c \notin requests \cup applied
  /\ \A r \in replies :
       /\ r.by \notin requests
       /\ r.says = Ack => r.by \in applied
       /\ r.says \in {Refusal, IPRefusal} => r.by \notin applied
       /\ r.says \in {Ack, Refusal, IPRefusal} \cup Garbled

\* How a call ended, when no JSON scalar stands in for Dhan's answer.
EndingInv == "scalar" \notin GatewayFaults => CallsEndTruly

CallInv == TypeOK /\ RequestInv /\ EndingInv

-------------------------------------------------------------------------------
(* What is reported of a book of super orders.                             *)
LEMMA SuperReportsFound ==
  ASSUME NEW book, ~SuperReports(book).raised
  PROVE  /\ \A r : r \in SuperReports(book).found <=>
              \E row \in Nameable(book) : \E l \in row.legs : r = LegReport(row, l)
         /\ \A row \in Nameable(book) : \A l \in row.legs : LegStatus(row, l) \in DOMAIN OrderStatus
BY DEF SuperReports, Found, RaisedIt, LegReports, Unreadable

(* The words a report can use.                                             *)
LEMMA StatusWords ==
  /\ DOMAIN OrderStatus = {"PENDING", "CONFIRM", "TRADED", "CANCELLED"}
  /\ \A s \in DOMAIN OrderStatus : OrderStatus[s] \in ReportedStates
BY DEF OrderStatus, ReportedStates

(* The rows Dhan can give of a super order.                                *)
LEMMA SuperRowsType ==
  ASSUME NEW o \in Supers, NEW row \in SuperRows(o)
  PROVE  row.order = o /\ row.legs \subseteq Legs /\ row.filled \in BOOLEAN
<1>1. PICK word \in EntryStatuses(o), legs \in {Legs, {"ENTRY_LEG"}},
           worded \in {Legs, {"ENTRY_LEG"}} :
        row = [order |-> o, legs |-> legs, filled |-> leg[o]["ENTRY_LEG"] = "TRADED",
               status |-> [l \in worded \cap legs |->
                             IF l = "ENTRY_LEG" THEN word ELSE leg[o][l]]]
  BY DEF SuperRows
<1>2. row.order = o /\ row.legs = legs /\ row.filled = (leg[o]["ENTRY_LEG"] = "TRADED")
  BY <1>1, Zenon
<1>3. legs \subseteq Legs
  BY DEF Legs
<1>4. (leg[o]["ENTRY_LEG"] = "TRADED") \in BOOLEAN
  OBVIOUS
<1>5. QED  BY <1>2, <1>3, <1>4, Zenon

(* Reading the book of super orders gives well-formed reports.             *)
LEMMA SuperReportsType ==
  ASSUME TypeOK, GenerateSuperOrderReports
  PROVE  TypeOK'
<1>1. PICK row \in [Supers -> UNION {SuperRows(o) : o \in Supers}] :
        /\ \A o \in Supers : row[o] \in SuperRows(o)
        /\ reports' = SuperReports({row[o] : o \in Supers})
        /\ UNCHANGED <<told, requests, replies, venue, unsure>>
  BY DEF GenerateSuperOrderReports
<1> DEFINE book == {row[o] : o \in Supers}
<1>2. reports'.raised \in BOOLEAN /\ (reports'.raised => reports'.found = {})
  BY <1>1 DEF SuperReports, Found, RaisedIt
<1>3. ASSUME NEW r \in reports'.found
      PROVE  /\ r.venueOrderId[1] \in Supers \cup Forevers
             /\ r.status \in ReportedStates /\ r.filled \in BOOLEAN
  <2>1. ~SuperReports(book).raised
    BY <1>1, <1>2, <1>3
  <2>2. PICK b \in Nameable(book) : \E l \in b.legs : r = LegReport(b, l)
    <3>1. r \in SuperReports(book).found
      BY <1>1, <1>3
    <3> HIDE DEF book
    <3>2. \A x : x \in SuperReports(book).found =>
             \E b \in Nameable(book) : \E l \in b.legs : x = LegReport(b, l)
      BY <2>1, SuperReportsFound
    <3>3. QED  BY <3>1, <3>2
  <2>3. PICK l \in b.legs : r = LegReport(b, l)
    BY <2>2
  <2>4. b.order \in Supers /\ b.filled \in BOOLEAN
    BY <1>1, SuperRowsType DEF Nameable
  <2>5. LegStatus(b, l) \in DOMAIN OrderStatus
    BY <2>1, SuperReportsFound
  <2>6. VenueOrderId(b.order, l)[1] = b.order
    BY DEF VenueOrderId
  <2>7. QED  BY <2>3, <2>4, <2>5, <2>6, StatusWords DEF LegReport
<1>4. QED  BY <1>1, <1>2, <1>3 DEF TypeOK, venue

(* So does reading the book of forever orders.                             *)
LEMMA ForeverReportsType ==
  ASSUME TypeOK, GenerateForeverOrderReports
  PROVE  TypeOK'
<1>1. PICK word \in [Forevers -> UNION {ForeverStatuses(o) : o \in Forevers}] :
        /\ reports' = ForeverReports({[order |-> o, status |-> word[o]] : o \in Forevers})
        /\ UNCHANGED <<told, requests, replies, venue, unsure>>
  BY DEF GenerateForeverOrderReports
<1>2. reports'.raised \in BOOLEAN /\ (reports'.raised => reports'.found = {})
  BY <1>1 DEF ForeverReports, Found, RaisedIt
<1>3. ASSUME NEW r \in reports'.found
      PROVE  /\ r.venueOrderId[1] \in Supers \cup Forevers
             /\ r.status \in ReportedStates /\ r.filled \in BOOLEAN
  <2>1. PICK o \in Forevers : /\ word[o] \in DOMAIN OrderStatus
                              /\ r = ForeverReport([order |-> o, status |-> word[o]])
    BY <1>1, <1>2, <1>3 DEF ForeverReports, Found, RaisedIt, Nameable
  <2>2. r.venueOrderId[1] = o /\ r.status = OrderStatus[word[o]] /\ r.filled = FALSE
    BY <2>1 DEF ForeverReport
  <2>3. QED  BY <2>1, <2>2, StatusWords
<1>4. QED  BY <1>1, <1>2, <1>3 DEF TypeOK, venue

-------------------------------------------------------------------------------
(* A call that is made sends its request, or raises without one.           *)
LEMMA SendKeeps == ASSUME CallInv, NEW c \in Calls, Send(c) PROVE CallInv'
<1>1. /\ told[c] = "nothing"
      /\ told' = [told EXCEPT ![c] = IF Known(c) THEN "waiting" ELSE "raised"]
      /\ requests' = IF Known(c) THEN requests \cup {c} ELSE requests
      /\ UNCHANGED <<replies, leg, resting, applied, unsure, reports, rows>>
  BY DEF Send, venue
<1>2. c \notin requests \cup applied
  BY <1>1 DEF CallInv, RequestInv
<1>3. \A r \in replies : r.by # c
  BY <1>1 DEF CallInv, TypeOK
<1>4. TypeOK'
  BY <1>1 DEF CallInv, TypeOK
<1>5. RequestInv'
  BY <1>1, <1>2, <1>3 DEF CallInv, TypeOK, RequestInv
<1>6. EndingInv'
  BY <1>1, <1>2 DEF CallInv, TypeOK, EndingInv, CallsEndTruly
<1>7. QED  BY <1>4, <1>5, <1>6 DEF CallInv

(* A call that ends says what its answer allows it to say.                 *)
LEMMA EndedKeeps ==
  ASSUME CallInv, NEW c \in Calls, NEW r \in Responses, Ended(c, r) PROVE CallInv'
<1>1. /\ told[c] = "waiting"
      /\ r = HttpError \/ [by |-> c, says |-> r] \in replies
      /\ told' = [told EXCEPT ![c] = Verdict(r)]
      /\ replies' = {reply \in replies : reply.by # c}
      /\ unsure' = IF Answer(TRUE, r).outcome = "ambiguous" THEN unsure \cup {c} ELSE unsure
      /\ UNCHANGED <<requests, leg, resting, applied, reports, rows>>
  BY DEF Ended, venue
<1>2. Verdict(r) \in {"returned", "raised"}
  BY DEF Verdict
<1>3. r = Ack => c \in applied
  <2>1. r = Ack => [by |-> c, says |-> Ack] \in replies
    BY <1>1, AnswersDiffer
  <2>2. QED  BY <2>1 DEF CallInv, RequestInv
<1>4. r \in {Refusal, IPRefusal} => c \notin applied \cup requests
  <2>1. r \in {Refusal, IPRefusal} => [by |-> c, says |-> r] \in replies
    BY <1>1, AnswersDiffer
  <2>2. QED  BY <2>1 DEF CallInv, RequestInv
<1>5. /\ Verdict(r) = "raised" /\ "scalar" \notin GatewayFaults
           => c \notin applied \cup requests
      /\ Verdict(r) = "returned" /\ c \notin unsure' => c \in applied
  <2>1. CASE r = Ack
    BY <1>3, <2>1, AckVerdict
  <2>2. CASE r \in {Refusal, IPRefusal}
    BY <1>4, <2>2, RefusalVerdicts
  <2>3. CASE r \in {HttpError} \cup Garbled
    BY <1>1, <2>3, SilentVerdicts, ScalarVerdict, GarbledValues
  <2>4. QED  BY <2>1, <2>2, <2>3 DEF Responses
<1>6. TypeOK'
  BY <1>1, <1>2 DEF CallInv, TypeOK
<1>7. RequestInv'
  BY <1>1, <1>2 DEF CallInv, TypeOK, RequestInv
<1>8. EndingInv'
  <2>1. \A d \in Calls : d # c => told'[d] = told[d]
    BY <1>1 DEF CallInv, TypeOK
  <2>2. told'[c] = Verdict(r)
    BY <1>1 DEF CallInv, TypeOK
  <2>3. QED  BY <1>1, <1>5, <2>1, <2>2 DEF CallInv, EndingInv, CallsEndTruly
<1>9. QED  BY <1>6, <1>7, <1>8 DEF CallInv

(* What an answer sent back adds to those on their way.                    *)
LEMMA ReplyAdds ==
  ASSUME NEW c, NEW r
  PROVE  \A reply \in Reply(c, r) : \/ reply \in replies
                                    \/ /\ told[c] = "waiting"
                                       /\ reply.by = c /\ reply.says = r
BY DEF Reply

(* Dhan acts upon a request once.                                          *)
LEMMA DhanActsKeeps ==
  ASSUME CallInv, NEW c \in Calls, NEW r \in Responses, DhanActs(c, r) PROVE CallInv'
<1>1. /\ c \in requests /\ r \in {Ack} \cup Garbled /\ Act(c)
      /\ applied' = applied \cup {c} /\ requests' = requests \ {c}
      /\ replies' = Reply(c, r)
      /\ UNCHANGED <<told, unsure, reports, rows>>
  BY DEF DhanActs
<1>2. told[c] # "nothing" /\ ("scalar" \notin GatewayFaults => told[c] # "raised")
  BY <1>1 DEF CallInv, RequestInv, EndingInv, CallsEndTruly
<1>3. \A reply \in replies : reply.by # c
  BY <1>1 DEF CallInv, RequestInv
<1>4. /\ leg' \in [Supers -> [Legs -> LegStates]]
      /\ resting' \in [Forevers -> {"CONFIRM", "TRADED", "CANCELLED"}]
  <2>1. CASE Of[c] \in Forevers
    BY <1>1, <2>1 DEF Act, CallInv, TypeOK
  <2>2. CASE Of[c] \notin Forevers /\ c \in Cancels
    <3>1. Of[c] \in Supers
      BY <2>2, CompositesAssumption
    <3>2. UNCHANGED resting
          /\ leg' = [leg EXCEPT ![Of[c]] =
                      [l \in Legs |-> IF l \in CancelPath(c) /\ leg[Of[c]][l] = "PENDING"
                                      THEN "CANCELLED" ELSE leg[Of[c]][l]]]
      BY <1>1, <2>2 DEF Act, CallInv, TypeOK
    <3>3. leg[Of[c]] \in [Legs -> LegStates]
      BY <3>1 DEF CallInv, TypeOK
    <3>4. [l \in Legs |-> IF l \in CancelPath(c) /\ leg[Of[c]][l] = "PENDING"
                          THEN "CANCELLED" ELSE leg[Of[c]][l]] \in [Legs -> LegStates]
      BY <3>3 DEF LegStates
    <3>5. QED  BY <3>1, <3>2, <3>4 DEF CallInv, TypeOK
  <2>3. CASE Of[c] \notin Forevers /\ c \notin Cancels
    BY <1>1, <2>3 DEF Act, CallInv, TypeOK
  <2>4. QED  BY <2>1, <2>2, <2>3
<1>5. TypeOK'
  BY <1>1, <1>4, ReplyAdds DEF CallInv, TypeOK
<1>6. RequestInv'
  BY <1>1, <1>2, <1>3, ReplyAdds, AnswersDiffer DEF CallInv, RequestInv
<1>7. EndingInv'
  BY <1>1, <1>2 DEF CallInv, EndingInv, CallsEndTruly
<1>8. QED  BY <1>5, <1>6, <1>7 DEF CallInv

(* A request that is refused, or lost, is gone.                            *)
LEMMA RefusalKeeps ==
  ASSUME CallInv, NEW c \in Calls, GatewayRefuses(c) \/ \E r : DhanRefuses(c, r)
  PROVE  CallInv'
<1>1. /\ c \in requests /\ requests' = requests \ {c}
      /\ replies' = replies \/ \E r \in {Refusal, IPRefusal} \cup Garbled : replies' = Reply(c, r)
      /\ UNCHANGED <<told, leg, resting, applied, unsure, reports, rows>>
  BY DEF DhanRefuses, GatewayRefuses, venue
<1>2. c \notin applied /\ \A reply \in replies : reply.by # c
  BY <1>1 DEF CallInv, RequestInv
<1>3. \A reply \in replies' : \/ reply \in replies
                              \/ /\ told[c] = "waiting" /\ reply.by = c
                                 /\ reply.says \in {Refusal, IPRefusal} \cup Garbled
  BY <1>1, ReplyAdds
<1>4. TypeOK'
  BY <1>1, <1>3 DEF CallInv, TypeOK, Responses
<1>5. RequestInv'
  BY <1>1, <1>2, <1>3, AnswersDiffer DEF CallInv, RequestInv
<1>6. EndingInv'
  BY <1>1 DEF CallInv, EndingInv, CallsEndTruly
<1>7. QED  BY <1>4, <1>5, <1>6 DEF CallInv

(* Fills and the reading of books are no part of any call.                 *)
LEMMA OthersKeep ==
  ASSUME CallInv, TypeOK', UNCHANGED <<told, requests, replies, applied, unsure>>
  PROVE  CallInv'
BY DEF CallInv, RequestInv, EndingInv, CallsEndTruly

(* A fill leaves every leg in a state there is.                            *)
LEMMA FillsKeep ==
  ASSUME CallInv, NEW o \in Supers, NEW l \in Legs, Fills(o, l) PROVE CallInv'
<1>1. /\ UNCHANGED <<told, requests, replies, resting, applied, unsure, reports, rows>>
      /\ leg' = [leg EXCEPT ![o] =
                  [k \in Legs |-> IF k = l THEN "TRADED"
                                  ELSE IF l \in Exits /\ leg[o][k] = "PENDING"
                                       THEN "CANCELLED" ELSE leg[o][k]]]
  BY DEF Fills, CallInv, TypeOK
<1>2. leg[o] \in [Legs -> LegStates]
  BY DEF CallInv, TypeOK
<1>3. [k \in Legs |-> IF k = l THEN "TRADED"
                      ELSE IF l \in Exits /\ leg[o][k] = "PENDING"
                           THEN "CANCELLED" ELSE leg[o][k]] \in [Legs -> LegStates]
  BY <1>2 DEF LegStates
<1>4. TypeOK'
  BY <1>1, <1>3 DEF CallInv, TypeOK
<1>5. QED  BY <1>1, <1>4, OthersKeep

(* Every step keeps the invariant.                                         *)
LEMMA NextKeeps == CallInv /\ [Next]_vars => CallInv'
<1> SUFFICES ASSUME CallInv, [Next]_vars PROVE CallInv'
  OBVIOUS
<1>1. ASSUME NEW c \in Calls,
             CancelSuperOrderLeg(c) \/ ModifySuperOrderLeg(c) \/ CancelForeverOrder(c)
      PROVE  CallInv'
  BY <1>1, SendKeeps DEF CancelSuperOrderLeg, ModifySuperOrderLeg, CancelForeverOrder
<1>2. ASSUME NEW c \in Calls, NEW r \in Responses,
             CancelLegEnds(c, r) \/ ModifyLegEnds(c, r) \/ CancelForeverEnds(c, r)
      PROVE  CallInv'
  BY <1>2, EndedKeeps DEF CancelLegEnds, ModifyLegEnds, CancelForeverEnds
<1>3. ASSUME NEW c \in Calls, NEW r \in Responses, DhanActs(c, r) PROVE CallInv'
  BY <1>3, DhanActsKeeps
<1>4. ASSUME NEW c \in Calls, GatewayRefuses(c) \/ \E r \in Responses : DhanRefuses(c, r)
      PROVE  CallInv'
  BY <1>4, RefusalKeeps
<1>5. ASSUME NEW o \in Supers, NEW l \in Legs, Fills(o, l) PROVE CallInv'
  BY <1>5, FillsKeep
<1>6. ASSUME NEW o \in Forevers, Triggers(o) PROVE CallInv'
  <2>1. TypeOK'
    BY <1>6 DEF Triggers, CallInv, TypeOK
  <2>2. QED  BY <1>6, <2>1, OthersKeep DEF Triggers
<1>7. CASE GenerateSuperOrderReports
  <2>1. UNCHANGED <<told, requests, replies, applied, unsure>>
    BY <1>7 DEF GenerateSuperOrderReports, venue
  <2>2. QED  BY <1>7, <2>1, OthersKeep, SuperReportsType DEF CallInv
<1>8. CASE GenerateForeverOrderReports
  <2>1. UNCHANGED <<told, requests, replies, applied, unsure>>
    BY <1>8 DEF GenerateForeverOrderReports, venue
  <2>2. QED  BY <1>8, <2>1, OthersKeep, ForeverReportsType DEF CallInv
<1>9. CASE UNCHANGED vars
  BY <1>9 DEF vars, CallInv, TypeOK, RequestInv, EndingInv, CallsEndTruly
<1>10. QED
  BY <1>1, <1>2, <1>3, <1>4, <1>5, <1>6, <1>7, <1>8, <1>9 DEF Next

-------------------------------------------------------------------------------
(* The invariant of the calls: a request is acted upon once, and an answer *)
(* is about what was done (execution.py:765-800, 893-901).                 *)
THEOREM CallsInvariant == Spec => []CallInv
<1>1. Init => CallInv
  BY CompositesAssumption DEF Init, CallInv, TypeOK, RequestInv, EndingInv, CallsEndTruly,
     LegStates, Found
<1>2. QED  BY <1>1, NextKeeps, PTL DEF Spec

(* The types of the calls, the legs and the reports.                       *)
THEOREM TypeCorrect == Spec => []TypeOK
<1>1. QED  BY CallsInvariant, PTL DEF CallInv

(* When no JSON scalar stands in for Dhan's answer: a call that raised did *)
(* nothing and never will; one that returned did what it was asked, unless *)
(* its answer was lost.                                                    *)
THEOREM EveryCallEndsTruly ==
  ASSUME "scalar" \notin GatewayFaults
  PROVE  Spec => []CallsEndTruly
<1>1. CallInv => CallsEndTruly
  BY DEF CallInv, EndingInv
<1>2. QED  BY <1>1, CallsInvariant, PTL

-------------------------------------------------------------------------------
(* No leg ends cancelled but by a call that named it or the entry, or by   *)
(* the other exit (super_orders.py:63-68).                                 *)
THEOREM LegsEndAsAsked == Spec => []CancelledAsAsked
<1>1. Init => CancelledAsAsked
  BY DEF Init, CancelledAsAsked
<1>2. TypeOK /\ CancelledAsAsked /\ [Next]_vars => CancelledAsAsked'
  <2> SUFFICES ASSUME TypeOK, CancelledAsAsked, [Next]_vars PROVE CancelledAsAsked'
    OBVIOUS
  <2>1. ASSUME NEW c \in Calls, NEW r \in Responses, DhanActs(c, r)
        PROVE  CancelledAsAsked'
    <3>1. applied' = applied \cup {c} /\ Act(c)
      BY <2>1 DEF DhanActs
    <3>2. CASE Of[c] \in Forevers \/ c \notin Cancels
      <4>1. leg' = leg
        BY <3>1, <3>2 DEF Act
      <4>2. QED  BY <3>1, <4>1 DEF CancelledAsAsked
    <3>3. CASE Of[c] \notin Forevers /\ c \in Cancels
      <4>1. Of[c] \in Supers
        BY <3>3, CompositesAssumption
      <4>2. /\ \A o \in Supers : o # Of[c] => leg'[o] = leg[o]
            /\ \A l \in Legs : leg'[Of[c]][l] =
                 IF l \in CancelPath(c) /\ leg[Of[c]][l] = "PENDING"
                 THEN "CANCELLED" ELSE leg[Of[c]][l]
        BY <3>1, <3>3, <4>1 DEF Act, TypeOK
      <4>3. ASSUME NEW o \in Supers, NEW l \in Legs, leg[o][l] = "TRADED"
            PROVE  leg'[o][l] = "TRADED"
        BY <4>2, <4>3
      <4>4. ASSUME NEW o \in Supers, NEW l \in Legs, leg'[o][l] = "CANCELLED"
            PROVE  leg[o][l] = "CANCELLED" \/ (o = Of[c] /\ LegOf[c] \in {l, "ENTRY_LEG"})
        BY <4>2, <4>4 DEF CancelPath
      <4>5. ASSUME NEW o \in Supers, NEW l \in Legs, leg'[o][l] = "CANCELLED"
            PROVE  \/ \E d \in Cancels \cap applied' : Of[d] = o /\ LegOf[d] \in {l, "ENTRY_LEG"}
                   \/ l \in Exits /\ \E k \in Exits \ {l} : leg'[o][k] = "TRADED"
        <5>1. CASE leg[o][l] = "CANCELLED"
          BY <3>1, <4>3, <5>1 DEF CancelledAsAsked, Exits
        <5>2. CASE o = Of[c] /\ LegOf[c] \in {l, "ENTRY_LEG"}
          BY <3>1, <3>3, <5>2
        <5>3. QED  BY <4>4, <4>5, <5>1, <5>2
      <4>6. QED  BY <4>5 DEF CancelledAsAsked
    <3>4. QED  BY <3>2, <3>3
  <2>2. ASSUME NEW o \in Supers, NEW l \in Legs, Fills(o, l) PROVE CancelledAsAsked'
    <3>1. /\ applied' = applied /\ (l \in Exits => leg[o]["ENTRY_LEG"] = "TRADED")
          /\ \A p \in Supers : p # o => leg'[p] = leg[p]
          /\ \A k \in Legs : leg'[o][k] =
               IF k = l THEN "TRADED"
               ELSE IF l \in Exits /\ leg[o][k] = "PENDING" THEN "CANCELLED" ELSE leg[o][k]
      BY <2>2 DEF Fills, TypeOK
    <3>2. \A p \in Supers, k \in Legs : leg[p][k] = "TRADED" => leg'[p][k] = "TRADED"
      BY <3>1
    <3>3. ASSUME NEW p \in Supers, NEW k \in Legs, leg'[p][k] = "CANCELLED"
          PROVE  \/ leg[p][k] = "CANCELLED"
                 \/ k \in Exits /\ l \in Exits \ {k} /\ leg'[p][l] = "TRADED"
      BY <3>1, <3>3 DEF Exits, Legs
    <3>4. QED  BY <3>1, <3>2, <3>3 DEF CancelledAsAsked, Exits
  <2>3. ASSUME UNCHANGED <<leg, applied>> PROVE CancelledAsAsked'
    BY <2>3 DEF CancelledAsAsked
  <2>4. QED
    BY <2>1, <2>2, <2>3
    DEF Next, vars, venue, CancelSuperOrderLeg, ModifySuperOrderLeg, CancelForeverOrder, Send,
        CancelLegEnds, ModifyLegEnds, CancelForeverEnds, Ended, DhanRefuses, GatewayRefuses,
        Triggers, GenerateSuperOrderReports, GenerateForeverOrderReports
<1>3. QED  BY <1>1, <1>2, TypeCorrect, PTL DEF Spec

-------------------------------------------------------------------------------
(* Two legs have the same id only when they are the same.                  *)
LEMMA VenueOrderIdsDiffer ==
  ASSUME NEW o, NEW p, NEW k \in Legs, NEW l \in Legs
  PROVE  VenueOrderId(o, k) = VenueOrderId(p, l) <=> o = p /\ k = l
BY DEF VenueOrderId

(* A book that is reported tells, of each order it can name, the state of  *)
(* each leg under an id of its own (super_orders.py:210-218, 280-315).     *)
THEOREM NoLegIsLost == Spec => []EveryLegIsReported
<1>1. Init => EveryLegIsReported
  BY DEF Init, EveryLegIsReported
<1>2. EveryLegIsReported /\ [Next]_vars => EveryLegIsReported'
  <2> SUFFICES ASSUME EveryLegIsReported, [Next]_vars PROVE EveryLegIsReported'
    OBVIOUS
  <2>1. CASE GenerateSuperOrderReports
    <3> SUFFICES ASSUME ~reports'.raised PROVE EveryLegIsReported'
      BY DEF EveryLegIsReported
    <3>1. PICK given \in [Supers -> UNION {SuperRows(o) : o \in Supers}] :
            /\ \A o \in Supers : given[o] \in SuperRows(o)
            /\ rows' = {given[o] : o \in Supers}
            /\ reports' = SuperReports({given[o] : o \in Supers})
      BY <2>1 DEF GenerateSuperOrderReports
    <3>2. \A r : r \in reports'.found <=>
             \E row \in Nameable(rows') : \E l \in row.legs : r = LegReport(row, l)
      BY <3>1, SuperReportsFound
    <3>3. \A row \in rows' : row.order \in Supers /\ row.legs \subseteq Legs
                             /\ \A other \in rows' : other.order = row.order => other = row
      BY <3>1, SuperRowsType
    <3>4. ASSUME NEW row \in rows', row.order \in Supers \ Unlisted, NEW l \in row.legs
          PROVE  \E r \in reports'.found :
                   /\ l \in DOMAIN row.status => r.status = OrderStatus[row.status[l]]
                   /\ \A q \in reports'.found :
                        q.venueOrderId = VenueOrderId(row.order, l) <=> q = r
      <4>1. LegReport(row, l) \in reports'.found
        BY <3>2, <3>4 DEF Nameable
      <4>2. \A b, k : LegReport(b, k).venueOrderId = VenueOrderId(b.order, k)
        BY DEF LegReport
      <4>3. l \in DOMAIN row.status => LegReport(row, l).status = OrderStatus[row.status[l]]
        BY DEF LegReport, LegStatus
      <4>4. ASSUME NEW q \in reports'.found, q.venueOrderId = VenueOrderId(row.order, l)
            PROVE  q = LegReport(row, l)
        <5>1. PICK b \in Nameable(rows') : \E k \in b.legs : q = LegReport(b, k)
          BY <3>2
        <5>2. PICK k \in b.legs : q = LegReport(b, k)
          BY <5>1
        <5>3. b \in rows' /\ k \in Legs /\ l \in Legs
          BY <3>3, <3>4 DEF Nameable
        <5>4. b.order = row.order /\ k = l
          BY <4>2, <4>4, <5>2, <5>3, VenueOrderIdsDiffer
        <5>5. QED  BY <3>3, <5>2, <5>3, <5>4
      <4>5. WITNESS LegReport(row, l) \in reports'.found
      <4>6. QED  BY <4>1, <4>2, <4>3, <4>4
    <3>5. \A row \in rows' : row.order \notin Forevers
      BY <3>3, CompositesAssumption
    <3>6. QED  BY <3>4, <3>5 DEF EveryLegIsReported
  <2>2. CASE GenerateForeverOrderReports
    <3> SUFFICES ASSUME ~reports'.raised PROVE EveryLegIsReported'
      BY DEF EveryLegIsReported
    <3>1. PICK word : /\ rows' = {[order |-> o, status |-> word[o]] : o \in Forevers}
                      /\ reports' = ForeverReports(rows')
      BY <2>2 DEF GenerateForeverOrderReports
    <3>2. \A row \in rows' : row.order \in Forevers
      BY <3>1
    <3>3. reports'.found = {ForeverReport(row) : row \in Nameable(rows')}
      BY <3>1 DEF ForeverReports, Found, RaisedIt
    <3>4. ASSUME NEW row \in rows', row.order \notin Unlisted
          PROVE  \E r \in reports'.found : /\ r.venueOrderId = <<row.order>>
                                           /\ r.status = OrderStatus[row.status]
      <4>1. ForeverReport(row) \in reports'.found
        BY <3>3, <3>4 DEF Nameable
      <4>2. QED  BY <4>1 DEF ForeverReport
    <3>5. QED  BY <3>2, <3>4, CompositesAssumption DEF EveryLegIsReported
  <2>3. ASSUME UNCHANGED <<reports, rows>> PROVE EveryLegIsReported'
    BY <2>3 DEF EveryLegIsReported
  <2>4. QED
    BY <2>1, <2>2, <2>3
    DEF Next, vars, venue, CancelSuperOrderLeg, ModifySuperOrderLeg, CancelForeverOrder, Send,
        CancelLegEnds, ModifyLegEnds, CancelForeverEnds, Ended, DhanActs, DhanRefuses,
        GatewayRefuses, Fills, Triggers
<1>3. QED  BY <1>1, <1>2, PTL DEF Spec

-------------------------------------------------------------------------------
(* A step that leaves Dhan's answers alone, or takes some away, adds none. *)
LEMMA AnswersAppear ==
  ASSUME [Next]_vars, NEW reply \in replies' \ replies
  PROVE  \E c \in Calls :
           \/ \E r \in Responses : DhanActs(c, r) /\ reply.by = c /\ reply.says = r
           \/ \E r \in Responses : DhanRefuses(c, r) /\ reply.by = c /\ reply.says = r
           \/ GatewayRefuses(c) /\ reply.by = c /\ reply.says = IPRefusal
<1>1. ASSUME NEW c \in Calls, NEW r \in Responses, DhanActs(c, r)
      PROVE  reply.by = c /\ reply.says = r
  BY <1>1, ReplyAdds DEF DhanActs
<1>2. ASSUME NEW c \in Calls, NEW r \in Responses, DhanRefuses(c, r)
      PROVE  reply.by = c /\ reply.says = r
  BY <1>2, ReplyAdds DEF DhanRefuses
<1>3. ASSUME NEW c \in Calls, GatewayRefuses(c) PROVE reply.by = c /\ reply.says = IPRefusal
  <2>1. reply \in Reply(c, IPRefusal)
    BY <1>3 DEF GatewayRefuses
  <2>2. QED  BY <2>1, ReplyAdds
<1>4. \/ \E c \in Calls, r \in Responses : DhanActs(c, r) \/ DhanRefuses(c, r)
      \/ \E c \in Calls : GatewayRefuses(c)
  <2>1. \A c, r : Ended(c, r) => replies' \subseteq replies
    BY DEF Ended
  <2>2. QED
    BY <2>1
    DEF Next, vars, CancelSuperOrderLeg, ModifySuperOrderLeg, CancelForeverOrder, Send,
        CancelLegEnds, ModifyLegEnds, CancelForeverEnds, Fills, Triggers,
        GenerateSuperOrderReports, GenerateForeverOrderReports
<1>5. QED  BY <1>1, <1>2, <1>3, <1>4

(* An exit that still works can always be moved: its move names no term    *)
(* that the fill of the entry has fixed (super_orders.py:167-186).         *)
THEOREM ExitsCanBeMoved == Spec => ExitsMoveAfterTheFill
<1>1. ASSUME [Next]_vars, NEW m \in Modifies, LegOf[m] \in Exits,
             [by |-> m, says |-> Refusal] \in replies' \ replies
      PROVE  leg[Of[m]][LegOf[m]] # "PENDING"
  <2> DEFINE reply == [by |-> m, says |-> Refusal]
  <2>1. reply.by = m /\ reply.says = Refusal /\ reply \in replies' \ replies
    BY <1>1
  <2>2. \E r \in Responses : DhanRefuses(m, r)
    <3>1. PICK c \in Calls :
            \/ \E r \in Responses : DhanActs(c, r) /\ reply.by = c /\ reply.says = r
            \/ \E r \in Responses : DhanRefuses(c, r) /\ reply.by = c /\ reply.says = r
            \/ GatewayRefuses(c) /\ reply.by = c /\ reply.says = IPRefusal
      BY <1>1, <2>1, AnswersAppear
    <3>2. \A r : ~(DhanActs(c, r) /\ r = Refusal)
      BY AnswersDiffer DEF DhanActs
    <3>3. QED  BY <2>1, <3>1, <3>2, AnswersDiffer
  <2>3. ~Acceptable(m)
    BY <2>2 DEF DhanRefuses
  <2>4. m \notin Cancels /\ Of[m] \notin Forevers
    BY CompositesAssumption
  <2>5. DOMAIN ModifyPayload(LegOf[m], Named[m]) \cap Fixed(Of[m]) = {}
    BY <1>1, ExitPayload DEF Fixed
  <2>6. QED  BY <2>3, <2>4, <2>5 DEF Acceptable
<1>2. [Next]_vars =>
        [\A m \in Modifies :
           LegOf[m] \in Exits /\ [by |-> m, says |-> Refusal] \in replies' \ replies
             => leg[Of[m]][LegOf[m]] # "PENDING"]_vars
  BY <1>1
<1>3. QED  BY <1>2, PTL DEF Spec, ExitsMoveAfterTheFill
===============================================================================
