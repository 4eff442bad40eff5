------------------------- MODULE DhanSubmission_proofs -------------------------
(***************************************************************************)
(* For any commands, legs, faults and number of processes: the submission  *)
(* coroutines keep IInv, its consequences hold, and the module implements  *)
(* OrderOutcome.  First what each answer is read as, then one lemma per    *)
(* action, then the refinement.                                            *)
(***************************************************************************)
EXTENDS DhanBrackets, SequenceTheorems, TLAPS

AckFields == [orderId |-> "id", orderStatus |-> "TRANSIT"]

(* An acknowledgement is a payload: nothing in it reads as a failure.       *)
LEMMA AckAnswer == Answer(TRUE, Ack) = Payload(Object(AckFields))
<1>1. Ack.kind = "json" /\ Ack.body = Object(AckFields)
  BY DEF Ack, Json, AckFields
<1>2. /\ Object(AckFields).shape = "object"
      /\ Object(AckFields).fields = AckFields
  BY DEF Object
<1>3. DOMAIN AckFields = {"orderId", "orderStatus"}
  BY DEF AckFields
<1>4. FailureInObject(AckFields) = {}
  BY <1>3 DEF FailureInObject, ErrorFields
<1>5. Classify(Object(AckFields)) = Payload(Object(AckFields))
  BY <1>2, <1>3, <1>4 DEF Classify, FailureIn, IsEnvelope, Get
<1>6. QED  BY <1>1, <1>5 DEF Answer

(* So is one that is an array, but it names no order.                       *)
LEMMA AckWithoutIdAnswer ==
  /\ Answer(TRUE, AckWithoutId).outcome = "payload"
  /\ ~OrderIdIn(Answer(TRUE, AckWithoutId))
<1> DEFINE items == <<Object(AckFields)>>
<1>1. AckWithoutId.kind = "json" /\ AckWithoutId.body = Array(items)
  BY DEF AckWithoutId, Json, AckFields
<1>2. Array(items).shape = "array" /\ Array(items).items = items
  BY DEF Array
<1>3. FailureInElement(Object(AckFields)) = {}
  BY DEF FailureInElement, Object, AckFields
<1>4. \A i \in DOMAIN items : FailureInElement(items[i]) = {}
  BY <1>3
<1>5. FailureInArray(items) = {}
  BY <1>4 DEF FailureInArray
<1>6. Classify(Array(items)) = Payload(Array(items))
  BY <1>2, <1>5 DEF Classify, FailureIn, IsEnvelope
<1>7. QED  BY <1>1, <1>2, <1>6 DEF Answer, Payload, OrderIdIn

(* Every refusal of Dhan's raises a definitive class.                       *)
LEMMA RefusalAnswer ==
  ASSUME NEW r \in Refusals
  PROVE  Answer(TRUE, r).outcome \in Definitive
<1>1. PICK message, code, type : r = ErrorBody(message, code, type)
  BY DEF Refusals
<1> DEFINE dict == [errorMessage |-> message, errorCode |-> code, errorType |-> type]
<1>2. r.kind = "json" /\ r.body = Object(dict)
  BY <1>1 DEF ErrorBody, Json
<1>3. Object(dict).shape = "object" /\ Object(dict).fields = dict
  BY DEF Object
<1>4. DOMAIN dict = {"errorMessage", "errorCode", "errorType"}
  OBVIOUS
<1>5. FailureInObject(dict) # {}
  BY <1>4 DEF FailureInObject, ErrorFields
<1>6. \A f : Raise(f) \in Definitive
  BY DEF Raise, Definitive
<1>7. Classify(Object(dict)).outcome \in Definitive
  BY <1>3, <1>5, <1>6 DEF Classify, FailureIn, Raised
<1>8. QED  BY <1>2, <1>7 DEF Answer

(* No answer and an unreadable one are ambiguous on a write.                *)
LEMMA SilentAnswers ==
  /\ Answer(TRUE, HttpError).outcome = "ambiguous"
  /\ Answer(TRUE, Text).outcome = "ambiguous"
BY DEF Answer, HttpError, Text, Raised

(* The kinds of reply cannot be mistaken for one another.                   *)
LEMMA RepliesAreDistinct ==
  /\ Ack \notin Refusals \cup {NoReply, AckWithoutId, Text, Json(Scalar)}
  /\ AckWithoutId \notin Refusals \cup {NoReply, Text, Json(Scalar)}
  /\ NoReply \notin Refusals \cup {Text, Json(Scalar)}
  /\ Text \notin Refusals \cup {Json(Scalar)}
  /\ Json(Scalar) \notin Refusals
<1> QED BY DEF Ack, AckWithoutId, Refusals, ErrorBody, Json, Object, Array, Scalar, Text, NoReply

-------------------------------------------------------------------------------
(* What the endings of the await have read. *)

(* Only a refusal, or a JSON scalar, is read as a rejection.                *)
LEMMA RejectionIsRead ==
  ASSUME NEW r \in Replies \cup {HttpError},
         Answer(TRUE, r).outcome \in DhanErrorClasses \ {"ambiguous"}
  PROVE  r \in Refusals \cup {Json(Scalar)}
<1>1. Answer(TRUE, Ack).outcome = "payload"
  <2>1. Payload(Object(AckFields)).outcome = "payload"
    BY DEF Payload
  <2>2. QED  BY <2>1, AckAnswer
<1>2. QED
  BY <1>1, AckWithoutIdAnswer, SilentAnswers DEF Replies, DhanErrorClasses

(* Only an acknowledgement is read as an acceptance.                        *)
LEMMA AcceptanceIsRead ==
  ASSUME NEW r \in Replies \cup {HttpError}, OrderIdIn(Answer(TRUE, r))
  PROVE  r = Ack
<1>1. Answer(TRUE, Json(Scalar)).outcome = "transportError"
  BY DEF Answer, Json, Scalar, Classify, Raised
<1>2. \A x \in Refusals : Answer(TRUE, x).outcome # "payload"
  BY RefusalAnswer DEF Definitive
<1>3. QED
  BY <1>1, <1>2, AckWithoutIdAnswer, SilentAnswers DEF Replies, OrderIdIn

(* Emitting for one command leaves the orders of the others alone. *)
LEMMA ToldLegs ==
  ASSUME NEW c \in Commands, NEW event
  PROVE  /\ \A o \in Legs[c] : Told(c, event)[o] = Append(events[o], event)
         /\ \A d \in Commands \ {c} : \A o \in Legs[d] :
              Told(c, event)[o] = events[o]
<1>1. Legs[c] \subseteq Orders /\ \A d \in Commands : Legs[d] \subseteq Orders
  BY CommandsAssumption
<1>2. QED  BY <1>1, CommandsAssumption DEF Told

(* Emitting an event keeps the type of events.                              *)
LEMMA ToldType ==
  ASSUME StateTypes, NEW c \in Commands,
         NEW event \in {"denied", "submitted", "accepted", "rejected"}
  PROVE  Told(c, event) \in
           [Orders -> Seq({"denied", "submitted", "accepted", "rejected"})]
BY DEF StateTypes, Told

-------------------------------------------------------------------------------
(* Type correctness: every variable keeps its type, whatever the commands. *)
LEMMA StateTypesKept == Spec => []StateTypes
<1>1. Init => StateTypes
  <2> SUFFICES ASSUME Init PROVE StateTypes
    OBVIOUS
  <2>1. session \in 1..MaxSessions
    BY SessionsAssumption DEF Init
  <2>2. <<>> \in Seq({"denied", "submitted", "accepted", "rejected"})
    OBVIOUS
  <2>3. events \in [Orders -> Seq({"denied", "submitted", "accepted", "rejected"})]
    BY <2>2 DEF Init
  <2>4. QED  BY <2>1, <2>3 DEF Init, StateTypes
<1>2. StateTypes /\ [Next]_vars => StateTypes'
  <2> SUFFICES ASSUME StateTypes, [Next]_vars PROVE StateTypes'
    OBVIOUS
  <2>1. CASE Connect
    BY <2>1 DEF Connect, StateTypes
  <2>2. CASE Disconnect
    BY <2>2 DEF Disconnect, StateTypes
  <2>3. CASE Restart
    <3>1. session' \in 1..MaxSessions
      BY <2>3, SessionsAssumption DEF Restart, StateTypes
    <3>2. QED  BY <2>3, <3>1 DEF Restart, StateTypes
  <2>4. ASSUME NEW c \in Commands, ClientStep(c)
        PROVE  StateTypes'
    <3>1. CASE Deny(c)
      <4>1. events' = Told(c, "denied")  BY <3>1 DEF Deny
      <4>2. QED  BY <3>1, <4>1, ToldType DEF Deny, StateTypes
    <3>2. CASE Submit(c)
      <4>1. events' = Told(c, "submitted")  BY <3>2 DEF Submit
      <4>2. QED  BY <3>2, <4>1, ToldType DEF Submit, StateTypes
    <3>3. ASSUME NEW r \in Replies \cup {HttpError}, ReturnAmbiguous(c, r)
          PROVE  StateTypes'
      BY <3>3 DEF ReturnAmbiguous, StateTypes
    <3>4. ASSUME NEW r \in Replies \cup {HttpError}, ReturnRejected(c, r)
          PROVE  StateTypes'
      <4>1. events' = Told(c, "rejected")  BY <3>4 DEF ReturnRejected
      <4>2. degraded' \in BOOLEAN  BY <3>4 DEF ReturnRejected, StateTypes
      <4>3. QED  BY <3>4, <4>1, <4>2, ToldType DEF ReturnRejected, StateTypes
    <3>5. ASSUME NEW r \in Replies \cup {HttpError}, ReturnAccepted(c, r)
          PROVE  StateTypes'
      <4>1. events' = Told(c, "accepted")  BY <3>5 DEF ReturnAccepted
      <4>2. QED  BY <3>5, <4>1, ToldType DEF ReturnAccepted, StateTypes
    <3>6. ASSUME NEW r \in Replies \cup {HttpError}, ReturnUnindexed(c, r)
          PROVE  StateTypes'
      BY <3>6 DEF ReturnUnindexed, StateTypes
    <3>7. QED
      BY <2>4, <3>1, <3>2, <3>3, <3>4, <3>5, <3>6 DEF ClientStep, Return
  <2>5. ASSUME NEW c \in Commands, VenueStep(c)
        PROVE  StateTypes'
    <3>1. Refusals \cup {Ack, AckWithoutId, Text, Json(Scalar)} = Replies
      BY DEF Replies
    <3>2. CASE VenuePlaces(c)
      BY <3>1, <3>2 DEF VenuePlaces, StateTypes, client
    <3>3. CASE VenueDeclines(c)
      BY <3>1, <3>3 DEF VenueDeclines, StateTypes, client
    <3>4. CASE RequestLost(c)
      BY <3>4 DEF RequestLost, StateTypes, client
    <3>5. CASE ReplyMangled(c)
      BY <3>1, <3>5 DEF ReplyMangled, StateTypes, client
    <3>6. QED  BY <2>5, <3>2, <3>3, <3>4, <3>5 DEF VenueStep
  <2>6. CASE UNCHANGED vars
    BY <2>6 DEF vars, StateTypes
  <2>7. QED  BY <2>1, <2>2, <2>3, <2>4, <2>5, <2>6 DEF Next
<1>3. QED  BY <1>1, <1>2, PTL DEF Spec

-------------------------------------------------------------------------------
(***************************************************************************)
(* The invariant.  For each command RequestInv ties the reply to what Dhan *)
(* did and VerdictInv ties the engine's view to both.  A step of command c *)
(* or of its request leaves every other command's part alone.              *)
(***************************************************************************)
CommandInv(c) == RequestInv(c) /\ VerdictInv(c)

(* LegalHistories, entry by entry.                                          *)
LEMMA LegalHistoriesValues ==
  /\ LegalHistories["idle"] = {<<>>}
  /\ LegalHistories["posting"] = {<<"submitted">>}
  /\ LegalHistories["lost"] = {<<"submitted">>}
  /\ LegalHistories["returned"] =
       {<<"denied">>, <<"submitted">>,
        <<"submitted", "accepted">>, <<"submitted", "rejected">>}
BY DEF LegalHistories

(* A step that leaves a command's four functions, and the history of its     *)
(* orders, as they are keeps that command's part of the invariant.           *)
LEMMA FrameCommand ==
  ASSUME NEW d \in Commands, CommandInv(d),
         task'[d] = task[d], wire'[d] = wire[d], venue'[d] = venue[d],
         reply'[d] = reply[d],
         \A o \in Legs[d] : events'[o] = events[o]
  PROVE  CommandInv(d)'
BY DEF CommandInv, RequestInv, VerdictInv

(* A denial ends a command nothing was sent for.                            *)
LEMMA DenyKeeps ==
  ASSUME StateTypes, NEW c \in Commands, CommandInv(c), Deny(c)
  PROVE  CommandInv(c)'
<1>1. /\ task'[c] = "returned" /\ wire'[c] = wire[c] /\ venue'[c] = venue[c]
      /\ reply'[c] = reply[c]
  BY DEF Deny, StateTypes
<1>2. \A o \in Legs[c] : events'[o] = Append(events[o], "denied")
  BY ToldLegs DEF Deny
<1>3. \A o \in Legs[c] : events[o] = <<>>
  BY LegalHistoriesValues DEF Deny, CommandInv, VerdictInv
<1>4. Append(<<>>, "denied") = <<"denied">>
  OBVIOUS
<1>5. \A o \in Legs[c] : events'[o] = <<"denied">>
  BY <1>2, <1>3, <1>4
<1>6. RequestInv(c)'
  BY <1>1 DEF CommandInv, RequestInv, Deny
<1>7. wire[c] = "none"
  BY DEF CommandInv, RequestInv, Deny
<1>8. VerdictInv(c)'
  <2> SUFFICES ASSUME NEW o \in Legs[c]
               PROVE  /\ events'[o] \in LegalHistories[task'[c]]
                      /\ events'[o] = <<"denied">>
                           <=> task'[c] = "returned" /\ wire'[c] = "none"
                      /\ events'[o] # <<"submitted", "accepted">>
                      /\ events'[o] # <<"submitted", "rejected">>
    BY DEF VerdictInv
  <2>1. events'[o] = <<"denied">>
    BY <1>5
  <2>2. <<"denied">> # <<"submitted", "accepted">> /\ <<"denied">> # <<"submitted", "rejected">>
    OBVIOUS
  <2>3. QED  BY <1>1, <1>7, <2>1, <2>2, LegalHistoriesValues
<1>9. QED  BY <1>6, <1>8 DEF CommandInv

(* A submission is announced once, before its request.                      *)
LEMMA SubmitKeeps ==
  ASSUME StateTypes, NEW c \in Commands, CommandInv(c), Submit(c)
  PROVE  CommandInv(c)'
<1>1. /\ task'[c] \in {"posting", "lost"} /\ venue'[c] = venue[c] /\ reply'[c] = reply[c]
      /\ task'[c] = "posting" => wire'[c] = "sent"
      /\ task'[c] = "lost" => wire'[c] = wire[c]
  BY DEF Submit, StateTypes
<1>2. \A o \in Legs[c] : events'[o] = Append(events[o], "submitted")
  BY ToldLegs DEF Submit
<1>3. \A o \in Legs[c] : events[o] = <<>>
  BY LegalHistoriesValues DEF Submit, CommandInv, VerdictInv
<1>4. Append(<<>>, "submitted") = <<"submitted">>
  OBVIOUS
<1>5. \A o \in Legs[c] : events'[o] = <<"submitted">>
  BY <1>2, <1>3, <1>4
<1>6. wire[c] = "none"
  BY DEF CommandInv, RequestInv, Submit
<1>7. RequestInv(c)'
  BY <1>1, <1>6 DEF CommandInv, RequestInv
<1>8. /\ <<"submitted">> # <<"denied">>
      /\ <<"submitted">> # <<"submitted", "accepted">>
      /\ <<"submitted">> # <<"submitted", "rejected">>
  OBVIOUS
<1>9. VerdictInv(c)'
  BY <1>1, <1>5, <1>8, LegalHistoriesValues DEF VerdictInv
<1>10. QED  BY <1>7, <1>9 DEF CommandInv

(* An await that ends with no event: the history stays <<"submitted">>.      *)
LEMMA SilentReturnKeeps ==
  ASSUME StateTypes, NEW c \in Commands, CommandInv(c),
         task[c] = "posting", task'[c] \in {"returned", "lost"},
         wire' = wire, venue' = venue, reply' = reply, events' = events
  PROVE  CommandInv(c)'
<1>1. wire[c] # "none"
  BY DEF CommandInv, RequestInv
<1>2. \A o \in Legs[c] : events[o] = <<"submitted">>
  BY LegalHistoriesValues DEF CommandInv, VerdictInv
<1>3. /\ <<"submitted">> # <<"denied">>
      /\ <<"submitted">> # <<"submitted", "accepted">>
      /\ <<"submitted">> # <<"submitted", "rejected">>
  OBVIOUS
<1>4. RequestInv(c)'
  BY DEF CommandInv, RequestInv
<1>5. VerdictInv(c)'
  BY <1>1, <1>2, <1>3, LegalHistoriesValues DEF VerdictInv
<1>6. QED  BY <1>4, <1>5 DEF CommandInv

(* An await that ends with a verdict, given that Dhan's decision supports it. *)
LEMMA VerdictReturnKeeps ==
  ASSUME StateTypes, NEW c \in Commands, CommandInv(c),
         NEW verdict \in {"accepted", "rejected"},
         task[c] = "posting", task'[c] = "returned",
         wire' = wire, venue' = venue, reply' = reply,
         events' = Told(c, verdict),
         verdict = "accepted" => venue[c] = "placed",
         verdict = "rejected" => venue[c] = "declined" \/ "scalar" \in GatewayFaults
  PROVE  CommandInv(c)'
<1>1. wire[c] # "none"
  BY DEF CommandInv, RequestInv
<1>2. \A o \in Legs[c] : events[o] = <<"submitted">>
  BY LegalHistoriesValues DEF CommandInv, VerdictInv
<1>3. \A o \in Legs[c] : events'[o] = <<"submitted", verdict>>
  BY <1>2, ToldLegs
<1>4. /\ <<"submitted", verdict>> # <<"denied">>
      /\ <<"submitted", verdict>> = <<"submitted", "accepted">> => verdict = "accepted"
      /\ <<"submitted", verdict>> = <<"submitted", "rejected">> => verdict = "rejected"
      /\ <<"submitted", verdict>> \in LegalHistories["returned"]
  BY LegalHistoriesValues
<1>5. RequestInv(c)'
  BY DEF CommandInv, RequestInv
<1>6. VerdictInv(c)'
  BY <1>1, <1>3, <1>4 DEF VerdictInv
<1>7. QED  BY <1>5, <1>6 DEF CommandInv

(* Every ending of the await keeps its command's part.                      *)
LEMMA ReturnKeeps ==
  ASSUME StateTypes, NEW c \in Commands, CommandInv(c), Return(c)
  PROVE  CommandInv(c)'
<1> PICK r \in Replies \cup {HttpError} :
      \/ ReturnAmbiguous(c, r) \/ ReturnRejected(c, r)
      \/ ReturnAccepted(c, r)  \/ ReturnUnindexed(c, r)
  BY DEF Return
<1>1. CASE ReturnAmbiguous(c, r)
  <2>1. /\ task[c] = "posting" /\ task'[c] = "returned"
        /\ wire' = wire /\ venue' = venue /\ reply' = reply /\ events' = events
    BY <1>1 DEF ReturnAmbiguous, Response, StateTypes
  <2>2. QED  BY <2>1, SilentReturnKeeps
<1>2. CASE ReturnUnindexed(c, r)
  <2>1. /\ task[c] = "posting" /\ task'[c] = "lost"
        /\ wire' = wire /\ venue' = venue /\ reply' = reply /\ events' = events
    BY <1>2 DEF ReturnUnindexed, Response, StateTypes
  <2>2. QED  BY <2>1, SilentReturnKeeps
<1>3. CASE ReturnRejected(c, r)
  <2>1. /\ task[c] = "posting" /\ task'[c] = "returned"
        /\ wire' = wire /\ venue' = venue /\ reply' = reply
        /\ events' = Told(c, "rejected")
    BY <1>3 DEF ReturnRejected, Response, StateTypes
  <2>2. r \in Refusals \cup {Json(Scalar)}
    BY <1>3, RejectionIsRead DEF ReturnRejected
  <2>3. r # HttpError
    BY <1>3, SilentAnswers DEF ReturnRejected
  <2>4. r = reply[c]
    BY <1>3, <2>3 DEF ReturnRejected, Response
  <2>5. venue[c] = "declined" \/ "scalar" \in GatewayFaults
    BY <2>2, <2>4 DEF CommandInv, RequestInv
  <2>6. QED  BY <2>1, <2>5, VerdictReturnKeeps
<1>4. CASE ReturnAccepted(c, r)
  <2>1. /\ task[c] = "posting" /\ task'[c] = "returned"
        /\ wire' = wire /\ venue' = venue /\ reply' = reply
        /\ events' = Told(c, "accepted")
    BY <1>4 DEF ReturnAccepted, Response, StateTypes
  <2>2. r = Ack
    BY <1>4, AcceptanceIsRead DEF ReturnAccepted
  <2>3. r # HttpError
    BY <1>4, SilentAnswers DEF ReturnAccepted, OrderIdIn
  <2>4. r = reply[c]
    BY <1>4, <2>3 DEF ReturnAccepted, Response
  <2>5. venue[c] = "placed"
    BY <2>2, <2>4 DEF CommandInv, RequestInv
  <2>6. QED  BY <2>1, <2>5, VerdictReturnKeeps
<1>5. QED  BY <1>1, <1>2, <1>3, <1>4

(* So does whatever becomes of its request and its reply.                   *)
LEMMA VenueKeeps ==
  ASSUME StateTypes, NEW c \in Commands, CommandInv(c), VenueStep(c)
  PROVE  CommandInv(c)'
<1>1. task' = task /\ events' = events
  BY DEF VenueStep, VenuePlaces, VenueDeclines, RequestLost, ReplyMangled, client
<1>2. CASE wire[c] = "sent" /\ wire'[c] = "gone" /\ venue'[c] \in {"placed", "declined", "unaware"}
  <2>1. venue[c] = "unaware" /\ reply[c] = NoReply
    BY <1>2 DEF CommandInv, RequestInv
  <2>2. \/ venue'[c] = "placed" /\ reply'[c] = Ack
        \/ venue'[c] = "declined" /\ reply'[c] \in Refusals
        \/ venue'[c] = venue[c] /\ reply'[c] = reply[c]
    <3>1. CASE VenuePlaces(c)
      BY <3>1 DEF VenuePlaces, StateTypes
    <3>2. CASE VenueDeclines(c)
      BY <3>2 DEF VenueDeclines, StateTypes
    <3>3. CASE RequestLost(c)
      BY <3>3 DEF RequestLost
    <3>4. CASE ReplyMangled(c)
      BY <1>2, <3>4 DEF ReplyMangled
    <3>5. QED  BY <3>1, <3>2, <3>3, <3>4 DEF VenueStep
  <2>3. RequestInv(c)'
    BY <1>1, <1>2, <2>1, <2>2, RepliesAreDistinct DEF CommandInv, RequestInv
  <2>4. VerdictInv(c)'
    BY <1>1, <1>2, <2>1, <2>2 DEF CommandInv, VerdictInv
  <2>5. QED  BY <2>3, <2>4 DEF CommandInv
<1>3. CASE ReplyMangled(c)
  <2>1. /\ wire' = wire /\ venue' = venue
        /\ reply[c] \in Refusals \cup {Ack}
        /\ \/ reply'[c] = Text
           \/ reply'[c] = Json(Scalar) /\ "scalar" \in GatewayFaults
           \/ reply'[c] = AckWithoutId /\ reply[c] = Ack
    BY <1>3 DEF ReplyMangled, StateTypes
  <2>2. wire[c] = "gone"
    BY <2>1, RepliesAreDistinct DEF CommandInv, RequestInv, StateTypes
  <2>3. RequestInv(c)'
    BY <1>1, <2>1, <2>2, RepliesAreDistinct DEF CommandInv, RequestInv
  <2>4. VerdictInv(c)'
    BY <1>1, <2>1 DEF CommandInv, VerdictInv
  <2>5. QED  BY <2>3, <2>4 DEF CommandInv
<1>4. QED
  BY <1>2, <1>3 DEF VenueStep, VenuePlaces, VenueDeclines, RequestLost, StateTypes

(* Every step keeps every command's part.                                   *)
LEMMA StepKeepsCommands ==
  ASSUME StateTypes, \A c \in Commands : CommandInv(c), [Next]_vars
  PROVE  \A c \in Commands : CommandInv(c)'
<1> SUFFICES ASSUME NEW d \in Commands PROVE CommandInv(d)'
  OBVIOUS
<1>1. CASE Connect \/ Disconnect \/ UNCHANGED vars
  BY <1>1, FrameCommand DEF Connect, Disconnect, vars
<1>2. CASE Restart
  <2>1. task'[d] = (IF task[d] = "posting" THEN "lost" ELSE task[d])
    BY <1>2 DEF Restart
  <2>2. /\ events' = events /\ wire' = wire /\ venue' = venue /\ reply' = reply
    BY <1>2 DEF Restart
  <2>3. CASE task[d] = "posting"
    BY <2>1, <2>2, <2>3, SilentReturnKeeps
  <2>4. CASE task[d] # "posting"
    BY <2>1, <2>2, <2>4, FrameCommand
  <2>5. QED  BY <2>3, <2>4
<1>3. ASSUME NEW c \in Commands, ClientStep(c)
      PROVE  CommandInv(d)'
  <2>1. CASE c = d
    BY <1>3, <2>1, DenyKeeps, SubmitKeeps, ReturnKeeps DEF ClientStep
  <2>2. CASE c # d
    <3>1. /\ task'[d] = task[d] /\ wire'[d] = wire[d]
          /\ venue'[d] = venue[d] /\ reply'[d] = reply[d]
      BY <1>3, <2>2 DEF ClientStep, Deny, Submit, Return, ReturnAmbiguous,
         ReturnRejected, ReturnAccepted, ReturnUnindexed, StateTypes
    <3>2. events' = events \/ \E e : events' = Told(c, e)
      BY <1>3 DEF ClientStep, Deny, Submit, Return, ReturnAmbiguous,
         ReturnRejected, ReturnAccepted, ReturnUnindexed
    <3>3. \A o \in Legs[d] : events'[o] = events[o]
      BY <2>2, <3>2, ToldLegs
    <3>4. QED  BY <3>1, <3>3, FrameCommand
  <2>3. QED  BY <2>1, <2>2
<1>4. ASSUME NEW c \in Commands, VenueStep(c)
      PROVE  CommandInv(d)'
  <2>1. CASE c = d
    BY <1>4, <2>1, VenueKeeps
  <2>2. CASE c # d
    <3>1. /\ task'[d] = task[d] /\ wire'[d] = wire[d] /\ events' = events
          /\ venue'[d] = venue[d] /\ reply'[d] = reply[d]
      BY <1>4, <2>2 DEF VenueStep, VenuePlaces, VenueDeclines, RequestLost,
         ReplyMangled, client, StateTypes
    <3>2. QED  BY <3>1, FrameCommand
  <2>3. QED  BY <2>1, <2>2
<1>5. QED  BY <1>1, <1>2, <1>3, <1>4 DEF Next

(* No command has begun.                                                    *)
LEMMA InitCommands == Init => \A c \in Commands : CommandInv(c)
<1> SUFFICES ASSUME Init, NEW c \in Commands PROVE CommandInv(c)
  OBVIOUS
<1>1. Legs[c] \subseteq Orders
  BY CommandsAssumption
<1>2. \A o \in Legs[c] : events[o] = <<>>
  BY <1>1 DEF Init
<1>3. /\ <<>> # <<"denied">> /\ <<>> # <<"submitted", "accepted">>
      /\ <<>> # <<"submitted", "rejected">>
  OBVIOUS
<1>4. RequestInv(c)
  BY RepliesAreDistinct DEF Init, RequestInv
<1>5. VerdictInv(c)
  BY <1>2, <1>3, LegalHistoriesValues DEF Init, VerdictInv
<1>6. QED  BY <1>4, <1>5 DEF CommandInv

(* The inductive invariant, for any commands, brackets, faults and restarts. *)
THEOREM InvariantHolds == Spec => []IInv
<1>1. Init => \A c \in Commands : CommandInv(c)
  BY InitCommands
<1>2. StateTypes /\ (\A c \in Commands : CommandInv(c)) /\ [Next]_vars
        => (\A c \in Commands : CommandInv(c))'
  BY StepKeepsCommands
<1>3. StateTypes /\ (\A c \in Commands : CommandInv(c)) => IInv
  BY DEF IInv, CommandInv
<1>4. QED  BY <1>1, <1>2, <1>3, StateTypesKept, PTL DEF Spec

-------------------------------------------------------------------------------
(* The events of a legal history, read back from its last one.              *)
LEMMA HappenedIn ==
  ASSUME NEW o \in Orders,
         NEW event \in {"denied", "accepted", "rejected"},
         Happened(o, event),
         events[o] \in {<<>>, <<"denied">>, <<"submitted">>,
                        <<"submitted", "accepted">>, <<"submitted", "rejected">>}
  PROVE  /\ event = "denied" => events[o] = <<"denied">>
         /\ event = "accepted" => events[o] = <<"submitted", "accepted">>
         /\ event = "rejected" => events[o] = <<"submitted", "rejected">>
<1>1. PICK i \in DOMAIN events[o] : events[o][i] = event
  BY DEF Happened
<1>2. events[o] # <<>>
  BY <1>1
<1>3. events[o] = <<"denied">> => event = "denied"
  BY <1>1
<1>4. events[o] # <<"submitted">>
  BY <1>1
<1>5. events[o] = <<"submitted", "accepted">> => event = "accepted"
  BY <1>1
<1>6. events[o] = <<"submitted", "rejected">> => event = "rejected"
  BY <1>1
<1>7. QED  BY <1>2, <1>3, <1>4, <1>5, <1>6

(* The histories the invariant admits.                                      *)
LEMMA HistoryIsOneOfFive ==
  ASSUME IInv, NEW c \in Commands, NEW o \in Legs[c]
  PROVE  /\ o \in Orders
         /\ events[o] \in {<<>>, <<"denied">>, <<"submitted">>,
                           <<"submitted", "accepted">>, <<"submitted", "rejected">>}
BY CommandsAssumption, LegalHistoriesValues DEF IInv, StateTypes, VerdictInv

(* The type invariant: every variable keeps its type, and no order is spoken *)
(* of more than twice -- a later process never announces it again            *)
(* (execution.py:257-268).                                                   *)
THEOREM TypeCorrect == Spec => []TypeOK
<1>1. IInv => TypeOK
  <2> SUFFICES ASSUME IInv, NEW o \in Orders PROVE StateTypes /\ Len(events[o]) <= 2
    BY DEF IInv, TypeOK
  <2>1. PICK c \in Commands : o \in Legs[c]
    BY CommandsAssumption
  <2>2. events[o] \in {<<>>, <<"denied">>, <<"submitted">>,
                       <<"submitted", "accepted">>, <<"submitted", "rejected">>}
    BY <2>1, HistoryIsOneOfFive
  <2>3. ASSUME NEW h, h \in {<<>>, <<"denied">>, <<"submitted">>,
                             <<"submitted", "accepted">>, <<"submitted", "rejected">>}
        PROVE  Len(h) <= 2
    <3>1. CASE h = <<>>  BY <3>1
    <3>2. CASE h \in {<<"denied">>, <<"submitted">>}  BY <3>2
    <3>3. CASE h = <<"submitted", "accepted">>  BY <3>3
    <3>4. CASE h = <<"submitted", "rejected">>  BY <3>4
    <3>5. QED  BY <2>3, <3>1, <3>2, <3>3, <3>4
  <2>4. Len(events[o]) <= 2
    BY <2>2, <2>3, Zenon
  <2>5. QED  BY <2>4 DEF IInv
<1>2. QED  BY <1>1, InvariantHolds, PTL

(* Every history the engine sees of a submission is a legal one, and every   *)
(* leg of a bracket has one.                                                 *)
THEOREM EveryHistoryIsLegal == Spec => []HistoriesAreLegal
<1>1. IInv => HistoriesAreLegal
  BY DEF IInv, VerdictInv, HistoriesAreLegal
<1>2. QED  BY <1>1, InvariantHolds, PTL

(* A denied order was never sent and never will be.                          *)
THEOREM DeniedOrderNeverSent == Spec => []DeniedNeverSent
<1>1. IInv => DeniedNeverSent
  <2> SUFFICES ASSUME IInv, NEW c \in Commands, NEW o \in Legs[c],
                      Happened(o, "denied")
               PROVE  wire[c] = "none" /\ venue[c] = "unaware"
    BY DEF DeniedNeverSent
  <2>1. events[o] = <<"denied">>
    BY HistoryIsOneOfFive, HappenedIn
  <2>2. wire[c] = "none"
    BY <2>1 DEF IInv, VerdictInv
  <2>3. QED  BY <2>2 DEF IInv, RequestInv
<1>2. QED  BY <1>1, InvariantHolds, PTL

(* An accepted order was placed at Dhan.                                     *)
THEOREM AcceptedOrderIsPlaced == Spec => []AcceptedIsPlaced
<1>1. IInv => AcceptedIsPlaced
  <2> SUFFICES ASSUME IInv, NEW c \in Commands, NEW o \in Legs[c],
                      Happened(o, "accepted")
               PROVE  venue[c] = "placed"
    BY DEF AcceptedIsPlaced
  <2>1. events[o] = <<"submitted", "accepted">>
    BY HistoryIsOneOfFive, HappenedIn
  <2>2. QED  BY <2>1 DEF IInv, VerdictInv
<1>2. QED  BY <1>1, InvariantHolds, PTL

(* Where no JSON scalar stands in for Dhan's answer, a rejected order is not *)
(* working and no request under way can make it so.                          *)
THEOREM RejectedOrderNeverWorks ==
  ASSUME "scalar" \notin GatewayFaults
  PROVE  Spec => []RejectedNeverWorks
<1>1. IInv => RejectedNeverWorks
  <2> SUFFICES ASSUME IInv, NEW c \in Commands, NEW o \in Legs[c],
                      Happened(o, "rejected")
               PROVE  venue[c] # "placed" /\ wire[c] # "sent"
    BY DEF RejectedNeverWorks
  <2>1. events[o] = <<"submitted", "rejected">>
    BY HistoryIsOneOfFive, HappenedIn
  <2>2. venue[c] = "declined"
    BY <2>1 DEF IInv, VerdictInv
  <2>3. QED  BY <2>2 DEF IInv, RequestInv
<1>2. QED  BY <1>1, InvariantHolds, PTL

(* What is sent was found fit to be sent, and stays so.                     *)
SentWereBuildable == \A c \in Commands : wire[c] # "none" => c \in Buildable

LEMMA OnlyBuildableAreSent == Spec => []SentWereBuildable
<1>1. Init => SentWereBuildable  BY DEF Init, SentWereBuildable
<1>2. StateTypes /\ SentWereBuildable /\ [Next]_vars => SentWereBuildable'
  <2> SUFFICES ASSUME StateTypes, SentWereBuildable, [Next]_vars,
                      NEW c \in Commands, wire'[c] # "none"
               PROVE  c \in Buildable
    BY DEF SentWereBuildable
  <2>1. CASE wire' = wire  BY <2>1 DEF SentWereBuildable
  <2>2. ASSUME NEW d \in Commands, ClientStep(d), wire' # wire
        PROVE  c \in Buildable
    <3>1. Submit(d)
      BY <2>2 DEF ClientStep, Deny, Return, ReturnAmbiguous,
         ReturnRejected, ReturnAccepted, ReturnUnindexed
    <3>2. d \in Buildable /\ wire' = [wire EXCEPT ![d] = "sent"]
      BY <2>2, <3>1 DEF Submit, Refused
    <3>3. QED  BY <3>2 DEF SentWereBuildable, StateTypes
  <2>3. ASSUME NEW d \in Commands, VenueStep(d), wire' # wire
        PROVE  c \in Buildable
    <3>1. wire[d] = "sent" /\ wire' = [wire EXCEPT ![d] = "gone"]
      BY <2>3 DEF VenueStep, VenuePlaces, VenueDeclines, RequestLost, ReplyMangled
    <3>2. QED  BY <3>1 DEF SentWereBuildable, StateTypes
  <2>4. QED
    BY <2>1, <2>2, <2>3 DEF Next, Connect, Disconnect, Restart, vars
<1>3. QED  BY <1>1, <1>2, StateTypesKept, PTL DEF Spec

(* ExitsAreApart: a bracket that can be built has both exits against its     *)
(* entry and a gap between them that no price of the market is on both sides *)
(* of; and nothing else is sent (super_orders.place_payload, _refusal_for).  *)
THEOREM ExitsOfSentBracketsAreApart == Spec => []ExitsAreApart
<1>1. SentWereBuildable => ExitsAreApart
  <2> SUFFICES ASSUME SentWereBuildable, NEW c \in IsBracket, wire[c] # "none"
               PROVE  /\ {Placed[c].target.side, Placed[c].stop.side}
                           = {Opposite(Placed[c].entry.side)}
                      /\ \A market \in 0 .. MaxPrice :
                           ~(TargetFires(Placed[c], market) /\ StopFires(Placed[c], market))
    BY DEF ExitsAreApart
  <2> DEFINE b == Placed[c]
  <2>1. c \in IsBracket \cap Buildable  BY CommandsAssumption DEF SentWereBuildable
  <2>2. /\ b.entry \in Order /\ b.target \in Order /\ b.stop \in Order
        /\ SuperSendable(b.entry, b.target, b.stop, b.product)
    BY <2>1, BracketsAssumption
  <2> HIDE DEF b
  <2>3. /\ b.target.side = Opposite(b.entry.side) /\ b.stop.side = Opposite(b.entry.side)
        /\ b.entry.side = "BUY"  => b.target.price > StopPrice(b.stop)
        /\ b.entry.side = "SELL" => b.target.price < StopPrice(b.stop)
    BY <2>2 DEF SuperSendable
  <2>4. /\ b.entry.side \in {"BUY", "SELL"} /\ b.target.price \in Nat
        /\ StopPrice(b.stop) \in Nat
    BY <2>2 DEF Order, StopPrice
  <2>5. ASSUME NEW market \in 0 .. MaxPrice
        PROVE  ~(TargetFires(b, market) /\ StopFires(b, market))
    <3>1. CASE b.entry.side = "BUY"
      BY <2>3, <2>4, <3>1 DEF Opposite, TargetFires, StopFires
    <3>2. CASE b.entry.side = "SELL"
      BY <2>3, <2>4, <3>2 DEF Opposite, TargetFires, StopFires
    <3>3. QED  BY <2>4, <3>1, <3>2
  <2>6. QED  BY <2>3, <2>5 DEF b
<1>2. QED  BY <1>1, OnlyBuildableAreSent, PTL

-------------------------------------------------------------------------------
(***************************************************************************)
(* The client keeps the abstract promise: each step of the coroutines, the *)
(* network and Dhan is a step of OrderOutcome on the legs of one command,  *)
(* or changes nothing it speaks of.                                        *)
(***************************************************************************)
truthBar == [o \in Orders |-> Truth(CommandOf(o))]
toldBar  == [o \in Orders |-> IF events[o] = <<>> THEN "nothing"
                              ELSE events[o][Len(events[o])]]

(* Every order belongs to one command.                                      *)
LEMMA CommandOfLeg ==
  /\ \A c \in Commands : \A o \in Legs[c] : o \in Orders /\ CommandOf(o) = c
  /\ \A o \in Orders : CommandOf(o) \in Commands /\ o \in Legs[CommandOf(o)]
<1>1. \A o \in Orders : CommandOf(o) \in Commands /\ o \in Legs[CommandOf(o)]
  BY CommandsAssumption DEF CommandOf
<1>2. QED  BY <1>1, CommandsAssumption

(* The last event of each history.                                          *)
LEMMA LastOf ==
  /\ <<"denied">>[Len(<<"denied">>)] = "denied"
  /\ <<"submitted">>[Len(<<"submitted">>)] = "submitted"
  /\ <<"submitted", "accepted">>[Len(<<"submitted", "accepted">>)] = "accepted"
  /\ <<"submitted", "rejected">>[Len(<<"submitted", "rejected">>)] = "rejected"
OBVIOUS

(* What the abstract specification is told, by history ...                  *)
LEMMA ToldOf ==
  ASSUME NEW o \in Orders
  PROVE  /\ events[o] = <<>> => toldBar[o] = "nothing"
         /\ events[o] = <<"denied">> => toldBar[o] = "denied"
         /\ events[o] = <<"submitted">> => toldBar[o] = "submitted"
         /\ events[o] = <<"submitted", "accepted">> => toldBar[o] = "accepted"
         /\ events[o] = <<"submitted", "rejected">> => toldBar[o] = "rejected"
<1>1. toldBar[o] = (IF events[o] = <<>> THEN "nothing" ELSE events[o][Len(events[o])])
  BY DEF toldBar
<1>2. /\ <<"denied">> # <<>> /\ <<"submitted">> # <<>>
      /\ <<"submitted", "accepted">> # <<>> /\ <<"submitted", "rejected">> # <<>>
  OBVIOUS
<1>3. QED  BY <1>1, <1>2, LastOf, Zenon

(* ... and the same after a step.                                           *)
LEMMA ToldAfter ==
  ASSUME NEW o \in Orders
  PROVE  /\ events'[o] = <<"denied">> => toldBar'[o] = "denied"
         /\ events'[o] = <<"submitted">> => toldBar'[o] = "submitted"
         /\ events'[o] = <<"submitted", "accepted">> => toldBar'[o] = "accepted"
         /\ events'[o] = <<"submitted", "rejected">> => toldBar'[o] = "rejected"
         /\ events'[o] = events[o] => toldBar'[o] = toldBar[o]
<1>1. /\ toldBar[o] = (IF events[o] = <<>> THEN "nothing" ELSE events[o][Len(events[o])])
      /\ toldBar'[o] = (IF events'[o] = <<>> THEN "nothing" ELSE events'[o][Len(events'[o])])
  BY DEF toldBar
<1>2. /\ <<"denied">> # <<>> /\ <<"submitted">> # <<>>
      /\ <<"submitted", "accepted">> # <<>> /\ <<"submitted", "rejected">> # <<>>
  OBVIOUS
<1>3. QED  BY <1>1, <1>2, LastOf, Zenon

(* What a command's step does to the two abstract functions.                 *)
LEMMA TruthStep ==
  ASSUME NEW c \in Commands, NEW v,
         Truth(c)' = v,
         \A d \in Commands \ {c} : Truth(d)' = Truth(d)
  PROVE  truthBar' = Outcome!Set(truthBar, Legs[c], v)
<1>1. DOMAIN truthBar = Orders
  BY DEF truthBar
<1>2. \A o \in Orders : truthBar'[o] = Truth(CommandOf(o))'
  BY DEF truthBar, CommandOf
<1>3. \A o \in Orders : truthBar'[o] = IF o \in Legs[c] THEN v ELSE truthBar[o]
  <2> SUFFICES ASSUME NEW o \in Orders
               PROVE  truthBar'[o] = IF o \in Legs[c] THEN v ELSE truthBar[o]
    OBVIOUS
  <2>1. CASE o \in Legs[c]
    BY <1>2, <2>1, CommandOfLeg
  <2>2. CASE o \notin Legs[c]
    <3>1. CommandOf(o) \in Commands \ {c}
      BY <2>2, CommandOfLeg
    <3>2. QED  BY <1>2, <2>2, <3>1 DEF truthBar
  <2>3. QED  BY <2>1, <2>2
<1>4. QED  BY <1>1, <1>3 DEF Outcome!Set, truthBar

(* An event emitted for a command's legs is one abstract step on them.      *)
LEMMA ToldStep ==
  ASSUME NEW c \in Commands, NEW v,
         \A o \in Legs[c] : toldBar'[o] = v,
         \A d \in Commands \ {c} : \A o \in Legs[d] : events'[o] = events[o]
  PROVE  toldBar' = Outcome!Set(toldBar, Legs[c], v)
<1>1. DOMAIN toldBar = Orders
  BY DEF toldBar
<1>2. \A o \in Orders : toldBar'[o] = IF o \in Legs[c] THEN v ELSE toldBar[o]
  <2> SUFFICES ASSUME NEW o \in Orders, o \notin Legs[c]
               PROVE  toldBar'[o] = toldBar[o]
    OBVIOUS
  <2>1. events'[o] = events[o]
    BY CommandOfLeg
  <2>2. QED  BY <2>1, ToldAfter
<1>3. QED  BY <1>1, <1>2 DEF Outcome!Set, toldBar

(* The legs of a command share its fate.                                    *)
LEMMA TruthOf ==
  ASSUME NEW c \in Commands, NEW o \in Legs[c]
  PROVE  truthBar[o] = Truth(c)
BY CommandOfLeg DEF truthBar

(* A step that changes no command's fate stutters on truth.                 *)
LEMMA SameTruth ==
  ASSUME \A c \in Commands : Truth(c)' = Truth(c)
  PROVE  truthBar' = truthBar
<1>1. \A o \in Orders : CommandOf(o)' = CommandOf(o)
  BY DEF CommandOf
<1>2. QED  BY <1>1, CommandOfLeg DEF truthBar

(* A verdict makes a history of two events.                                 *)
LEMMA AppendVerdict ==
  ASSUME NEW verdict \in {"accepted", "rejected"}
  PROVE  Append(<<"submitted">>, verdict) = <<"submitted", verdict>>
<1> DEFINE words  == {"submitted", "accepted", "rejected"}
           longer == Append(<<"submitted">>, verdict)
           pair   == <<"submitted", verdict>>
<1>1. <<"submitted">> \in Seq(words) /\ verdict \in words
  OBVIOUS
<1>2. /\ longer \in Seq(words) /\ Len(longer) = 2
      /\ longer[1] = "submitted" /\ longer[2] = verdict
  BY <1>1, AppendProperties
<1>3. /\ pair \in Seq(words) /\ Len(pair) = 2
      /\ pair[1] = "submitted" /\ pair[2] = verdict
  OBVIOUS
<1>4. \A i \in 1..Len(longer) : longer[i] = pair[i]
  BY <1>2, <1>3
<1> HIDE DEF longer, pair
<1>5. longer = pair
  BY <1>2, <1>3, <1>4, SeqEqual
<1>6. QED  BY <1>5 DEF longer, pair

(* Deny and Submit are Deny and Send; a client step that reads no verdict    *)
(* changes nothing; one that reads a verdict is Accept or Reject.            *)
LEMMA ClientRefines ==
  ASSUME IInv, IInv', "scalar" \notin GatewayFaults,
         NEW c \in Commands, ClientStep(c)
  PROVE  \/ Outcome!Deny(Legs[c]) \/ Outcome!Send(Legs[c])
         \/ Outcome!Accept(Legs[c]) \/ Outcome!Reject(Legs[c])
         \/ UNCHANGED <<truthBar, toldBar>>
<1> USE DEF truthBar, toldBar
<1>1. /\ StateTypes /\ RequestInv(c) /\ VerdictInv(c)
      /\ RequestInv(c)' /\ VerdictInv(c)'
  BY DEF IInv
<1>2. /\ \A d \in Commands \ {c} : /\ task'[d] = task[d] /\ wire'[d] = wire[d]
                                   /\ venue'[d] = venue[d]
      /\ venue' = venue
  BY <1>1 DEF ClientStep, Deny, Submit, Return, ReturnAmbiguous,
     ReturnRejected, ReturnAccepted, ReturnUnindexed, StateTypes
<1>3. \A d \in Commands \ {c} : Truth(d)' = Truth(d)
  BY <1>2 DEF Truth
<1>4. /\ \A o \in Legs[c] : o \in Orders
      /\ LegalHistories["idle"] = {<<>>}
      /\ LegalHistories["posting"] = {<<"submitted">>}
  BY CommandOfLeg, LegalHistoriesValues
<1>5. CASE Deny(c)
  <2>1. events' = Told(c, "denied") /\ task[c] = "idle" /\ wire' = wire
        /\ task'[c] = "returned"
    BY <1>1, <1>5 DEF Deny, StateTypes
  <2>2. wire[c] = "none"
    BY <1>1, <2>1 DEF RequestInv
  <2>3. Truth(c)' = Truth(c) /\ Truth(c) = "unsent"
    BY <2>1, <2>2 DEF Truth
  <2>4. \A o \in Legs[c] : events[o] = <<>>
    BY <1>1, <1>4, <2>1 DEF VerdictInv
  <2>5. Append(<<>>, "denied") = <<"denied">>
    OBVIOUS
  <2>6. \A o \in Legs[c] : events'[o] = <<"denied">>
    BY <2>1, <2>4, <2>5, ToldLegs
  <2>7. toldBar' = Outcome!Set(toldBar, Legs[c], "denied")
    <3> HIDE DEF truthBar, toldBar
    <3>1. \A o \in Legs[c] : toldBar'[o] = "denied"
      BY <1>4, <2>6, ToldAfter
    <3>2. QED  BY <2>1, <3>1, ToldStep, ToldLegs
  <2>8. \A o \in Legs[c] : truthBar[o] = "unsent" /\ toldBar[o] = "nothing"
    <3> HIDE DEF truthBar, toldBar
    <3>1. QED  BY <1>4, <2>3, <2>4, ToldOf, TruthOf
  <2>9. truthBar' = truthBar
    BY <1>3, <2>3, SameTruth
  <2>10. QED  BY <2>7, <2>8, <2>9 DEF Outcome!Deny
<1>6. CASE Submit(c)
  <2>1. events' = Told(c, "submitted") /\ task[c] = "idle"
        /\ \/ wire'[c] = "sent"
           \/ wire'[c] = wire[c] /\ task'[c] = "lost"
    BY <1>1, <1>6 DEF Submit, StateTypes
  <2>2. wire[c] = "none"
    BY <1>1, <2>1 DEF RequestInv
  <2>3. Truth(c)' \in {"possible", "never"} /\ Truth(c) = "unsent"
    BY <2>1, <2>2 DEF Truth
  <2>4. \A o \in Legs[c] : events[o] = <<>>
    BY <1>1, <1>4, <2>1 DEF VerdictInv
  <2>5. Append(<<>>, "submitted") = <<"submitted">>
    OBVIOUS
  <2>6. \A o \in Legs[c] : events'[o] = <<"submitted">>
    BY <2>1, <2>4, <2>5, ToldLegs
  <2>7. toldBar' = Outcome!Set(toldBar, Legs[c], "submitted")
    <3> HIDE DEF truthBar, toldBar
    <3>1. \A o \in Legs[c] : toldBar'[o] = "submitted"
      BY <1>4, <2>6, ToldAfter
    <3>2. QED  BY <2>1, <3>1, ToldStep, ToldLegs
  <2>8. \A o \in Legs[c] : truthBar[o] = "unsent" /\ toldBar[o] = "nothing"
    <3> HIDE DEF truthBar, toldBar
    <3>1. QED  BY <1>4, <2>3, <2>4, ToldOf, TruthOf
  <2>9. \E v \in {"possible", "never"} : truthBar' = Outcome!Set(truthBar, Legs[c], v)
    BY <1>3, <2>3, TruthStep
  <2>10. QED  BY <2>7, <2>8, <2>9 DEF Outcome!Send
<1>7. ASSUME NEW r \in Replies \cup {HttpError},
             ReturnAmbiguous(c, r) \/ ReturnUnindexed(c, r)
      PROVE  UNCHANGED <<truthBar, toldBar>>
  <2>1. task[c] = "posting" /\ wire' = wire /\ events' = events
    BY <1>7 DEF ReturnAmbiguous, ReturnUnindexed, Response
  <2>2. wire[c] # "none"
    BY <1>1, <2>1 DEF RequestInv
  <2>3. Truth(c)' = Truth(c)
    BY <1>2, <2>1, <2>2 DEF Truth
  <2>4. QED  BY <1>3, <2>1, <2>3, SameTruth
<1>8. ASSUME NEW verdict \in {"accepted", "rejected"},
             task[c] = "posting", task'[c] = "returned", wire' = wire,
             events' = Told(c, verdict)
      PROVE  Outcome!Accept(Legs[c]) \/ Outcome!Reject(Legs[c])
  <2>1. \A o \in Legs[c] : events[o] = <<"submitted">>
    BY <1>1, <1>4, <1>8 DEF VerdictInv
  <2>2. Append(<<"submitted">>, verdict) = <<"submitted", verdict>>
    BY AppendVerdict
  <2>3. \A o \in Legs[c] : events'[o] = <<"submitted", verdict>>
    BY <1>8, <2>1, <2>2, ToldLegs
  <2>4. wire[c] # "none"
    BY <1>1, <1>8 DEF RequestInv
  <2>5. Truth(c)' = Truth(c)
    BY <1>2, <1>8, <2>4 DEF Truth
  <2>6. truthBar' = truthBar
    BY <1>3, <2>5, SameTruth
  <2>7. toldBar' = Outcome!Set(toldBar, Legs[c], verdict)
    <3> HIDE DEF truthBar, toldBar
    <3>1. \A o \in Legs[c] : toldBar'[o] = verdict
      BY <1>4, <2>3, ToldAfter
    <3>2. QED  BY <1>8, <3>1, ToldStep, ToldLegs
  <2>8. \A o \in Legs[c] : toldBar[o] = "submitted"
    <3> HIDE DEF truthBar, toldBar
    <3>1. QED  BY <1>4, <2>1, ToldOf
  <2>9. CASE verdict = "accepted"
    <3>1. \A o \in Legs[c] : truthBar[o] = "working"
      <4> SUFFICES ASSUME NEW o \in Legs[c] PROVE truthBar[o] = "working"
        OBVIOUS
      <4> HIDE DEF truthBar, toldBar
      <4>1. venue[c] = "placed"
        BY <1>1, <1>2, <2>3, <2>9 DEF VerdictInv
      <4>2. wire[c] = "gone"
        BY <1>1, <4>1 DEF RequestInv
      <4>3. QED  BY <4>1, <4>2, TruthOf DEF Truth
    <3>2. toldBar' = Outcome!Set(toldBar, Legs[c], "accepted")
      BY <2>7, <2>9
    <3>3. Outcome!Accept(Legs[c])
      BY <2>6, <2>8, <3>1, <3>2 DEF Outcome!Accept
    <3>4. QED  BY <3>3
  <2>10. CASE verdict = "rejected"
    <3>1. \A o \in Legs[c] : truthBar[o] = "never"
      <4> SUFFICES ASSUME NEW o \in Legs[c] PROVE truthBar[o] = "never"
        OBVIOUS
      <4> HIDE DEF truthBar, toldBar
      <4>1. venue[c] = "declined"
        BY <1>1, <1>2, <2>3, <2>10 DEF VerdictInv
      <4>2. wire[c] = "gone"
        BY <1>1, <4>1 DEF RequestInv
      <4>3. QED  BY <4>1, <4>2, TruthOf DEF Truth
    <3>2. toldBar' = Outcome!Set(toldBar, Legs[c], "rejected")
      BY <2>7, <2>10
    <3>3. Outcome!Reject(Legs[c])
      BY <2>6, <2>8, <3>1, <3>2 DEF Outcome!Reject
    <3>4. QED  BY <3>3
  <2>11. QED  BY <1>8, <2>9, <2>10
<1>9. ASSUME NEW r \in Replies \cup {HttpError},
             ReturnRejected(c, r) \/ ReturnAccepted(c, r)
      PROVE  Outcome!Accept(Legs[c]) \/ Outcome!Reject(Legs[c])
  <2>1. \E verdict \in {"accepted", "rejected"} :
           /\ task[c] = "posting" /\ task'[c] = "returned" /\ wire' = wire
           /\ events' = Told(c, verdict)
    BY <1>1, <1>9 DEF ReturnRejected, ReturnAccepted, Response, StateTypes
  <2>2. QED  BY <1>8, <2>1
<1>10. QED
  BY <1>5, <1>6, <1>7, <1>9 DEF ClientStep, Return

(* Dhan's and the network's steps settle a request, or stutter.             *)
LEMMA VenueRefines ==
  ASSUME IInv, NEW c \in Commands, VenueStep(c)
  PROVE  Outcome!Settle(Legs[c]) \/ UNCHANGED <<truthBar, toldBar>>
<1> USE DEF truthBar, toldBar
<1>1. StateTypes /\ RequestInv(c)
  BY DEF IInv
<1>2. events' = events /\ task' = task
  BY DEF VenueStep, VenuePlaces, VenueDeclines, RequestLost, ReplyMangled, client
<1>3. toldBar' = toldBar
  BY <1>2
<1>4. \A d \in Commands \ {c} : Truth(d)' = Truth(d)
  <2> SUFFICES ASSUME NEW d \in Commands \ {c} PROVE Truth(d)' = Truth(d)
    OBVIOUS
  <2>1. wire'[d] = wire[d] /\ venue'[d] = venue[d] /\ task'[d] = task[d]
    BY <1>1, <1>2 DEF VenueStep, VenuePlaces, VenueDeclines, RequestLost,
       ReplyMangled, StateTypes
  <2>2. QED  BY <2>1 DEF Truth
<1>5. CASE wire[c] = "sent" /\ wire'[c] = "gone"
  <2>1. Truth(c)' \in {"working", "never"} /\ Truth(c) = "possible"
    BY <1>5 DEF Truth
  <2>2. \E v \in {"working", "never"} : truthBar' = Outcome!Set(truthBar, Legs[c], v)
    BY <1>4, <2>1, TruthStep
  <2>3. \A o \in Legs[c] : truthBar[o] = "possible"
    <3> HIDE DEF truthBar, toldBar
    <3>1. QED  BY <2>1, TruthOf
  <2>4. QED  BY <1>3, <2>2, <2>3 DEF Outcome!Settle
<1>6. CASE ReplyMangled(c)
  <2>1. Truth(c)' = Truth(c)
    BY <1>2, <1>6 DEF ReplyMangled, Truth
  <2>2. QED  BY <1>3, <1>4, <2>1, SameTruth
<1>7. QED
  BY <1>1, <1>5, <1>6 DEF VenueStep, VenuePlaces, VenueDeclines, RequestLost, StateTypes

(* Every step is an abstract step or a stutter.                             *)
LEMMA StepRefines ==
  ASSUME IInv, IInv', "scalar" \notin GatewayFaults, [Next]_vars
  PROVE  [Outcome!Next]_<<truthBar, toldBar>>
<1>1. \A c \in Commands : Legs[c] \in {Legs[d] : d \in Commands}
  OBVIOUS
<1>2. ASSUME NEW c \in Commands, ClientStep(c)
      PROVE  [Outcome!Next]_<<truthBar, toldBar>>
  BY <1>1, <1>2, ClientRefines DEF Outcome!Next
<1>3. ASSUME NEW c \in Commands, VenueStep(c)
      PROVE  [Outcome!Next]_<<truthBar, toldBar>>
  BY <1>1, <1>3, VenueRefines DEF Outcome!Next
<1>4. CASE Connect \/ Disconnect \/ UNCHANGED vars
  <2>1. task' = task /\ wire' = wire /\ venue' = venue /\ events' = events
    BY <1>4 DEF Connect, Disconnect, vars
  <2>2. \A c \in Commands : Truth(c)' = Truth(c)
    BY <2>1 DEF Truth
  <2>3. toldBar' = toldBar
    BY <2>1 DEF toldBar
  <2>4. QED  BY <2>2, <2>3, SameTruth
<1>5. CASE Restart
  <2>1. wire' = wire /\ venue' = venue /\ events' = events
    BY <1>5 DEF Restart
  <2>2. ASSUME NEW c \in Commands PROVE Truth(c)' = Truth(c)
    <3>1. task'[c] = (IF task[c] = "posting" THEN "lost" ELSE task[c])
      BY <1>5 DEF Restart
    <3>2. task[c] = "posting" => wire[c] # "none"
      BY DEF IInv, RequestInv
    <3>3. QED  BY <2>1, <3>1, <3>2 DEF Truth
  <2>3. toldBar' = toldBar
    BY <2>1 DEF toldBar
  <2>4. QED  BY <2>2, <2>3, SameTruth
<1>6. QED  BY <1>2, <1>3, <1>4, <1>5 DEF Next

(* The initial states are the abstract ones.                                *)
LEMMA InitRefines == Init => Outcome!Init
<1> SUFFICES ASSUME Init PROVE Outcome!Init
  OBVIOUS
<1>1. \A o \in Orders : Truth(CommandOf(o)) = "unsent"
  BY CommandOfLeg DEF Init, Truth
<1>2. \A o \in Orders : events[o] = <<>>
  BY DEF Init
<1>3. QED  BY <1>1, <1>2 DEF Outcome!Init

(* DhanSubmission implements OrderOutcome wherever no JSON scalar stands in  *)
(* for Dhan's answer: what the engine is told is never contradicted.         *)
THEOREM ClientKeepsThePromise ==
  ASSUME "scalar" \notin GatewayFaults
  PROVE  Spec => PromiseKept
<1>1. IInv /\ IInv' /\ [Next]_vars => [Outcome!Next]_Outcome!vars
  BY StepRefines DEF Outcome!vars, truthBar, toldBar
<1>2. QED
  BY <1>1, InitRefines, InvariantHolds, PTL DEF Spec, PromiseKept, Outcome!Spec
===============================================================================
