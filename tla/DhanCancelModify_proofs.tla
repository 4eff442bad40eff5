---------------------- MODULE DhanCancelModify_proofs ----------------------
(***************************************************************************)
(* For any orders, cancels, sweeps and modifies: IInv is inductive.  The   *)
(* type invariant comes first, then one lemma per action for the rest.     *)
(***************************************************************************)
EXTENDS DhanCancelModify, TLAPS

AckFields     == [orderId |-> "id", orderStatus |-> "CANCELLED"]
RefusalFields == [errorMessage |-> "words", errorCode |-> "DH-906",
                  errorType |-> "Order_Error"]

(* An acknowledgement is read as success.                                  *)
LEMMA AckVerdict == Verdict(Ack) = "done"
<1>1. Ack.kind = "json" /\ Ack.body = Object(AckFields)
  BY DEF Ack, Json, AckFields
<1>2. Object(AckFields).shape = "object" /\ Object(AckFields).fields = AckFields
  BY DEF Object
<1>3. DOMAIN AckFields = {"orderId", "orderStatus"}
  BY DEF AckFields
<1>4. FailureInObject(AckFields) = {}
  BY <1>3 DEF FailureInObject, ErrorFields
<1>5. Classify(Object(AckFields)) = Payload(Object(AckFields))
  BY <1>2, <1>3, <1>4 DEF Classify, FailureIn, IsEnvelope, Get
<1>6. Answer(TRUE, Ack) = Payload(Object(AckFields))
  BY <1>1, <1>5 DEF Answer
<1>7. Answer(TRUE, Ack).outcome = "payload"
  <2>1. Payload(Object(AckFields)).outcome = "payload"
    BY DEF Payload
  <2>2. QED  BY <1>6, <2>1
<1>8. QED  BY <1>7 DEF Verdict

(* A refusal of Dhan's is read as one.                                     *)
LEMMA RefusalVerdict == Verdict(Refusal) = "rejected"
<1>1. Refusal.kind = "json" /\ Refusal.body = Object(RefusalFields)
  BY DEF Refusal, Json, RefusalFields
<1>2. Object(RefusalFields).shape = "object" /\ Object(RefusalFields).fields = RefusalFields
  BY DEF Object
<1>3. DOMAIN RefusalFields = {"errorMessage", "errorCode", "errorType"}
  BY DEF RefusalFields
<1>4. FailureInObject(RefusalFields) # {}
  BY <1>3 DEF FailureInObject, ErrorFields
<1>5. \A f : Raise(f) \in Definitive
  BY DEF Raise, Definitive
<1>6. Classify(Object(RefusalFields)).outcome \in Definitive
  BY <1>2, <1>4, <1>5 DEF Classify, FailureIn, Raised
<1>7. Answer(TRUE, Refusal).outcome \in Definitive
  BY <1>1, <1>6 DEF Answer
<1>8. QED  BY <1>7 DEF Verdict, Definitive

(* The absence of an answer, and a body that is no JSON, are read as neither. *)
LEMMA SilentVerdicts ==
  Verdict(HttpError) = "silent" /\ Verdict(Text) = "silent"
BY DEF Verdict, Answer, HttpError, Text, Raised

(* JSON that is neither object nor array is read as a refusal.             *)
LEMMA ScalarVerdict == Verdict(Json(Scalar)) = "rejected"
BY DEF Verdict, Answer, Json, Scalar, Classify, Raised

(* What a gateway puts in the place of an answer.                          *)
LEMMA GarbledValues ==
  ASSUME NEW r \in Garbled
  PROVE  r = Text \/ (r = Json(Scalar) /\ "scalar" \in GatewayFaults)
BY DEF Garbled

(* Dhan's two answers cannot be mistaken for one another, nor for anything *)
(* else that a call may end with.                                          *)
LEMMA ResponsesAreDistinct ==
  /\ Ack # Refusal
  /\ {Ack, Refusal} \cap ({HttpError} \cup Garbled) = {}
<1>1. Refusal # Json(Scalar)
  BY DEF Refusal, Json, Object, Scalar
<1>2. QED
  BY <1>1, AckVerdict, RefusalVerdict, SilentVerdicts, ScalarVerdict, GarbledValues

(* What a caller has read of an answer, read back from its verdict.        *)
LEMMA VerdictValues ==
  ASSUME NEW r \in Responses
  PROVE  /\ Verdict(r) \in Verdicts \ {"none"}
         /\ Verdict(r) = "done" <=> r = Ack
         /\ Verdict(r) = "rejected" => r = Refusal \/ "scalar" \in GatewayFaults
BY AckVerdict, RefusalVerdict, SilentVerdicts, ScalarVerdict, GarbledValues
   DEF Responses, Verdicts

(* An answer that is not an httpx error was in flight.                     *)
LEMMA HeardReply ==
  ASSUME NEW c \in Commands, NEW r \in Responses, Responded(c, r), r # HttpError
  PROVE  [by |-> c, order |-> at[c], says |-> r] \in replies
BY DEF Responded

-------------------------------------------------------------------------------
(* Each client step changes little of what TypeOK types.                   *)
LEMMA AwaitNextType ==
  ASSUME TypeOK, NEW c \in Commands, NEW orders \in SUBSET Orders, AwaitNext(c, orders)
  PROVE  /\ task' \in [Commands -> {"idle", "waiting", "ended"}]
         /\ todo' \in [Commands -> SUBSET Orders]
         /\ at' \in [Commands -> Orders]
         /\ requests' \subseteq Messages
<1>1. CASE orders = {}
  BY <1>1 DEF AwaitNext, End, TypeOK
<1>2. CASE orders # {}
  <2>1. PICK o \in orders : Await(c, o) /\ todo' = [todo EXCEPT ![c] = orders \ {o}]
    BY <1>2 DEF AwaitNext
  <2>2. Message(c, o) \in Messages
    BY DEF Message, Messages
  <2>3. QED  BY <2>1, <2>2 DEF Await, TypeOK
<1>3. QED  BY <1>1, <1>2

(* Recording a verdict keeps the type of told.                              *)
LEMMA ToldType ==
  ASSUME TypeOK, NEW c \in Commands, NEW o \in Orders, NEW verdict \in Verdicts,
         Tell(c, o, verdict)
  PROVE  told' \in [Commands -> [Orders -> Verdicts]]
BY DEF TypeOK, Tell

(* A PUT carries a value for every term, of an order that exists.           *)
LEMMA ToSendType ==
  ASSUME TypeOK, NEW m \in Modifies
  PROVE  Target[m] \in Orders /\ ToSend(m) \in [Terms -> Nat]
BY CommandsAssumption DEF ToSend, TypeOK

(* The initial state is well typed.                                         *)
LEMMA InitType == Init => TypeOK
<1> SUFFICES ASSUME Init PROVE TypeOK
  OBVIOUS
<1>1. at \in [Commands -> Orders]
  BY CommandsAssumption DEF Init, Commands
<1>2. sent \in [Modifies -> [Terms -> Nat]]
  BY CommandsAssumption DEF Init
<1>3. QED  BY <1>1, <1>2, CommandsAssumption DEF Init, TypeOK, Verdicts

(* Type correctness of the commands and of Dhan, step by step.             *)
LEMMA NextType == TypeOK /\ [Next]_vars => TypeOK'
<1> SUFFICES ASSUME TypeOK, [Next]_vars PROVE TypeOK'
  OBVIOUS
<1>1. ASSUME NEW c \in Cancels, CancelOrder(c) PROVE TypeOK'
  <2>1. c \in Commands /\ Target[c] \in Orders /\ Message(c, Target[c]) \in Messages
    BY CommandsAssumption DEF Commands, Message, Messages
  <2>2. UNCHANGED <<todo, sent, replies, known, status, terms, venue, history>>
    BY <1>1 DEF CancelOrder
  <2>3. CASE Tell(c, Target[c], "rejected") /\ End(c)
    BY <2>1, <2>2, <2>3, ToldType DEF End, TypeOK, Verdicts, venue, history
  <2>4. CASE Await(c, Target[c]) /\ UNCHANGED told
    BY <2>1, <2>2, <2>4 DEF Await, TypeOK, venue, history
  <2>5. QED  BY <1>1, <2>3, <2>4 DEF CancelOrder
<1>2. ASSUME NEW c \in Sweeps, CancelAllOrders(c) PROVE TypeOK'
  <2>1. c \in Commands /\ {o \in known : status[o] = "open"} \in SUBSET Orders
    BY DEF Commands, TypeOK
  <2>2. QED
    BY <1>2, <2>1, AwaitNextType DEF CancelAllOrders, TypeOK, engine, venue, history
<1>3. ASSUME NEW c \in Cancels \cup Sweeps, NEW r \in Responses, CancelReturns(c, r)
      PROVE  TypeOK'
  <2>1. c \in Commands /\ todo[c] \in SUBSET Orders /\ at[c] \in Orders
    BY DEF Commands, TypeOK
  <2>2. Verdict(r) \in Verdicts
    BY VerdictValues
  <2>3. QED
    BY <1>3, <2>1, <2>2, AwaitNextType DEF CancelReturns, Tell, Unheard, TypeOK, venue, history
<1>4. ASSUME NEW m \in Modifies, ModifyOrder(m) PROVE TypeOK'
  <2>1. m \in Commands /\ Message(m, Target[m]) \in Messages
    BY ToSendType DEF Commands, Message, Messages
  <2>2. UNCHANGED <<todo, replies, known, status, terms, venue, unsure>>
    BY <1>4 DEF ModifyOrder
  <2>3. CASE /\ Tell(m, Target[m], "rejected") /\ End(m)
             /\ UNCHANGED <<sent, overlapped>>
    BY <2>1, <2>2, <2>3, ToSendType, ToldType DEF End, TypeOK, Verdicts, venue
  <2>4. CASE /\ sent' = [sent EXCEPT ![m] = ToSend(m)]
             /\ Await(m, Target[m])
             /\ overlapped' = IF PutsOut(Target[m]) = {} THEN overlapped
                              ELSE overlapped \cup {Target[m]}
             /\ UNCHANGED told
    <3>1. sent' \in [Modifies -> [Terms -> Nat]]
      BY <2>4, ToSendType DEF TypeOK
    <3>2. overlapped' \subseteq Orders
      BY <2>4, ToSendType DEF TypeOK
    <3>3. QED  BY <2>1, <2>2, <2>4, <3>1, <3>2, ToSendType DEF Await, TypeOK, venue
  <2>5. QED  BY <1>4, <2>3, <2>4 DEF ModifyOrder
<1>5. ASSUME NEW m \in Modifies, NEW r \in Responses, ModifyReturns(m, r)
      PROVE  TypeOK'
  <2>1. m \in Commands /\ Target[m] \in Orders
    BY CommandsAssumption DEF Commands
  <2>2. Verdict(r) \in Verdicts
    BY VerdictValues
  <2>3. Updated(m) \in [Terms -> Nat]
    BY <2>1 DEF Updated, TypeOK, Terms
  <2>4. QED
    BY <1>5, <2>1, <2>2, <2>3 DEF ModifyReturns, Tell, End, Unheard, TypeOK, venue
<1>6. ASSUME NEW o \in Orders, EngineHears(o) \/ BookMoves(o) PROVE TypeOK'
  <2>1. CASE EngineHears(o)
    BY <2>1 DEF EngineHears, TypeOK, venue, history
  <2>2. CASE BookMoves(o)
    <3>1. book' \in [Orders -> {"TRANSIT", "PENDING", "TRADED", "CANCELLED"}]
      BY <2>2 DEF BookMoves, TypeOK
    <3>2. QED  BY <2>2, <3>1 DEF BookMoves, TypeOK, engine, history
  <2>3. QED  BY <1>6, <2>1, <2>2
<1>7. ASSUME NEW request \in Messages, Arrives(request) PROVE TypeOK'
  <2>1. request.by \in Commands /\ request.order \in Orders
    BY DEF Messages
  <2>2. {Ack, Refusal} \cup Garbled \subseteq Responses
    BY DEF Responses
  <2>3. replies' \subseteq [by : Commands, order : Orders, says : Responses]
    BY <1>7, <2>1, <2>2 DEF Arrives, TypeOK
  <2>4. book' \in [Orders -> {"TRANSIT", "PENDING", "TRADED", "CANCELLED"}]
    BY <1>7, <2>1 DEF Arrives, TypeOK, venue
  <2>5. inForce' \in [Orders -> [Terms -> Nat]]
    BY <1>7, <2>1 DEF Arrives, TypeOK, venue
  <2>6. applied' \subseteq Messages /\ requests' \subseteq Messages
    BY <1>7 DEF Arrives, TypeOK, venue
  <2>7. UNCHANGED <<task, todo, at, sent, engine, history>>
    BY <1>7 DEF Arrives
  <2>8. QED
    BY <2>3, <2>4, <2>5, <2>6, <2>7 DEF TypeOK, engine, history
<1>8. CASE UNCHANGED vars
  BY <1>8 DEF vars, TypeOK
<1>9. QED
  BY <1>1, <1>2, <1>3, <1>4, <1>5, <1>6, <1>7, <1>8 DEF Next, Begin, Return

(* Every variable keeps its type, whatever the commands.                   *)
THEOREM TypeCorrect == Spec => []TypeOK
BY InitType, NextType, PTL DEF Spec

-------------------------------------------------------------------------------
(* Requests are told apart by who sent them and about what.                *)
LEMMA MessageFields ==
  /\ \A c, d, o, p : Message(c, o) = Message(d, p) => c = d /\ o = p
  /\ \A c, o : Message(c, o).by = c /\ Message(c, o).order = o
  /\ \A request \in Messages : /\ request.by \in Commands
                               /\ request.order \in Orders
                               /\ request = Message(request.by, request.order)
<1>1. \A c, o : Message(c, o).by = c /\ Message(c, o).order = o
  BY DEF Message
<1>2. \A request \in Messages : /\ request.by \in Commands
                                /\ request.order \in Orders
                                /\ request = Message(request.by, request.order)
  BY DEF Message, Messages
<1>3. QED  BY <1>1, <1>2

(* What RequestInv says of a command that is about to send.                *)
Unsent(c, o) == told[c][o] = "none" /\ Message(c, o) \notin requests \cup applied

(* A command that waits about one more order, or ends: its requests.       *)
LEMMA AwaitNextKeeps ==
  ASSUME Core, NEW c \in Cancels \cup Sweeps, NEW orders \in SUBSET Orders,
         \A o \in orders : Unsent(c, o),
         c \notin Sweeps => orders = {},
         orders = {} => todo[c] = {},
         AwaitNext(c, orders),
         replies' = Unheard(c), UNCHANGED <<applied, book>>
  PROVE  /\ TargetInv'
         /\ requests' \cap applied' = {}
         /\ \A reply \in replies' :
              /\ task'[reply.by] = "waiting" /\ at'[reply.by] = reply.order
              /\ Message(reply.by, reply.order) \notin requests'
         /\ task'[c] # "idle"
         /\ \A o \in todo'[c] : o \in orders /\ Message(c, o) \notin requests'
         /\ \A d \in Commands \ {c} : task'[d] = task[d] /\ todo'[d] = todo[d]
         /\ \A d \in Commands, o \in Orders : Message(d, o) \in requests' =>
              Message(d, o) \in requests \/ (d = c /\ o \in orders)
<1>1. c \in Commands /\ c \notin Modifies
  BY CommandsAssumption DEF Commands
<1>2. \A reply \in replies' : reply \in replies /\ reply.by # c
                             /\ reply.by \in Commands /\ reply.order \in Orders
  BY DEF Unheard, Core, TypeOK
<1>3. CASE orders = {}
  <2>1. /\ task' = [task EXCEPT ![c] = "ended"]
        /\ UNCHANGED <<at, requests, todo>>
    BY <1>3 DEF AwaitNext, End
  <2>2. /\ task'[c] = "ended"
        /\ \A d \in Commands \ {c} : task'[d] = task[d]
    BY <1>1, <2>1 DEF Core, TypeOK
  <2>3. TargetInv'
    BY <1>3, <2>1, <2>2 DEF Core, TargetInv
  <2>4. todo[c] = {}
    BY <1>3
  <2>5. \A reply \in replies' :
           /\ task'[reply.by] = "waiting" /\ at'[reply.by] = reply.order
           /\ Message(reply.by, reply.order) \notin requests'
    BY <1>2, <2>1, <2>2 DEF Core, RequestInv
  <2>6. QED
    BY <1>1, <2>1, <2>2, <2>3, <2>4, <2>5 DEF Core, RequestInv
<1>4. CASE orders # {}
  <2>1. PICK o \in orders : Await(c, o) /\ todo' = [todo EXCEPT ![c] = orders \ {o}]
    BY <1>4 DEF AwaitNext
  <2>2. /\ task' = [task EXCEPT ![c] = "waiting"]
        /\ at' = [at EXCEPT ![c] = o]
        /\ requests' = requests \cup {Message(c, o)}
    BY <2>1 DEF Await
  <2>3. TargetInv'
    <3>1. \A d \in Commands :
            /\ at'[d] \notin todo'[d]
            /\ d \notin Sweeps => at'[d] = Target[d]
            /\ d \notin Sweeps \/ task'[d] = "idle" => todo'[d] = {}
      BY <1>1, <2>1, <2>2 DEF Core, TypeOK, TargetInv
    <3>2. \A request \in requests' :
            request.by \notin Sweeps => request.order = Target[request.by]
      BY <2>2, MessageFields DEF Core, TargetInv
    <3>3. QED  BY <3>1, <3>2 DEF TargetInv
  <2>4. requests' \cap applied' = {}
    BY <2>2 DEF Unsent, Core, RequestInv
  <2>5. ASSUME NEW reply \in replies'
        PROVE  /\ task'[reply.by] = "waiting" /\ at'[reply.by] = reply.order
               /\ Message(reply.by, reply.order) \notin requests'
    BY <1>2, <2>2, MessageFields DEF Core, RequestInv, TypeOK
  <2>6. \A p \in todo'[c] : p \in orders /\ Message(c, p) \notin requests'
    BY <1>1, <2>1, <2>2, MessageFields DEF Unsent, Core, TypeOK
  <2>7. /\ task'[c] # "idle"
        /\ \A d \in Commands \ {c} : task'[d] = task[d] /\ todo'[d] = todo[d]
    BY <1>1, <2>1, <2>2 DEF Core, TypeOK
  <2>8. \A d \in Commands, p \in Orders : Message(d, p) \in requests' =>
              Message(d, p) \in requests \/ (d = c /\ p \in orders)
    BY <2>1, <2>2, MessageFields
  <2>9. QED  BY <2>3, <2>4, <2>5, <2>6, <2>7, <2>8
<1>5. QED  BY <1>3, <1>4

(* A cancel of one order: known orders only are sent for.                  *)
LEMMA CancelOrderKeepsCore ==
  ASSUME Core, TypeOK', NEW c \in Cancels, CancelOrder(c)
  PROVE  Core'
<1> DEFINE o == Target[c]
<1>1. /\ c \in Commands /\ c \notin Sweeps /\ c \notin Modifies /\ o \in Orders
      /\ task[c] = "idle" /\ todo[c] = {}
  BY CommandsAssumption DEF Commands, CancelOrder, Core, TargetInv
<1>2. UNCHANGED <<todo, sent, replies, known, status, terms, venue, history>>
  BY DEF CancelOrder
<1>3. /\ \A p \in Orders : Unsent(c, p)
      /\ \A reply \in replies : reply.by # c
  BY <1>1 DEF Core, RequestInv, Unsent
<1>4. CanceledIsDead'
  BY <1>2 DEF Core, CanceledIsDead, venue
<1>5. CASE Tell(c, o, "rejected") /\ End(c)
  <2>1. TargetInv'
    BY <1>1, <1>2, <1>5 DEF End, Core, TypeOK, TargetInv
  <2>2. RequestInv'
    BY <1>1, <1>2, <1>3, <1>5 DEF End, Tell, Core, TypeOK, RequestInv, venue
  <2>3. RejectionInv'
    BY <1>1, <1>2, <1>3, <1>5 DEF End, Tell, Unsent, Core, TypeOK, RejectionInv, RejectedDidNothing, venue
  <2>4. QED  BY <1>4, <2>1, <2>2, <2>3 DEF Core
<1>6. CASE Await(c, o) /\ UNCHANGED told
  <2>1. TargetInv'
    BY <1>1, <1>2, <1>6, MessageFields DEF Await, Core, TypeOK, TargetInv
  <2>2. RequestInv'
    BY <1>1, <1>2, <1>3, <1>6, MessageFields
       DEF Await, Unsent, Core, TypeOK, RequestInv, venue
  <2>3. RejectionInv'
    BY <1>1, <1>2, <1>3, <1>6, MessageFields
       DEF Await, Unsent, Core, TypeOK, RejectionInv, RejectedDidNothing, venue
  <2>4. QED  BY <1>4, <2>1, <2>2, <2>3 DEF Core
<1>7. QED  BY <1>5, <1>6 DEF CancelOrder

(* A sweep sets out: it has sent nothing before.                           *)
LEMMA CancelAllOrdersKeepsCore ==
  ASSUME Core, TypeOK', NEW c \in Sweeps, CancelAllOrders(c)
  PROVE  Core'
<1> DEFINE orders == {o \in known : status[o] = "open"}
<1>1. /\ c \in Commands /\ task[c] = "idle" /\ todo[c] = {}
      /\ orders \in SUBSET Orders /\ AwaitNext(c, orders)
      /\ UNCHANGED <<sent, replies, engine, venue, history>>
  BY DEF Commands, CancelAllOrders, Core, TypeOK, TargetInv
<1>2. /\ \A p \in Orders : Unsent(c, p)
      /\ replies' = Unheard(c)
  BY <1>1 DEF Core, RequestInv, Unsent, Unheard
<1> HIDE DEF orders
<1>3. /\ TargetInv'
      /\ requests' \cap applied' = {}
      /\ \A reply \in replies' :
           /\ task'[reply.by] = "waiting" /\ at'[reply.by] = reply.order
           /\ Message(reply.by, reply.order) \notin requests'
      /\ task'[c] # "idle"
      /\ \A o \in todo'[c] : o \in orders /\ Message(c, o) \notin requests'
      /\ \A d \in Commands \ {c} : task'[d] = task[d] /\ todo'[d] = todo[d]
      /\ \A d \in Commands, o \in Orders : Message(d, o) \in requests' =>
           Message(d, o) \in requests \/ (d = c /\ o \in orders)
  BY <1>1, <1>2, AwaitNextKeeps DEF venue
<1>4. RequestInv'
  <2>1. \A reply \in replies' :
           /\ reply.says = Refusal => Message(reply.by, reply.order) \notin applied'
           /\ reply.says = Ack /\ reply.by \notin Modifies => book'[reply.order] = "CANCELLED"
    BY <1>1 DEF Core, RequestInv, venue
  <2>2. \A d \in Commands, o \in Orders :
          task'[d] = "idle" \/ o \in todo'[d] =>
            told'[d][o] = "none" /\ Message(d, o) \notin requests' \cup applied'
    <3> SUFFICES ASSUME NEW d \in Commands, NEW o \in Orders,
                        task'[d] = "idle" \/ o \in todo'[d]
                 PROVE  told'[d][o] = "none" /\ Message(d, o) \notin requests' \cup applied'
      OBVIOUS
    <3>1. CASE d = c
      BY <1>1, <1>2, <1>3, <3>1 DEF Unsent, engine, venue
    <3>2. CASE d # c
      BY <1>1, <1>3, <3>2 DEF Core, RequestInv, engine, venue
    <3>3. QED  BY <3>1, <3>2
  <2>3. QED  BY <1>3, <2>1, <2>2 DEF RequestInv
<1>5. RejectionInv'
  BY <1>1, <1>2, <1>3 DEF Unsent, Core, RejectionInv, RejectedDidNothing, engine, venue
<1>6. CanceledIsDead'
  BY <1>1 DEF Core, CanceledIsDead, engine, venue
<1>7. QED  BY <1>3, <1>4, <1>5, <1>6 DEF Core

(* What an answer allows to be said of the order it is about.              *)
LEMMA AnswerMeans ==
  ASSUME Core, NEW c \in Commands, NEW r \in Responses, Responded(c, r)
  PROVE  /\ at[c] \in Orders
         /\ Verdict(r) = "rejected" =>
              Message(c, at[c]) \notin requests \cup applied \/ "scalar" \in GatewayFaults
         /\ Verdict(r) = "done" /\ c \notin Modifies => book[at[c]] = "CANCELLED"
<1>1. at[c] \in Orders
  BY DEF Core, TypeOK
<1>2. ASSUME r # HttpError
      PROVE  [by |-> c, order |-> at[c], says |-> r] \in replies
  BY <1>2, HeardReply
<1>3. CASE r = HttpError
  BY <1>1, <1>3, SilentVerdicts
<1>4. CASE r # HttpError
  <2> DEFINE reply == [by |-> c, order |-> at[c], says |-> r]
  <2>1. reply \in replies /\ reply.by = c /\ reply.order = at[c] /\ reply.says = r
    BY <1>2, <1>4
  <2>2. QED  BY <1>1, <2>1, VerdictValues DEF Core, RequestInv
<1>5. QED  BY <1>3, <1>4

(* The end of one DELETE: the verdict is on the order it was about, and a  *)
(* sweep goes on to orders it has said nothing of.                         *)
LEMMA CancelReturnsKeepsCore ==
  ASSUME Core, TypeOK', NEW c \in Cancels \cup Sweeps, NEW r \in Responses,
         CancelReturns(c, r)
  PROVE  Core'
<1>1. /\ c \in Commands /\ c \notin Modifies /\ at[c] \in Orders
      /\ Responded(c, r) /\ task[c] = "waiting" /\ todo[c] \in SUBSET Orders
      /\ at[c] \notin todo[c]
  BY CommandsAssumption DEF Commands, CancelReturns, Responded, Core, TypeOK, TargetInv
<1>2. /\ AwaitNext(c, todo[c]) /\ replies' = Unheard(c)
      /\ Tell(c, at[c], Verdict(r))
      /\ UNCHANGED <<sent, known, terms, venue, history>>
      /\ status' = IF Verdict(r) = "done" /\ status[at[c]] = "open"
                   THEN [status EXCEPT ![at[c]] = "canceled"] ELSE status
  BY DEF CancelReturns
<1>3. \A o \in todo[c] : Unsent(c, o)
  BY <1>1 DEF Core, RequestInv, Unsent
<1>4. c \notin Sweeps => todo[c] = {}
  BY <1>1 DEF Core, TargetInv
<1>5. /\ TargetInv'
      /\ requests' \cap applied' = {}
      /\ \A reply \in replies' :
           /\ task'[reply.by] = "waiting" /\ at'[reply.by] = reply.order
           /\ Message(reply.by, reply.order) \notin requests'
      /\ task'[c] # "idle"
      /\ \A o \in todo'[c] : o \in todo[c] /\ Message(c, o) \notin requests'
      /\ \A d \in Commands \ {c} : task'[d] = task[d] /\ todo'[d] = todo[d]
      /\ \A d \in Commands, o \in Orders : Message(d, o) \in requests' =>
           Message(d, o) \in requests \/ (d = c /\ o \in todo[c])
  BY <1>1, <1>2, <1>3, <1>4, AwaitNextKeeps DEF venue
<1>6. /\ \A d \in Commands \ {c} : told'[d] = told[d]
      /\ \A o \in Orders \ {at[c]} : told'[c][o] = told[c][o]
      /\ told'[c][at[c]] = Verdict(r)
      /\ applied' = applied /\ book' = book
  BY <1>1, <1>2 DEF Tell, Core, TypeOK, venue
<1>7. RequestInv'
  <2>1. \A reply \in replies' :
           /\ reply.says = Refusal => Message(reply.by, reply.order) \notin applied'
           /\ reply.says = Ack /\ reply.by \notin Modifies => book'[reply.order] = "CANCELLED"
    BY <1>2, <1>6 DEF Unheard, Core, RequestInv
  <2>2. \A d \in Commands, o \in Orders :
          task'[d] = "idle" \/ o \in todo'[d] =>
            told'[d][o] = "none" /\ Message(d, o) \notin requests' \cup applied'
    <3> SUFFICES ASSUME NEW d \in Commands, NEW o \in Orders,
                        task'[d] = "idle" \/ o \in todo'[d]
                 PROVE  told'[d][o] = "none" /\ Message(d, o) \notin requests' \cup applied'
      OBVIOUS
    <3>1. CASE d = c
      BY <1>1, <1>3, <1>5, <1>6, <3>1 DEF Unsent
    <3>2. CASE d # c
      BY <1>5, <1>6, <3>2 DEF Core, RequestInv
    <3>3. QED  BY <3>1, <3>2
  <2>3. QED  BY <1>5, <2>1, <2>2 DEF RequestInv
<1>8. RejectionInv'
  <2> SUFFICES ASSUME NEW d \in Commands, NEW o \in Orders, told'[d][o] = "rejected",
                      "scalar" \notin GatewayFaults
               PROVE  Message(d, o) \notin requests' \cup applied'
    BY DEF RejectionInv, RejectedDidNothing
  <2>1. CASE d = c /\ o = at[c]
    BY <1>1, <1>5, <1>6, <2>1, AnswerMeans
  <2>2. CASE ~(d = c /\ o = at[c])
    <3>1. told[d][o] = "rejected"
      BY <1>6, <2>2
    <3>2. ~(d = c /\ o \in todo[c])
      BY <1>3, <3>1 DEF Unsent
    <3>3. QED  BY <1>5, <1>6, <3>1, <3>2 DEF Core, RejectionInv, RejectedDidNothing
  <2>3. QED  BY <2>1, <2>2
<1>9. CanceledIsDead'
  <2> SUFFICES ASSUME NEW o \in Orders, status'[o] = "canceled"
               PROVE  book'[o] = "CANCELLED"
    BY DEF CanceledIsDead
  <2>1. CASE status[o] = "canceled"
    BY <1>6, <2>1 DEF Core, CanceledIsDead
  <2>2. CASE status[o] # "canceled"
    <3>1. o = at[c] /\ Verdict(r) = "done"
      BY <1>1, <1>2, <2>2 DEF Core, TypeOK
    <3>2. QED  BY <1>1, <1>6, <3>1, AnswerMeans
  <2>3. QED  BY <2>1, <2>2
<1>10. QED  BY <1>5, <1>7, <1>8, <1>9 DEF Core

(* A modify sets out with every term, or is turned down unsent.            *)
LEMMA ModifyOrderKeepsCore ==
  ASSUME Core, TypeOK', NEW m \in Modifies, ModifyOrder(m)
  PROVE  Core'
<1> DEFINE o == Target[m]
<1>1. /\ m \in Commands /\ m \notin Sweeps /\ o \in Orders
      /\ task[m] = "idle" /\ todo[m] = {}
  BY CommandsAssumption DEF Commands, ModifyOrder, Core, TargetInv
<1>2. UNCHANGED <<todo, replies, known, status, terms, venue, unsure>>
  BY DEF ModifyOrder
<1>3. /\ \A p \in Orders : Unsent(m, p)
      /\ \A reply \in replies : reply.by # m
  BY <1>1 DEF Core, RequestInv, Unsent
<1>4. CanceledIsDead'
  BY <1>2 DEF Core, CanceledIsDead, venue
<1>5. CASE Tell(m, o, "rejected") /\ End(m)
  <2>1. TargetInv'
    BY <1>1, <1>2, <1>5 DEF End, Core, TypeOK, TargetInv
  <2>2. RequestInv'
    BY <1>1, <1>2, <1>3, <1>5 DEF End, Tell, Core, TypeOK, RequestInv, venue
  <2>3. RejectionInv'
    BY <1>1, <1>2, <1>3, <1>5 DEF End, Tell, Unsent, Core, TypeOK, RejectionInv, RejectedDidNothing, venue
  <2>4. QED  BY <1>4, <2>1, <2>2, <2>3 DEF Core
<1>6. CASE Await(m, o) /\ UNCHANGED told
  <2>1. TargetInv'
    BY <1>1, <1>2, <1>6, MessageFields DEF Await, Core, TypeOK, TargetInv
  <2>2. RequestInv'
    BY <1>1, <1>2, <1>3, <1>6, MessageFields
       DEF Await, Unsent, Core, TypeOK, RequestInv, venue
  <2>3. RejectionInv'
    BY <1>1, <1>2, <1>3, <1>6, MessageFields
       DEF Await, Unsent, Core, TypeOK, RejectionInv, RejectedDidNothing, venue
  <2>4. QED  BY <1>4, <2>1, <2>2, <2>3 DEF Core
<1>7. QED  BY <1>5, <1>6 DEF ModifyOrder

(* The end of a PUT.                                                       *)
LEMMA ModifyReturnsKeepsCore ==
  ASSUME Core, TypeOK', NEW m \in Modifies, NEW r \in Responses, ModifyReturns(m, r)
  PROVE  Core'
<1>1. /\ m \in Commands /\ m \notin Sweeps /\ Responded(m, r) /\ task[m] = "waiting"
      /\ at[m] = Target[m] /\ at[m] \in Orders /\ todo[m] = {}
  BY CommandsAssumption DEF Commands, ModifyReturns, Responded, Core, TypeOK, TargetInv
<1>2. /\ Tell(m, at[m], Verdict(r)) /\ End(m) /\ replies' = Unheard(m)
      /\ UNCHANGED <<todo, sent, known, status, venue, overlapped>>
  BY <1>1 DEF ModifyReturns
<1>3. /\ \A d \in Commands \ {m} : told'[d] = told[d] /\ task'[d] = task[d]
      /\ \A o \in Orders \ {at[m]} : told'[m][o] = told[m][o]
      /\ told'[m][at[m]] = Verdict(r) /\ task'[m] = "ended"
      /\ UNCHANGED <<requests, applied, book, status, todo, at>>
  BY <1>1, <1>2 DEF Tell, End, Core, TypeOK, venue
<1>4. TargetInv'
  BY <1>3 DEF Core, TargetInv
<1>5. RequestInv'
  <2>1. \A reply \in replies' : reply \in replies /\ reply.by \in Commands \ {m}
    BY <1>2 DEF Unheard, Core, TypeOK
  <2>2. \A reply \in replies' :
          /\ task'[reply.by] = "waiting" /\ at'[reply.by] = reply.order
          /\ Message(reply.by, reply.order) \notin requests'
          /\ reply.says = Refusal => Message(reply.by, reply.order) \notin applied'
          /\ reply.says = Ack /\ reply.by \notin Modifies => book'[reply.order] = "CANCELLED"
    BY <1>3, <2>1 DEF Core, RequestInv
  <2>3. \A d \in Commands, p \in Orders :
          task'[d] = "idle" \/ p \in todo'[d] =>
            told'[d][p] = "none" /\ Message(d, p) \notin requests' \cup applied'
    BY <1>1, <1>3 DEF Core, RequestInv
  <2>4. QED  BY <1>3, <2>2, <2>3 DEF Core, RequestInv
<1>6. RejectionInv'
  BY <1>1, <1>3, AnswerMeans DEF Core, RejectionInv, RejectedDidNothing
<1>7. CanceledIsDead'
  BY <1>3 DEF Core, CanceledIsDead
<1>8. QED  BY <1>4, <1>5, <1>6, <1>7 DEF Core

(* What the engine hears and how Dhan's book moves: no canceled order lives. *)
LEMMA OutsideKeepsCore ==
  ASSUME Core, TypeOK', NEW o \in Orders, EngineHears(o) \/ BookMoves(o)
  PROVE  Core'
<1>1. UNCHANGED <<task, todo, at, requests, replies, told, applied>>
  BY DEF EngineHears, BookMoves, engine, venue
<1>2. \A p \in Orders : book[p] = "CANCELLED" => book'[p] = "CANCELLED"
  BY DEF EngineHears, BookMoves, venue, Core, TypeOK
<1>3. \A p \in Orders : status'[p] = "canceled" => status[p] = "canceled"
  BY DEF EngineHears, BookMoves, engine, Core, TypeOK
<1>4. TargetInv' /\ RejectionInv' /\ CanceledIsDead'
  BY <1>1, <1>2, <1>3 DEF Core, TargetInv, RejectionInv, RejectedDidNothing, CanceledIsDead
<1>5. RequestInv'
  BY <1>1, <1>2 DEF Core, TypeOK, RequestInv
<1>6. QED  BY <1>4, <1>5 DEF Core

(* A request is taken off the network, and answered by what became of it.  *)
LEMMA ArrivesKeepsCore ==
  ASSUME Core, TypeOK', NEW request \in Messages, Arrives(request)
  PROVE  Core'
<1> DEFINE c == request.by
           o == request.order
<1>1. /\ c \in Commands /\ o \in Orders /\ request = Message(c, o)
      /\ request \in requests /\ request \notin applied
      /\ requests' = requests \ {request}
      /\ UNCHANGED <<task, todo, at, told, status>>
  BY MessageFields DEF Arrives, engine, Core, RequestInv
<1>2. /\ applied' \in {applied, applied \cup {request}}
      /\ \A p \in Orders : book[p] = "CANCELLED" => book'[p] = "CANCELLED"
  BY <1>1 DEF Arrives, venue, Core, TypeOK
<1>3. \A reply \in replies' \ replies :
        /\ reply.by = c /\ reply.order = o /\ task[c] = "waiting" /\ at[c] = o
        /\ reply.says = Refusal => applied' = applied
        /\ reply.says = Ack /\ c \notin Modifies => book'[o] = "CANCELLED"
  BY <1>1, ResponsesAreDistinct DEF Arrives, venue, Core, TypeOK
<1>4. /\ ~(task[c] = "idle" \/ o \in todo[c])
      /\ told[c][o] # "rejected" \/ "scalar" \in GatewayFaults
  BY <1>1 DEF Core, RequestInv, RejectionInv, RejectedDidNothing
<1>5. TargetInv'
  BY <1>1 DEF Core, TargetInv
<1>6. RequestInv'
  <2>1. requests' \cap applied' = {}
    BY <1>1, <1>2 DEF Core, RequestInv
  <2>2. \A reply \in replies' :
          /\ task'[reply.by] = "waiting" /\ at'[reply.by] = reply.order
          /\ Message(reply.by, reply.order) \notin requests'
          /\ reply.says = Refusal => Message(reply.by, reply.order) \notin applied'
          /\ reply.says = Ack /\ reply.by \notin Modifies => book'[reply.order] = "CANCELLED"
    <3> SUFFICES ASSUME NEW reply \in replies'
                 PROVE  /\ task'[reply.by] = "waiting" /\ at'[reply.by] = reply.order
                        /\ Message(reply.by, reply.order) \notin requests'
                        /\ reply.says = Refusal => Message(reply.by, reply.order) \notin applied'
                        /\ reply.says = Ack /\ reply.by \notin Modifies
                             => book'[reply.order] = "CANCELLED"
      OBVIOUS
    <3>1. CASE reply \in replies
      <4>1. Message(reply.by, reply.order) # request /\ reply.order \in Orders
        BY <1>1, <3>1 DEF Core, TypeOK, RequestInv
      <4>2. QED  BY <1>1, <1>2, <3>1, <4>1 DEF Core, RequestInv
    <3>2. CASE reply \notin replies
      BY <1>1, <1>3, <3>2
    <3>3. QED  BY <3>1, <3>2
  <2>3. \A d \in Commands, p \in Orders :
          task'[d] = "idle" \/ p \in todo'[d] =>
            told'[d][p] = "none" /\ Message(d, p) \notin requests' \cup applied'
    BY <1>1, <1>2, <1>4, MessageFields DEF Core, RequestInv
  <2>4. QED  BY <2>1, <2>2, <2>3 DEF RequestInv
<1>7. RejectionInv'
  BY <1>1, <1>2, <1>4, MessageFields DEF Core, RejectionInv, RejectedDidNothing
<1>8. CanceledIsDead'
  BY <1>1, <1>2 DEF Core, CanceledIsDead
<1>9. QED  BY <1>5, <1>6, <1>7, <1>8 DEF Core

(* Nothing sent, nothing answered, nothing told.                            *)
LEMMA InitCore == Init => Core
<1> SUFFICES ASSUME Init PROVE Core
  OBVIOUS
<1>1. TypeOK
  BY InitType
<1>2. TargetInv
  BY CommandsAssumption DEF Init, TargetInv, Commands
<1>3. RequestInv /\ CanceledIsDead /\ RejectionInv
  BY DEF Init, RequestInv, CanceledIsDead, RejectionInv, RejectedDidNothing
<1>4. QED  BY <1>1, <1>2, <1>3 DEF Core

(* Every step keeps the part about requests and verdicts.                   *)
LEMMA NextCore == Core /\ [Next]_vars => Core'
<1> SUFFICES ASSUME Core, [Next]_vars PROVE Core'
  OBVIOUS
<1>1. TypeOK'
  BY NextType DEF Core
<1>2. CASE UNCHANGED vars
  BY <1>1, <1>2 DEF vars, Core, TargetInv, RequestInv, CanceledIsDead, RejectionInv, RejectedDidNothing
<1>3. ASSUME NEW c \in Commands, Begin(c) \/ Return(c) PROVE Core'
  BY <1>1, <1>3, CancelOrderKeepsCore, CancelAllOrdersKeepsCore, ModifyOrderKeepsCore,
     CancelReturnsKeepsCore, ModifyReturnsKeepsCore DEF Begin, Return
<1>4. QED
  BY <1>1, <1>2, <1>3, OutsideKeepsCore, ArrivesKeepsCore DEF Next

(* Requests and verdicts fit together in every state.                       *)
LEMMA CoreHolds == Spec => []Core
BY InitCore, NextCore, PTL DEF Spec

(* An order the engine holds for canceled is canceled at Dhan: no lost     *)
(* answer, overtaken sweep or late fill makes the client forget an order   *)
(* that lives.                                                             *)
THEOREM CanceledOrderIsDead == Spec => []CanceledIsDead
<1>1. Core => CanceledIsDead
  BY DEF Core
<1>2. QED  BY <1>1, CoreHolds, PTL

(* A rejection of a cancel or of a modify is about a request that never    *)
(* took effect and is not on its way -- where no JSON scalar stands in for *)
(* Dhan's answer, which the code takes for a refusal.                      *)
THEOREM RejectionIsFinal ==
  ASSUME "scalar" \notin GatewayFaults
  PROVE  Spec => []RejectedDidNothing
<1>1. Core => RejectedDidNothing
  BY DEF Core, RejectionInv
<1>2. QED  BY <1>1, CoreHolds, PTL

-------------------------------------------------------------------------------
(* A step that leaves an order's terms, and its PUTs, as they are.         *)
LEMMA TermsFrame ==
  ASSUME NEW o \in Orders, TermsOf(o),
         terms'[o] = terms[o], inForce'[o] = inForce[o],
         status'[o] = "open" => status[o] = "open",
         \A m \in Modifies : Target[m] = o =>
           /\ sent'[m] = sent[m]
           /\ m \in PutsOut(o)' <=> m \in PutsOut(o)
           /\ m \in PutsOut(o) => task'[m] = task[m]
           /\ Message(m, o) \in requests' <=> Message(m, o) \in requests,
         \A reply \in replies' : reply \in replies \/ reply.by \notin PutsOut(o)
  PROVE  TermsOf(o)'
<1>1. PutsOut(o)' = PutsOut(o) /\ \A m \in PutsOut(o) : m \in Modifies /\ Target[m] = o
  BY DEF PutsOut
<1>2. Agree(o) => Agree(o)'
  BY DEF Agree
<1>3. \A m, n \in PutsOut(o)' : m = n
  BY <1>1 DEF TermsOf
<1>4. \A m \in PutsOut(o)' : task'[m] = "waiting"
  BY <1>1 DEF TermsOf
<1>5. ASSUME status'[o] = "open"
      PROVE  /\ PutsOut(o)' = {} => Agree(o)'
             /\ \A m \in PutsOut(o)' : Message(m, o) \in requests' => Agree(o)'
             /\ \A reply \in replies' : reply.by \in PutsOut(o)' =>
                  /\ reply.says = Ack => inForce'[o] = sent'[reply.by]
                  /\ reply.says = Refusal => Agree(o)'
  BY <1>1, <1>2, <1>5 DEF TermsOf
<1>6. QED  BY <1>3, <1>4, <1>5 DEF TermsOf

(* No PUT begins, ends or arrives.                                         *)
LEMMA NoPutFrame ==
  ASSUME NEW o \in Orders, TermsOf(o),
         UNCHANGED <<terms, inForce, sent>>,
         status'[o] = "open" => status[o] = "open",
         \A m \in Modifies : /\ task'[m] = task[m]
                             /\ Message(m, o) \in requests' <=> Message(m, o) \in requests,
         \A reply \in replies' : reply \in replies \/ reply.by \notin Modifies
  PROVE  TermsOf(o)'
<1>1. \A m \in Modifies : m \in PutsOut(o)' <=> m \in PutsOut(o)
  BY DEF PutsOut
<1>2. \A m \in PutsOut(o) : m \in Modifies
  BY DEF PutsOut
<1>3. QED  BY <1>1, <1>2, TermsFrame

(* A DELETE disturbs no order's terms.                                      *)
LEMMA CancelsKeepTerms ==
  ASSUME Core, NEW o \in Orders, TermsOf(o), NEW c \in Cancels \cup Sweeps,
         CancelOrder(c) \/ CancelAllOrders(c) \/ \E r \in Responses : CancelReturns(c, r)
  PROVE  TermsOf(o)'
<1>1. c \in Commands /\ c \notin Modifies
  BY CommandsAssumption DEF Commands
<1>2. ASSUME NEW p, Await(c, p)
      PROVE  /\ \A m \in Modifies : task'[m] = task[m]
             /\ \A m \in Modifies : Message(m, o) \in requests' <=> Message(m, o) \in requests
  BY <1>1, <1>2, MessageFields DEF Await, Core, TypeOK, Commands
<1>3. ASSUME End(c)
      PROVE  /\ \A m \in Modifies : task'[m] = task[m]
             /\ \A m \in Modifies : Message(m, o) \in requests' <=> Message(m, o) \in requests
  BY <1>1, <1>3 DEF End, Core, TypeOK, Commands
<1>4. /\ \A m \in Modifies : task'[m] = task[m]
      /\ \A m \in Modifies : Message(m, o) \in requests' <=> Message(m, o) \in requests
  BY <1>2, <1>3 DEF CancelOrder, CancelAllOrders, CancelReturns, AwaitNext
<1>5. UNCHANGED <<terms, inForce, sent>> /\ replies' \subseteq replies
  BY DEF CancelOrder, CancelAllOrders, CancelReturns, Unheard, engine, venue
<1>6. status'[o] = "open" => status[o] = "open"
  BY DEF CancelOrder, CancelAllOrders, CancelReturns, engine, Core, TypeOK
<1>7. QED  BY <1>4, <1>5, <1>6, NoPutFrame

(* Neither do the engine's news nor the moves of Dhan's book.               *)
LEMMA OutsideKeepsTerms ==
  ASSUME Core, NEW o \in Orders, TermsOf(o), NEW p \in Orders,
         EngineHears(p) \/ BookMoves(p)
  PROVE  TermsOf(o)'
<1>1. UNCHANGED <<terms, inForce, sent, task, requests, replies>>
  BY DEF EngineHears, BookMoves, engine, venue
<1>2. status'[o] = "open" => status[o] = "open"
  BY DEF EngineHears, BookMoves, engine, Core, TypeOK
<1>3. QED  BY <1>1, <1>2, NoPutFrame

(* A PUT that is the only one of its order leaves with the terms agreed.   *)
LEMMA ModifyOrderKeepsTerms ==
  ASSUME Core, NEW o \in Orders \ (overlapped' \cup unsure'), TermsOf(o),
         NEW m \in Modifies, ModifyOrder(m)
  PROVE  TermsOf(o)'
<1>1. /\ m \in Commands /\ task[m] = "idle" /\ Target[m] \in Orders
      /\ \A p \in Orders : Message(m, p) \notin requests
      /\ \A reply \in replies : reply.by # m
      /\ UNCHANGED <<replies, status, terms, inForce>>
  BY CommandsAssumption DEF ModifyOrder, Commands, Core, RequestInv, venue
<1>2. m \notin PutsOut(o)
  BY <1>1 DEF PutsOut
<1>3. \A n \in PutsOut(o) : n \in Modifies
  BY DEF PutsOut
<1>4. CASE End(m) /\ UNCHANGED <<sent, overlapped>>
  <2>1. /\ task'[m] = "ended" /\ \A n \in Modifies \ {m} : task'[n] = task[n]
        /\ requests' = requests
    BY <1>1, <1>4 DEF End, Core, TypeOK, Commands
  <2>2. \A n \in Modifies : n \in PutsOut(o)' <=> n \in PutsOut(o)
    BY <1>1, <2>1 DEF PutsOut
  <2>3. QED  BY <1>1, <1>2, <1>3, <1>4, <2>1, <2>2, TermsFrame
<1>5. CASE /\ sent' = [sent EXCEPT ![m] = ToSend(m)]
           /\ Await(m, Target[m])
           /\ overlapped' = IF PutsOut(Target[m]) = {} THEN overlapped
                            ELSE overlapped \cup {Target[m]}
  <2>1. /\ task'[m] = "waiting" /\ \A n \in Modifies \ {m} : task'[n] = task[n]
        /\ requests' = requests \cup {Message(m, Target[m])}
        /\ \A n \in Modifies \ {m} : sent'[n] = sent[n]
    BY <1>1, <1>5 DEF Await, Core, TypeOK, Commands
  <2>2. \A n \in Modifies \ {m} : Message(n, o) \in requests' <=> Message(n, o) \in requests
    BY <2>1, MessageFields
  <2>3. CASE o # Target[m]
    <3>1. Message(m, o) \in requests' <=> Message(m, o) \in requests
      BY <2>1, <2>3, MessageFields
    <3>2. \A n \in Modifies : n \in PutsOut(o)' <=> n \in PutsOut(o)
      BY <2>1, <2>2, <2>3 DEF PutsOut
    <3>3. QED  BY <1>1, <1>2, <1>3, <2>1, <2>2, <2>3, <3>1, <3>2, TermsFrame
  <2>4. CASE o = Target[m]
    <3>1. PutsOut(o) = {}
      BY <1>5, <2>4
    <3>2. PutsOut(o)' = {m}
      BY <2>1, <2>2, <2>4, <3>1 DEF PutsOut
    <3>3. status'[o] = "open" => Agree(o)'
      BY <1>1, <3>1 DEF TermsOf, Agree
    <3>4. QED  BY <1>1, <2>1, <3>2, <3>3 DEF TermsOf
  <2>5. QED  BY <2>3, <2>4
<1>6. QED  BY <1>4, <1>5 DEF ModifyOrder

(* The answer to the only PUT of an order tells which terms are in force.  *)
LEMMA ModifyReturnsKeepsTerms ==
  ASSUME Core, NEW o \in Orders \ (overlapped' \cup unsure'), TermsOf(o),
         NEW m \in Modifies, NEW r \in Responses, ModifyReturns(m, r)
  PROVE  TermsOf(o)'
<1>1. /\ m \in Commands /\ m \notin Sweeps /\ Target[m] \in Orders
      /\ Responded(m, r) /\ task[m] = "waiting" /\ at[m] = Target[m]
  BY CommandsAssumption DEF Commands, ModifyReturns, Responded, Core, TargetInv
<1>2. /\ UNCHANGED <<requests, sent, status, inForce>>
      /\ replies' = Unheard(m)
      /\ task' = [task EXCEPT ![m] = "ended"]
      /\ terms' = IF Verdict(r) = "done" /\ status[Target[m]] = "open"
                  THEN [terms EXCEPT ![Target[m]] = Updated(m)] ELSE terms
      /\ unsure' = IF r \in {Ack, Refusal} THEN unsure ELSE unsure \cup {Target[m]}
  BY DEF ModifyReturns, End, venue
<1>3. /\ task'[m] = "ended" /\ \A n \in Modifies \ {m} : task'[n] = task[n]
      /\ \A reply \in replies' : reply \in replies /\ reply.by # m
  BY <1>1, <1>2 DEF Core, TypeOK, Commands, Unheard
<1>4. CASE o # Target[m]
  <2>1. terms'[o] = terms[o]
    BY <1>2, <1>4 DEF Core, TypeOK
  <2>2. m \notin PutsOut(o)
    BY <1>4 DEF PutsOut
  <2>3. \A n \in Modifies : n \in PutsOut(o)' <=> n \in PutsOut(o)
    BY <1>2, <1>3, <1>4 DEF PutsOut
  <2>4. QED  BY <1>2, <1>3, <2>1, <2>2, <2>3, TermsFrame
<1>5. CASE o = Target[m]
  <2>1. r \in {Ack, Refusal} /\ r # HttpError
    BY <1>2, <1>5, ResponsesAreDistinct
  <2>2. PICK reply \in replies : reply.by = m /\ reply.order = o /\ reply.says = r
    BY <1>1, <1>5, <2>1, HeardReply
  <2>3. Message(m, o) \notin requests
    BY <2>2 DEF Core, RequestInv
  <2>4. m \in PutsOut(o) /\ \A n \in PutsOut(o) : n = m
    BY <1>1, <1>5 DEF PutsOut, TermsOf
  <2>5. PutsOut(o)' = {}
    BY <1>2, <1>3, <2>3, <2>4 DEF PutsOut
  <2>6. status'[o] = "open" => Agree(o)'
    <3> SUFFICES ASSUME status[o] = "open" PROVE Agree(o)'
      BY <1>2
    <3>1. CASE r = Ack
      <4>1. inForce'[o] = sent[m]
        BY <1>2, <2>2, <2>4, <3>1 DEF TermsOf
      <4>2. terms'[o] = Updated(m)
        BY <1>2, <1>5, <3>1, AckVerdict DEF Core, TypeOK
      <4>3. sent[m] \in [Terms -> Nat]
        BY DEF Core, TypeOK
      <4>4. \A t \in {"quantity", "price"} : Updated(m)[t] = sent[m][t]
        BY <4>3 DEF Updated, Terms
      <4>5. QED  BY <4>1, <4>2, <4>4 DEF Agree
    <3>2. CASE r = Refusal
      <4>1. Agree(o)
        BY <2>2, <2>4, <3>2 DEF TermsOf
      <4>2. terms' = terms
        BY <1>2, <3>2, RefusalVerdict
      <4>3. QED  BY <1>2, <4>1, <4>2 DEF Agree
    <3>3. QED  BY <2>1, <3>1, <3>2
  <2>7. QED  BY <2>5, <2>6 DEF TermsOf
<1>6. QED  BY <1>4, <1>5

(* What Dhan makes of the only PUT of an order is what its answer says.    *)
LEMMA ArrivesKeepsTerms ==
  ASSUME Core, NEW o \in Orders, TermsOf(o), NEW request \in Messages, Arrives(request)
  PROVE  TermsOf(o)'
<1> DEFINE c == request.by
           p == request.order
<1>1. /\ c \in Commands /\ p \in Orders /\ request = Message(c, p)
      /\ request \in requests
      /\ requests' = requests \ {request}
      /\ UNCHANGED <<task, sent, status, terms>>
  BY MessageFields DEF Arrives, engine
<1>2. \A reply \in replies' : reply \in replies \/ reply.by = c
  BY <1>1 DEF Arrives, Core, TypeOK
<1>3. CASE c \notin Modifies
  <2>1. inForce' = inForce
    BY <1>3 DEF Arrives, venue
  <2>2. \A m \in Modifies : Message(m, o) \in requests' <=> Message(m, o) \in requests
    BY <1>1, <1>3, MessageFields
  <2>3. QED  BY <1>1, <1>2, <1>3, <2>1, <2>2, NoPutFrame
<1>4. CASE c \in Modifies /\ o # p
  <2>1. p = Target[c]
    BY <1>1, <1>4, CommandsAssumption DEF Core, TargetInv
  <2>2. inForce'[o] = inForce[o]
    BY <1>1, <1>4 DEF Arrives, venue, Core, TypeOK
  <2>3. \A m \in Modifies : Message(m, o) \in requests' <=> Message(m, o) \in requests
    BY <1>1, <1>4, MessageFields
  <2>4. \A m \in Modifies : m \in PutsOut(o)' <=> m \in PutsOut(o)
    BY <1>1, <2>3 DEF PutsOut
  <2>5. c \notin PutsOut(o)
    BY <1>4, <2>1 DEF PutsOut
  <2>6. QED  BY <1>1, <1>2, <2>2, <2>3, <2>4, <2>5, TermsFrame
<1>5. CASE c \in Modifies /\ o = p
  <2>1. /\ o = Target[c] /\ at[c] = o /\ Message(c, o) \in requests
    BY <1>1, <1>5, CommandsAssumption DEF Core, TargetInv
  <2>2. c \in PutsOut(o) /\ task[c] = "waiting" /\ \A n \in PutsOut(o) : n = c
    BY <1>5, <2>1 DEF PutsOut, TermsOf
  <2>3. status[o] = "open" => Agree(o)
    BY <2>1, <2>2 DEF TermsOf
  <2>4. \A reply \in replies : reply.by # c
    BY <2>1 DEF Core, RequestInv
  <2>5. PutsOut(o)' = {c} /\ Message(c, o) \notin requests'
    BY <1>1, <1>5, <2>1, <2>2, MessageFields DEF PutsOut
  <2>6. /\ \A n \in PutsOut(o)' : n = c
        /\ c \in PutsOut(o)'
    BY <2>5
  <2>7. \A reply \in replies' : reply.by = c =>
          /\ reply.says = Ack => inForce'[o] = sent[c]
          /\ reply.says = Refusal => inForce' = inForce
    BY <1>1, <1>5, <2>1, <2>2, <2>4, ResponsesAreDistinct DEF Arrives, venue, Core, TypeOK
  <2>8. QED
    BY <1>1, <2>2, <2>3, <2>5, <2>6, <2>7 DEF TermsOf, Agree
<1>6. QED  BY <1>3, <1>4, <1>5

(* Every step keeps the part about terms.                                   *)
LEMMA NextTerms == Core /\ TermsInv /\ [Next]_vars => TermsInv'
<1> SUFFICES ASSUME Core, TermsInv, [Next]_vars,
                    NEW o \in Orders \ (overlapped' \cup unsure')
             PROVE  TermsOf(o)'
  BY DEF TermsInv, TermsOf, PutsOut, Agree
<1>1. overlapped \subseteq overlapped' /\ unsure \subseteq unsure'
  BY DEF Next, Begin, Return, CancelOrder, CancelAllOrders, CancelReturns, ModifyOrder,
         ModifyReturns, EngineHears, BookMoves, Arrives, history, vars
<1>2. TermsOf(o)
  BY <1>1 DEF TermsInv
<1>3. CASE UNCHANGED vars
  BY <1>2, <1>3, NoPutFrame DEF vars
<1>4. ASSUME NEW c \in Commands, Begin(c) \/ Return(c) PROVE TermsOf(o)'
  BY <1>2, <1>4, CancelsKeepTerms, ModifyOrderKeepsTerms, ModifyReturnsKeepsTerms
     DEF Begin, Return
<1>5. QED
  BY <1>2, <1>3, <1>4, OutsideKeepsTerms, ArrivesKeepsTerms DEF Next

(* At first the engine's terms are Dhan's.                                  *)
LEMMA InitTerms == Init => TermsInv
<1> SUFFICES ASSUME Init, NEW o \in Orders PROVE TermsOf(o)
  BY DEF TermsInv
<1>1. PutsOut(o) = {}
  BY DEF Init, PutsOut, Commands
<1>2. Agree(o)
  BY DEF Init, Agree
<1>3. QED  BY <1>1, <1>2 DEF TermsOf, Init

(* The inductive invariant, whole.                                         *)
THEOREM InvariantHolds == Spec => []IInv
<1>1. Core /\ TermsInv => IInv
  BY DEF IInv
<1>2. QED  BY <1>1, InitCore, NextCore, InitTerms, NextTerms, PTL DEF Spec

(* With one PUT at a time and each answered by Dhan, the engine and Dhan    *)
(* agree on quantity and price whenever no PUT is out.                      *)
THEOREM TermsAgreeOnceSettled == Spec => []SettledTermsAgree
<1>1. IInv => SettledTermsAgree
  BY DEF IInv, TermsInv, TermsOf, SettledTermsAgree
<1>2. QED  BY <1>1, InvariantHolds, PTL
=============================================================================
