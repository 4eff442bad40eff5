--------------------------- MODULE DhanCancelModify ---------------------------
(***************************************************************************)
(* The coroutines of DhanExecutionClient that act on orders already at     *)
(* Dhan:                                                                   *)
(*   _cancel_order       one DELETE /v2/orders/{id}                        *)
(*   _cancel_all_orders  the same for each working order, one after another*)
(*   _modify_order       one PUT /v2/orders/{id}, carrying every term      *)
(* Any number of them are suspended at their await together, and each      *)
(* event rests on what its own answer said.  A PUT replaces the order's    *)
(* terms: those the command does not name are filled in from the engine's  *)
(* record as it stands when the command arrives.                           *)
(*                                                                         *)
(* External: Dhan, the network, and the engine's record of its orders.     *)
(***************************************************************************)
EXTENDS DhanErrors, FiniteSets

CONSTANTS
  Orders,
  Cancels, Sweeps, Modifies,   \* commands of the three kinds
  Target,                      \* the order of each cancel and modify
  Named,                       \* the terms each modify names, with their values
  InitialTerms,                \* InitialTerms[o]: 0 is None
  GatewayFaults,               \* what can replace Dhan's answer: "text", "scalar"
  MaxCommands                  \* bound: of the commands, how many are issued

Commands == Cancels \cup Sweeps \cup Modifies
Terms    == {"quantity", "price", "trigger"}

ASSUME CommandsAssumption ==
  /\ Cancels \cap Sweeps = {} /\ Cancels \cap Modifies = {} /\ Sweeps \cap Modifies = {}
  /\ Target \in [Cancels \cup Modifies -> Orders]
  /\ DOMAIN Named = Modifies
  /\ \A m \in Modifies : DOMAIN Named[m] \subseteq Terms
                         /\ \A t \in DOMAIN Named[m] : Named[m][t] \in Nat \ {0}
  /\ InitialTerms \in [Orders -> [Terms -> Nat]]
  /\ Orders # {}

ASSUME FaultsAssumption == GatewayFaults \subseteq {"text", "scalar"}

ASSUME BoundAssumption == MaxCommands \in Nat

VARIABLES
  task,       \* the coroutine of each command
  todo,       \* the orders a sweep has still to get to
  at,         \* the order each command is waiting about, or was last
  sent,       \* the terms each modify put in its request
  requests,   \* requests on their way to Dhan
  replies,    \* answers on their way back
  known,      \* the engine's record: its orders with a venue order id
  status,     \* ... what it holds each to be
  terms,      \* ... the terms it believes in force
  told,       \* the verdict each command gave on each order
  book,       \* Dhan's own status of each order
  inForce,    \* Dhan's own terms
  applied,    \* history: the requests Dhan acted upon
  overlapped, \* history: orders with two PUTs out at once
  unsure      \* history: orders with a PUT that ended with no answer of Dhan's

engine   == <<known, status, terms, told>>
venue    == <<book, inForce, applied>>
history  == <<overlapped, unsure>>
vars     == <<task, todo, at, sent, requests, replies, known, status, terms, told,
              book, inForce, applied, overlapped, unsure>>

Ack     == Json(Object([orderId |-> "id", orderStatus |-> "CANCELLED"]))
Refusal == Json(Object([errorMessage |-> "words", errorCode |-> "DH-906",
                        errorType |-> "Order_Error"]))

\* What the client reads in the place of Dhan's answer, whatever that was: a body
\* that is no JSON, or JSON that is neither object nor array.
Garbled == {Text : fault \in GatewayFaults \cap {"text"}}
             \cup {Json(Scalar) : fault \in GatewayFaults \cap {"scalar"}}
Responses == {Ack, Refusal, HttpError} \cup Garbled

Verdicts == {"none", "done", "rejected", "silent"}
Message(c, o) == [by |-> c, order |-> o]
Messages == [by : Commands, order : Orders]

TypeOK ==
  /\ task \in [Commands -> {"idle", "waiting", "ended"}]
  /\ todo \in [Commands -> SUBSET Orders]
  /\ at \in [Commands -> Orders]
  /\ sent \in [Modifies -> [Terms -> Nat]]
  /\ requests \subseteq Messages
  /\ replies \subseteq [by : Commands, order : Orders, says : Responses]
  /\ known \subseteq Orders
  /\ status \in [Orders -> {"open", "canceled", "filled"}]
  /\ terms \in [Orders -> [Terms -> Nat]]
  /\ told \in [Commands -> [Orders -> Verdicts]]
  /\ book \in [Orders -> {"TRANSIT", "PENDING", "TRADED", "CANCELLED"}]
  /\ inForce \in [Orders -> [Terms -> Nat]]
  /\ applied \subseteq Messages
  /\ overlapped \subseteq Orders
  /\ unsure \subseteq Orders

Init ==
  /\ task = [c \in Commands |-> "idle"]
  /\ todo = [c \in Commands |-> {}]
  /\ at = [c \in Commands |-> IF c \in Sweeps THEN CHOOSE o \in Orders : TRUE
                              ELSE Target[c]]
  /\ sent = [m \in Modifies |-> InitialTerms[Target[m]]]
  /\ requests = {}
  /\ replies = {}
  /\ known = {}
  /\ status = [o \in Orders |-> "open"]
  /\ terms = InitialTerms
  /\ told = [c \in Commands |-> [o \in Orders |-> "none"]]
  /\ book = [o \in Orders |-> "TRANSIT"]
  /\ inForce = InitialTerms
  /\ applied = {}
  /\ overlapped = {}
  /\ unsure = {}

Tell(c, o, verdict) == told' = [told EXCEPT ![c][o] = verdict]

-------------------------------------------------------------------------------
\* Send the request about o and wait; or have nothing left to do.
Await(c, o) ==
  /\ task' = [task EXCEPT ![c] = "waiting"]
  /\ at' = [at EXCEPT ![c] = o]
  /\ requests' = requests \cup {Message(c, o)}

End(c) ==
  /\ task' = [task EXCEPT ![c] = "ended"]
  /\ UNCHANGED <<at, requests>>

AwaitNext(c, orders) ==
  IF orders = {} THEN End(c) /\ UNCHANGED todo
  ELSE \E o \in orders : /\ Await(c, o)
                         /\ todo' = [todo EXCEPT ![c] = orders \ {o}]

CancelOrder(c) ==
  /\ task[c] = "idle"
  /\ LET o == Target[c] IN
     \/ /\ o \notin known
        /\ Tell(c, o, "rejected")
        /\ End(c)
     \/ /\ o \in known
        /\ Await(c, o)
        /\ UNCHANGED told
  /\ UNCHANGED <<todo, sent, replies, known, status, terms, venue, history>>

\* The working orders are those the cache has now, in no particular order.
CancelAllOrders(c) ==
  /\ task[c] = "idle"
  /\ AwaitNext(c, {o \in known : status[o] = "open"})
  /\ UNCHANGED <<sent, replies, engine, venue, history>>

\* The end of a DELETE, by an httpx error at any moment or by its answer; a
\* sweep goes on to its next order whatever this one ended with.
Responded(c, r) ==
  /\ task[c] = "waiting"
  /\ r = HttpError \/ [by |-> c, order |-> at[c], says |-> r] \in replies

\* The call is over, and with it any answer to it.
Unheard(c) == {reply \in replies : reply.by # c}

\* Mutants: a lost answer is taken for success; a refusal is not told apart.
VerdictHopeful(r) ==
  IF Answer(TRUE, r).outcome \in {"ambiguous", "payload"} THEN "done" ELSE "rejected"

VerdictUnclassified(r) ==
  IF Answer(TRUE, r).outcome = "payload" THEN "done" ELSE Answer(TRUE, r).outcome

Verdict(r) ==
  IF Answer(TRUE, r).outcome = "ambiguous" THEN "silent"
  ELSE IF Answer(TRUE, r).outcome = "payload" THEN "done"
  ELSE "rejected"

\* Mutant: a failure ends the sweep.
CancelReturnsStops(c, r) ==
  /\ Responded(c, r)
  /\ Tell(c, at[c], Verdict(r))
  /\ status' = IF Verdict(r) = "done" /\ status[at[c]] = "open"
               THEN [status EXCEPT ![at[c]] = "canceled"] ELSE status
  /\ IF Verdict(r) = "done" THEN AwaitNext(c, todo[c])
     ELSE End(c) /\ UNCHANGED todo
  /\ replies' = Unheard(c)
  /\ UNCHANGED <<sent, known, terms, venue, history>>

CancelReturns(c, r) ==
  /\ Responded(c, r)
  /\ Tell(c, at[c], Verdict(r))
  /\ status' = IF Verdict(r) = "done" /\ status[at[c]] = "open"
               THEN [status EXCEPT ![at[c]] = "canceled"] ELSE status
  /\ AwaitNext(c, todo[c])
  /\ replies' = Unheard(c)
  /\ UNCHANGED <<sent, known, terms, venue, history>>

-------------------------------------------------------------------------------
\* What the command names, and for the rest what the engine believes in force.
ToSend(m) == [t \in Terms |-> IF t \in DOMAIN Named[m] THEN Named[m][t]
                              ELSE terms[Target[m]][t]]

Complete(send) == send["quantity"] # 0 /\ send["price"] # 0

PutsOut(o) == {m \in Modifies : Target[m] = o /\ (task[m] = "waiting" \/ Message(m, o) \in requests)}

ModifyOrder(m) ==
  /\ task[m] = "idle"
  /\ LET o == Target[m] IN
     \/ /\ o \notin known \/ ~Complete(ToSend(m))
        /\ Tell(m, o, "rejected")
        /\ End(m)
        /\ UNCHANGED <<sent, overlapped>>
     \/ /\ o \in known /\ Complete(ToSend(m))
        /\ sent' = [sent EXCEPT ![m] = ToSend(m)]
        /\ Await(m, o)
        /\ overlapped' = IF PutsOut(o) = {} THEN overlapped ELSE overlapped \cup {o}
        /\ UNCHANGED told
  /\ UNCHANGED <<todo, replies, known, status, terms, venue, unsure>>

\* Mutant: the price goes the way of the trigger.
UpdatedQuantityOnly(m) == [terms[Target[m]] EXCEPT !["quantity"] = sent[m]["quantity"]]

\* OrderUpdated carries the quantity and the price sent and trigger_price=None,
\* of which the engine makes "unchanged".
Updated(m) == [sent[m] EXCEPT !["trigger"] = terms[Target[m]]["trigger"]]

\* Mutant: the lost answer of a PUT is a refusal.
ModifyReturnsRejects(m, r) ==
  /\ Responded(m, r)
  /\ LET o == Target[m] IN
     /\ Tell(m, o, IF Verdict(r) = "done" THEN "done" ELSE "rejected")
     /\ terms' = IF Verdict(r) = "done" /\ status[o] = "open"
                 THEN [terms EXCEPT ![o] = Updated(m)] ELSE terms
     /\ unsure' = IF r \in {Ack, Refusal} THEN unsure ELSE unsure \cup {o}
  /\ End(m)
  /\ replies' = Unheard(m)
  /\ UNCHANGED <<todo, sent, known, status, venue, overlapped>>

ModifyReturns(m, r) ==
  /\ Responded(m, r)
  /\ LET o == Target[m] IN
     /\ Tell(m, o, Verdict(r))
     /\ terms' = IF Verdict(r) = "done" /\ status[o] = "open"
                 THEN [terms EXCEPT ![o] = Updated(m)] ELSE terms
     /\ unsure' = IF r \in {Ack, Refusal} THEN unsure ELSE unsure \cup {o}
  /\ End(m)
  /\ replies' = Unheard(m)
  /\ UNCHANGED <<todo, sent, known, status, venue, overlapped>>

-------------------------------------------------------------------------------
\* External: the engine hears of a placement and of a fill (DhanSubmission,
\* DhanOrderStream), Dhan's book moves.
EngineHears(o) ==
  /\ \/ known' = known \cup {o} /\ UNCHANGED status
     \/ /\ book[o] = "TRADED" /\ status[o] = "open"
        /\ status' = [status EXCEPT ![o] = "filled"]
        /\ UNCHANGED known
  /\ UNCHANGED <<task, todo, at, sent, requests, replies, terms, told, venue, history>>

BookMoves(o) ==
  /\ \/ book[o] = "TRANSIT" /\ book' = [book EXCEPT ![o] = "PENDING"]
     \/ book[o] = "PENDING" /\ book' = [book EXCEPT ![o] = "TRADED"]
  /\ UNCHANGED <<task, todo, at, sent, requests, replies, engine, inForce, applied, history>>

\* External: a request is acted upon -- a cancel not in TRANSIT, a modify there
\* too -- or declined, and answered: by Dhan, or by what a gateway makes of its
\* answer.  A request is lost if it never arrives, an answer if the client ends
\* the call without it.
Arrives(request) ==
  /\ request \in requests
  /\ requests' = requests \ {request}
  /\ LET c == request.by  o == request.order
         awaited  == task[c] = "waiting" /\ at[c] = o
         Reply(r) == replies' = IF ~awaited THEN replies ELSE
                                replies \cup {[by |-> c, order |-> o, says |-> r]} IN
     \/ /\ c \in Modifies /\ book[o] \in {"TRANSIT", "PENDING"}
        /\ inForce' = [inForce EXCEPT ![o] = sent[c]]
        /\ applied' = applied \cup {request}
        /\ \E r \in {Ack} \cup Garbled : Reply(r)
        /\ UNCHANGED book
     \/ /\ c \notin Modifies /\ book[o] = "PENDING"
        /\ book' = [book EXCEPT ![o] = "CANCELLED"]
        /\ applied' = applied \cup {request}
        /\ \E r \in {Ack} \cup Garbled : Reply(r)
        /\ UNCHANGED inForce
     \/ /\ \E r \in {Refusal} \cup Garbled : Reply(r)
        /\ UNCHANGED venue
  /\ UNCHANGED <<task, todo, at, sent, engine, history>>

Begin(c) ==
  /\ Cardinality({d \in Commands : task[d] # "idle"}) < MaxCommands
  /\ \/ c \in Cancels /\ CancelOrder(c)
     \/ c \in Sweeps /\ CancelAllOrders(c)
     \/ c \in Modifies /\ ModifyOrder(c)

Return(c) ==
  \E r \in Responses : \/ c \in Cancels \cup Sweeps /\ CancelReturns(c, r)
                       \/ c \in Modifies /\ ModifyReturns(c, r)

Next == \/ \E c \in Commands : Begin(c) \/ Return(c)
        \/ \E o \in Orders : EngineHears(o) \/ BookMoves(o)
        \/ \E request \in Messages : Arrives(request)

Spec == Init /\ [][Next]_vars

\* httpx bounds every request: an await ends.
FairSpec == Spec /\ \A c \in Commands : WF_vars(Return(c))

-------------------------------------------------------------------------------
\* "Reporting it cancelled is how a live order is forgotten" (http.py:88-91):
\* an order the engine holds for canceled is canceled at Dhan.
CanceledIsDead ==
  \A o \in Orders : status[o] = "canceled" => book[o] = "CANCELLED"

\* A rejection of a cancel or of a modify is about a request that did nothing
\* and never will: what may still arrive, or has been acted upon, is no refusal
\* (execution.py:359-369, 463-471).  A JSON scalar in the place of Dhan's answer
\* breaks it: classify raises TransportError, which is reported as a rejection.
RejectedDidNothing ==
  \A c \in Commands, o \in Orders :
    told[c][o] = "rejected" => Message(c, o) \notin requests \cup applied

\* Once the answers are in, the engine believes the quantity and the price that
\* are in force -- unless Dhan's answer to a PUT was not read, or two were out at
\* once, which nothing in the client prevents and the venue may take in either order.
Agree(o) == \A t \in {"quantity", "price"} : terms[o][t] = inForce[o][t]

SettledTermsAgree ==
  \A o \in Orders \ (overlapped \cup unsure) :
    PutsOut(o) = {} /\ status[o] = "open" => Agree(o)

-------------------------------------------------------------------------------
\* The inductive invariant.  TargetInv: a cancel and a modify are about their
\* own order, and a sweep does not come back to an order.
TargetInv ==
  /\ \A c \in Commands :
       /\ at[c] \notin todo[c]
       /\ c \notin Sweeps => at[c] = Target[c]
       /\ c \notin Sweeps \/ task[c] = "idle" => todo[c] = {}
  /\ \A request \in requests :
       request.by \notin Sweeps => request.order = Target[request.by]

\* Each request is sent once, acted upon once, and answered to a waiting caller
\* by what became of it; one not yet sent has had no verdict.
RequestInv ==
  /\ requests \cap applied = {}
  /\ \A reply \in replies :
       /\ task[reply.by] = "waiting" /\ at[reply.by] = reply.order
       /\ Message(reply.by, reply.order) \notin requests
       /\ reply.says = Refusal => Message(reply.by, reply.order) \notin applied
       /\ reply.says = Ack /\ reply.by \notin Modifies => book[reply.order] = "CANCELLED"
  /\ \A c \in Commands, o \in Orders :
       task[c] = "idle" \/ o \in todo[c] =>
         told[c][o] = "none" /\ Message(c, o) \notin requests \cup applied

\* An order with one PUT at a time and each answered by Dhan: the engine's quantity
\* and price are Dhan's, or the answer that will make them so is on its way.
TermsOf(o) ==
  /\ \A m, n \in PutsOut(o) : m = n
  /\ \A m \in PutsOut(o) : task[m] = "waiting"
  /\ status[o] = "open" =>
       /\ PutsOut(o) = {} => Agree(o)
       /\ \A m \in PutsOut(o) : Message(m, o) \in requests => Agree(o)
       /\ \A reply \in replies : reply.by \in PutsOut(o) =>
            /\ reply.says = Ack => inForce[o] = sent[reply.by]
            /\ reply.says = Refusal => Agree(o)

TermsInv == \A o \in Orders \ (overlapped \cup unsure) : TermsOf(o)

\* The part about requests and verdicts, inductive by itself; and the whole.
RejectionInv == "scalar" \notin GatewayFaults => RejectedDidNothing

Core == TypeOK /\ TargetInv /\ RequestInv /\ CanceledIsDead /\ RejectionInv

IInv == Core /\ TermsInv

-------------------------------------------------------------------------------

\* A sweep has, in the end, an answer or its absence about every order it set
\* out to cancel: one that fails does not save those behind it.
SweepsReachAll ==
  \A c \in Sweeps, o \in Orders : o \in todo[c] ~> told[c][o] # "none"

\* A PUT leaves alone the terms the command did not name: "a modify REPLACES
\* the order's terms", so they are sent as they are (orders.py:346-348).
UnnamedTermsStay ==
  [][\A m \in Modifies :
       LET o == Target[m] IN
       Message(m, o) \in applied' \ applied /\ o \notin overlapped \cup unsure =>
         \A t \in Terms \ DOMAIN Named[m] : inForce'[o][t] = inForce[o][t]]_vars
===============================================================================
