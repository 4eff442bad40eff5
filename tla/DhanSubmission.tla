---------------------------- MODULE DhanSubmission ----------------------------
(***************************************************************************)
(* The three coroutines of DhanExecutionClient that place orders:          *)
(*   _submit_order          one order, POST /v2/orders (or /slicing)       *)
(*   _submit_order_list     a bracket, POST /v2/super/orders               *)
(*   submit_forever_order   a resting trigger, POST /v2/forever/orders     *)
(* Each refuses, or emits OrderSubmitted for every order it carries and    *)
(* awaits ONE POST; what it emits after the await depends on the class of  *)
(* the exception, or on the body, that the POST ends with.  Any number of  *)
(* these coroutines are suspended at their await together.                 *)
(*                                                                         *)
(* External: the network, Dhan, and the process being killed.              *)
(***************************************************************************)
EXTENDS DhanErrors

CONSTANTS
  Commands,        \* submit commands the strategies issue
  Orders,          \* the orders they carry
  Legs,            \* Legs[c]: the orders of command c (a bracket has three)
  Kind,            \* Kind[c]: "order", "list" or "forever"
  IsBracket,       \* the lists shaped entry + target + stop
  InCache,         \* the commands whose instrument is in the cache
  Buildable,       \* those whose security id and payload can be built
  GatewayFaults,   \* what can replace Dhan's answer: "text", "scalar", "noOrderId"
  MaxSessions      \* bound: processes started one after the other

ASSUME CommandsAssumption ==
  /\ Legs \in [Commands -> SUBSET Orders]
  /\ \A c, d \in Commands : c # d => Legs[c] \cap Legs[d] = {}
  /\ \A o \in Orders : \E c \in Commands : o \in Legs[c]
  /\ Kind \in [Commands -> {"order", "list", "forever"}]
  /\ IsBracket \subseteq Commands
  /\ InCache \subseteq Commands
  /\ Buildable \subseteq Commands

ASSUME FaultsAssumption == GatewayFaults \subseteq {"text", "scalar", "noOrderId"}

ASSUME SessionsAssumption == MaxSessions \in Nat \ {0}

VARIABLES
  session,     \* number of processes started so far
  switches,    \* the two live-order switches of this process
  http,        \* _http is not None
  degraded,    \* is_degraded_by_ip
  task,        \* the coroutine of each command
  events,      \* what the engine has been told of each order, in order
  wire,        \* the request of each command
  venue,       \* what Dhan did with it
  reply        \* the response on its way back

client == <<session, switches, http, degraded, task, events>>
vars   == <<session, switches, http, degraded, task, events, wire, venue, reply>>

\* Responses, as DhanErrors reads them.
Ack          == Json(Object([orderId |-> "id", orderStatus |-> "TRANSIT"]))
AckWithoutId == Json(Array(<<Object([orderId |-> "id", orderStatus |-> "TRANSIT"])>>))
ErrorBody(message, code, type) ==
  Json(Object([errorMessage |-> message, errorCode |-> code, errorType |-> type]))
Refusals == {ErrorBody("words", "DH-905", "Input_Exception"),
             ErrorBody("ip", "DH-905", "Input_Exception"),
             ErrorBody("words", "DH-904", "Rate_Limit")}
Replies  == Refusals \cup {Ack, AckWithoutId, Text, Json(Scalar)}
NoReply  == [kind |-> "none"]

Switches == [config : BOOLEAN, env : BOOLEAN]

StateTypes ==
  /\ session \in 1..MaxSessions
  /\ switches \in Switches
  /\ http \in BOOLEAN
  /\ degraded \in BOOLEAN
  /\ task \in [Commands -> {"idle", "posting", "returned", "lost"}]
  /\ events \in [Orders -> Seq({"denied", "submitted", "accepted", "rejected"})]
  /\ wire \in [Commands -> {"none", "sent", "gone"}]
  /\ venue \in [Commands -> {"unaware", "placed", "declined"}]
  /\ reply \in [Commands -> Replies \cup {NoReply}]

\* An order is spoken of at most twice, however many processes have held it.
TypeOK == StateTypes /\ \A o \in Orders : Len(events[o]) <= 2

Init ==
  /\ session = 1
  /\ switches \in Switches
  /\ http = FALSE
  /\ degraded = FALSE
  /\ task = [c \in Commands |-> "idle"]
  /\ events = [o \in Orders |-> <<>>]
  /\ wire = [c \in Commands |-> "none"]
  /\ venue = [c \in Commands |-> "unaware"]
  /\ reply = [c \in Commands |-> NoReply]

-------------------------------------------------------------------------------
\* Both switches, compared each time a command arrives (config.submission_refusal).
Armed == switches.config /\ switches.env

\* _refusal_for, _super_order_refusal and the head of submit_forever_order
\* differ in their wording and, for the last, in the order of the checks.
Refused(c) ==
  \/ ~Armed
  \/ degraded
  \/ Kind[c] = "list" /\ c \notin IsBracket
  \/ c \notin InCache
  \/ c \notin Buildable

\* Mutant: an answer is passed on for one leg only.
ToldFirstLeg(c, event) ==
  [o \in Orders |-> IF o = CHOOSE leg \in Legs[c] : TRUE
                    THEN Append(events[o], event) ELSE events[o]]

Told(c, event) ==
  [o \in Orders |-> IF o \in Legs[c] THEN Append(events[o], event) ELSE events[o]]

\* Mutant: the degrade flag is looked at again after the await.
DenyOnceDegraded(c) ==
  /\ task[c] = "idle" \/ task[c] = "posting"
  /\ Refused(c)
  /\ events' = Told(c, "denied")
  /\ task' = [task EXCEPT ![c] = "returned"]
  /\ UNCHANGED <<session, switches, http, degraded, wire, venue, reply>>

Deny(c) ==
  /\ task[c] = "idle"
  /\ Refused(c)
  /\ events' = Told(c, "denied")
  /\ task' = [task EXCEPT ![c] = "returned"]
  /\ UNCHANGED <<session, switches, http, degraded, wire, venue, reply>>

\* Up to the await.  Without a client (`_http` is None) the call itself raises,
\* after OrderSubmitted has been emitted and before anything is sent.
Submit(c) ==
  /\ task[c] = "idle"
  /\ ~Refused(c)
  /\ events' = Told(c, "submitted")
  /\ \/ /\ http
        /\ wire' = [wire EXCEPT ![c] = "sent"]
        /\ task' = [task EXCEPT ![c] = "posting"]
     \/ /\ ~http
        /\ task' = [task EXCEPT ![c] = "lost"]
        /\ UNCHANGED wire
  /\ UNCHANGED <<session, switches, http, degraded, venue, reply>>

\* The ends of the await.  The response is an httpx.HTTPError -- at any moment,
\* whatever the request's fate -- or the reply that has arrived.
Response(c, r) ==
  /\ task[c] = "posting"
  /\ r = HttpError \/ r = reply[c]
  /\ r # NoReply

OrderIdIn(result) ==
  /\ result.outcome = "payload"
  /\ result.value.shape = "object"
  /\ "orderId" \in DOMAIN result.value.fields

\* Mutants: the lost answer is called a refusal; the write is sent again.
ReturnAmbiguousRejects(c, r) ==
  /\ Response(c, r)
  /\ Answer(TRUE, r).outcome = "ambiguous"
  /\ events' = Told(c, "rejected")
  /\ task' = [task EXCEPT ![c] = "returned"]
  /\ UNCHANGED <<session, switches, http, degraded, wire, venue, reply>>

ReturnAmbiguousRetries(c, r) ==
  /\ Response(c, r)
  /\ Answer(TRUE, r).outcome = "ambiguous"
  /\ wire' = [wire EXCEPT ![c] = "sent"]
  /\ UNCHANGED <<session, switches, http, degraded, task, events, venue, reply>>

\* `except Ambiguous`: no event.
ReturnAmbiguous(c, r) ==
  /\ Response(c, r)
  /\ Answer(TRUE, r).outcome = "ambiguous"
  /\ task' = [task EXCEPT ![c] = "returned"]
  /\ UNCHANGED <<session, switches, http, degraded, events, wire, venue, reply>>

\* `except IPNotWhitelisted` and `except DhanError`: the first also degrades
\* the client, for the rest of the session.
ReturnRejected(c, r) ==
  /\ Response(c, r)
  /\ Answer(TRUE, r).outcome \in DhanErrorClasses \ {"ambiguous"}
  /\ degraded' = (degraded \/ Answer(TRUE, r).outcome = "ipNotWhitelisted")
  /\ events' = Told(c, "rejected")
  /\ task' = [task EXCEPT ![c] = "returned"]
  /\ UNCHANGED <<session, switches, http, wire, venue, reply>>

\* Mutant: whatever body comes back is an acknowledgement.
ReturnAcceptedUnread(c, r) ==
  /\ Response(c, r)
  /\ r.kind = "json"
  /\ events' = Told(c, "accepted")
  /\ task' = [task EXCEPT ![c] = "returned"]
  /\ UNCHANGED <<session, switches, http, degraded, wire, venue, reply>>

ReturnAccepted(c, r) ==
  /\ Response(c, r)
  /\ OrderIdIn(Answer(TRUE, r))
  /\ events' = Told(c, "accepted")
  /\ task' = [task EXCEPT ![c] = "returned"]
  /\ UNCHANGED <<session, switches, http, degraded, wire, venue, reply>>

\* body["orderId"] raises out of the coroutine: no event.
ReturnUnindexed(c, r) ==
  /\ Response(c, r)
  /\ Answer(TRUE, r).outcome = "payload"
  /\ ~OrderIdIn(Answer(TRUE, r))
  /\ task' = [task EXCEPT ![c] = "lost"]
  /\ UNCHANGED <<session, switches, http, degraded, events, wire, venue, reply>>

Return(c) ==
  \E r \in Replies \cup {HttpError} :
    \/ ReturnAmbiguous(c, r)
    \/ ReturnRejected(c, r)
    \/ ReturnAccepted(c, r)
    \/ ReturnUnindexed(c, r)

-------------------------------------------------------------------------------
\* _connect and _disconnect, as far as they concern the client for requests.
Connect ==
  /\ ~http
  /\ http' = TRUE
  /\ UNCHANGED <<session, switches, degraded, task, events, wire, venue, reply>>

Disconnect ==
  /\ http
  /\ http' = FALSE
  /\ UNCHANGED <<session, switches, degraded, task, events, wire, venue, reply>>

\* Mutant: the process that finds a submission without a verdict sends it again.
RestartSendsAgain ==
  /\ session < MaxSessions
  /\ session' = session + 1
  /\ switches' \in Switches
  /\ http' = FALSE
  /\ degraded' = FALSE
  /\ task' = [c \in Commands |-> IF task[c] = "posting" THEN "idle" ELSE task[c]]
  /\ UNCHANGED <<events, wire, venue, reply>>

\* External.  The process dies and another starts, perhaps configured
\* otherwise; the engine's own record of its orders survives in its database.
\* Every suspended coroutine is gone; what it sent is not.
Restart ==
  /\ session < MaxSessions
  /\ session' = session + 1
  /\ switches' \in Switches
  /\ http' = FALSE
  /\ degraded' = FALSE
  /\ task' = [c \in Commands |-> IF task[c] = "posting" THEN "lost" ELSE task[c]]
  /\ UNCHANGED <<events, wire, venue, reply>>

-------------------------------------------------------------------------------
\* External: Dhan and the network.  A request sent may arrive at any time --
\* also after the client has stopped waiting -- or never.
VenuePlaces(c) ==
  /\ wire[c] = "sent"
  /\ wire' = [wire EXCEPT ![c] = "gone"]
  /\ venue' = [venue EXCEPT ![c] = "placed"]
  /\ reply' = [reply EXCEPT ![c] = Ack]
  /\ UNCHANGED client

VenueDeclines(c) ==
  /\ wire[c] = "sent"
  /\ wire' = [wire EXCEPT ![c] = "gone"]
  /\ venue' = [venue EXCEPT ![c] = "declined"]
  /\ \E r \in Refusals : reply' = [reply EXCEPT ![c] = r]
  /\ UNCHANGED client

RequestLost(c) ==
  /\ wire[c] = "sent"
  /\ wire' = [wire EXCEPT ![c] = "gone"]
  /\ UNCHANGED <<client, venue, reply>>

\* Between the venue and the client: a body that is no JSON (a gateway's HTML
\* page), JSON that is neither object nor array, or -- of a placement -- JSON
\* that is not an object with an orderId.
ReplyMangled(c) ==
  /\ reply[c] \in Refusals \cup {Ack}
  /\ \/ /\ "text" \in GatewayFaults
        /\ reply' = [reply EXCEPT ![c] = Text]
     \/ /\ "scalar" \in GatewayFaults
        /\ reply' = [reply EXCEPT ![c] = Json(Scalar)]
     \/ /\ "noOrderId" \in GatewayFaults
        /\ reply[c] = Ack
        /\ reply' = [reply EXCEPT ![c] = AckWithoutId]
  /\ UNCHANGED <<client, wire, venue>>

ClientStep(c) == Deny(c) \/ Submit(c) \/ Return(c)

VenueStep(c) == \/ VenuePlaces(c)
                \/ VenueDeclines(c)
                \/ RequestLost(c)
                \/ ReplyMangled(c)

Next == \/ Connect
        \/ Disconnect
        \/ Restart
        \/ \E c \in Commands : ClientStep(c) \/ VenueStep(c)

Spec == Init /\ [][Next]_vars

\* httpx bounds every request (http.TIMEOUT): an await ends.
FairSpec == Spec /\ \A c \in Commands : WF_vars(Return(c))

-------------------------------------------------------------------------------
Happened(o, event) == \E i \in DOMAIN events[o] : events[o][i] = event

\* An order the engine was told is REJECTED is not at the exchange, and no
\* request that could still put it there is under way: every ending of the
\* POST that leaves the question open emits nothing (execution.py:5-14).
RejectedNeverWorks ==
  \A c \in Commands : \A o \in Legs[c] :
    Happened(o, "rejected") => venue[c] # "placed" /\ wire[c] # "sent"

\* An order the engine was told is ACCEPTED was placed: no answer of another
\* kind, and no stray body, is taken for an acknowledgement.
AcceptedIsPlaced ==
  \A c \in Commands : \A o \in Legs[c] :
    Happened(o, "accepted") => venue[c] = "placed"

\* "A denial is a statement that nothing was sent" (execution.py:15-17): no
\* request for a denied order exists, or ever will in this or a later process.
DeniedNeverSent ==
  \A c \in Commands : \A o \in Legs[c] :
    Happened(o, "denied") => wire[c] = "none" /\ venue[c] = "unaware"

\* The only histories the engine sees of a submission: nothing after a denial,
\* SUBMITTED before anything else, at most one verdict, and an open question
\* only while the coroutine waits or after it ended without a verdict.
LegalHistories ==
  [idle     |-> {<<>>},
   posting  |-> {<<"submitted">>},
   lost     |-> {<<"submitted">>},
   returned |-> {<<"denied">>, <<"submitted">>,
                 <<"submitted", "accepted">>, <<"submitted", "rejected">>}]

HistoriesAreLegal ==
  \A c \in Commands : \A o \in Legs[c] : events[o] \in LegalHistories[task[c]]

\* What ties the engine's view to the request, command by command: a request
\* has no effect and no reply until it has arrived, a reply speaks of what Dhan
\* did, and a verdict told was such a reply.  The properties above follow from
\* it, and it is preserved by every step (see DhanSubmission_proofs).
RequestInv(c) ==
  /\ wire[c] # "gone" => venue[c] = "unaware" /\ reply[c] = NoReply
  /\ task[c] = "idle" => wire[c] = "none"
  /\ task[c] = "posting" => wire[c] # "none"
  /\ reply[c] \in {Ack, AckWithoutId} => venue[c] = "placed"
  /\ reply[c] \in Refusals => venue[c] = "declined"
  /\ reply[c] = Json(Scalar) => "scalar" \in GatewayFaults

VerdictInv(c) ==
  \A o \in Legs[c] :
    /\ events[o] \in LegalHistories[task[c]]
    /\ events[o] = <<"denied">> <=> task[c] = "returned" /\ wire[c] = "none"
    /\ events[o] = <<"submitted", "accepted">> => venue[c] = "placed"
    /\ events[o] = <<"submitted", "rejected">> =>
         venue[c] = "declined" \/ "scalar" \in GatewayFaults

IInv == StateTypes /\ \A c \in Commands : RequestInv(c) /\ VerdictInv(c)

\* Every submission under way ends: the coroutine never waits for ever.
EveryPostEnds ==
  \A c \in Commands : task[c] = "posting" ~> task[c] # "posting"

\* The client implements the abstract promise: what is at the exchange is
\* read off the request, and the engine knows the last thing it was told.
CommandOf(o) == CHOOSE c \in Commands : o \in Legs[c]

Truth(c) ==
  IF wire[c] = "none" THEN IF task[c] = "lost" THEN "never" ELSE "unsent"
  ELSE IF wire[c] = "sent" THEN "possible"
  ELSE IF venue[c] = "placed" THEN "working" ELSE "never"

Outcome == INSTANCE OrderOutcome WITH
  Together <- {Legs[c] : c \in Commands},
  truth <- [o \in Orders |-> Truth(CommandOf(o))],
  told  <- [o \in Orders |-> IF events[o] = <<>> THEN "nothing"
                             ELSE events[o][Len(events[o])]]

PromiseKept == Outcome!Spec
===============================================================================
