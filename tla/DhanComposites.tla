----------------------------- MODULE DhanComposites -----------------------------
(***************************************************************************)
(* Super orders and forever orders once they are at Dhan: the calls of     *)
(* DhanExecutionClient that act on one leg, or on the whole, and the       *)
(* reports read from the two books.                                        *)
(*   cancel_super_order_leg    DELETE /v2/super/orders/{id}/{leg}          *)
(*   modify_super_order_leg    PUT /v2/super/orders/{id}, a payload per leg*)
(*   cancel_forever_order      DELETE /v2/forever/orders/{id}              *)
(*   generate_*_order_reports  one report per leg, or per forever order    *)
(* A strategy awaits these itself: what it learns is whether the call      *)
(* returned or raised, and no event follows.  Any number of them overlap   *)
(* with one another and with the fills of the legs.                        *)
(*                                                                         *)
(* External: Dhan's legs and its two books, the network.                   *)
(***************************************************************************)
EXTENDS DhanErrors, FiniteSets

CONSTANTS
  Supers, Forevers,     \* order ids at Dhan
  Cancels, Modifies,    \* calls of the two kinds
  Of,                   \* the order each call is about
  LegOf,                \* the leg each call on a super order names
  Named,                \* the terms each modify names, with their values
  Unlisted,             \* orders whose instrument the scrip master lacks
  Unmapped,             \* statuses of Dhan that ORDER_STATUS lacks
  GatewayFaults,        \* what can replace Dhan's answer: "text", "scalar"
  MaxCalls              \* bound: of the calls, how many are made

Legs  == {"ENTRY_LEG", "TARGET_LEG", "STOP_LOSS_LEG"}
Exits == Legs \ {"ENTRY_LEG"}
Calls == Cancels \cup Modifies

\* "entry" stands for orderType, quantity and price.
Terms == {"entry", "targetPrice", "stopLossPrice", "trailingJump"}

ASSUME CompositesAssumption ==
  /\ Supers \cap Forevers = {} /\ Cancels \cap Modifies = {}
  /\ Of \in [Calls -> Supers \cup Forevers]
  /\ \A m \in Modifies : Of[m] \in Supers
  /\ DOMAIN LegOf = {c \in Calls : Of[c] \in Supers}
  /\ DOMAIN Named = Modifies
  /\ \A m \in Modifies : DOMAIN Named[m] \subseteq Terms
                         /\ \A t \in DOMAIN Named[m] : Named[m][t] \in Nat
  /\ Unlisted \subseteq Supers \cup Forevers
  /\ Unmapped \subseteq {"CLOSED"}
  /\ MaxCalls \in Nat

ASSUME FaultsAssumption == GatewayFaults \subseteq {"text", "scalar"}

VARIABLES
  told,      \* what each call's caller knows of it
  requests,  \* requests on their way to Dhan
  replies,   \* answers on their way back
  leg,       \* Dhan's status of each leg of each super order
  resting,   \* Dhan's status of each forever order
  applied,   \* history: the calls Dhan acted upon
  unsure,    \* history: the calls that ended with no answer to rely on
  reports,   \* the reports of the last book read, or that it raised
  rows       \* history: the rows they were made of

venue == <<leg, resting, applied>>
vars  == <<told, requests, replies, leg, resting, applied, unsure, reports, rows>>

Ack       == Json(Object([orderId |-> "id", orderStatus |-> "CANCELLED"]))
Refusal   == Json(Object([errorMessage |-> "words", errorCode |-> "DH-906",
                          errorType |-> "Order_Error"]))
IPRefusal == Json(Object([errorMessage |-> "ip", errorCode |-> "DH-905",
                          errorType |-> "Input_Exception"]))

\* What the caller reads in the place of Dhan's answer, whatever that was: a body
\* that is no JSON, or JSON that is neither object nor array.
Garbled == {Text : fault \in GatewayFaults \cap {"text"}}
             \cup {Json(Scalar) : fault \in GatewayFaults \cap {"scalar"}}
Responses == {Ack, Refusal, IPRefusal, HttpError} \cup Garbled

LegStates == {"PENDING", "TRADED", "CANCELLED"}
ReportedStates == {"ACCEPTED", "FILLED", "CANCELED"}

\* The id a leg's order is accepted under and reported by: the entry keeps the
\* bare id.  The mutant keys every leg on it.
BareVenueOrderId(o, l) == <<o>>
VenueOrderId(o, l) == IF l = "ENTRY_LEG" THEN <<o>> ELSE <<o, l>>

\* What reports_from ends with.
Found(set) == [raised |-> FALSE, found |-> set]
RaisedIt   == [raised |-> TRUE, found |-> {}]

TypeOK ==
  /\ told \in [Calls -> {"nothing", "waiting", "returned", "raised"}]
  /\ requests \subseteq {c \in Calls : told[c] # "nothing"}
  /\ \A r \in replies : r.by \in Calls /\ told[r.by] = "waiting" /\ r.says \in Responses
  /\ leg \in [Supers -> [Legs -> LegStates]]
  /\ resting \in [Forevers -> {"CONFIRM", "TRADED", "CANCELLED"}]
  /\ applied \subseteq Calls
  /\ unsure \subseteq Calls
  /\ reports.raised \in BOOLEAN
  /\ reports.raised => reports.found = {}
  /\ \A r \in reports.found : /\ r.venueOrderId[1] \in Supers \cup Forevers
                              /\ r.status \in ReportedStates
                              /\ r.filled \in BOOLEAN

Init ==
  /\ told = [c \in Calls |-> "nothing"]
  /\ requests = {}
  /\ replies = {}
  /\ leg = [o \in Supers |-> [l \in Legs |-> "PENDING"]]
  /\ resting = [o \in Forevers |-> "CONFIRM"]
  /\ applied = {}
  /\ unsure = {}
  /\ reports = Found({})
  /\ rows = {}

-------------------------------------------------------------------------------
\* A call sends its request and waits.  _checked refuses a leg there is not,
\* before anything is sent.
Known(c) == Of[c] \in Forevers \/ LegOf[c] \in Legs

Send(c) ==
  /\ told[c] = "nothing"
  /\ Cardinality({d \in Calls : told[d] # "nothing"}) < MaxCalls
  /\ told' = [told EXCEPT ![c] = IF Known(c) THEN "waiting" ELSE "raised"]
  /\ requests' = IF Known(c) THEN requests \cup {c} ELSE requests
  /\ UNCHANGED <<replies, venue, unsure, reports, rows>>

CancelSuperOrderLeg(c) == c \in Cancels  /\ Of[c] \in Supers   /\ Send(c)
ModifySuperOrderLeg(c) == c \in Modifies                       /\ Send(c)
CancelForeverOrder(c)  == c \in Cancels  /\ Of[c] \in Forevers /\ Send(c)

\* Each leg sends its own fields.  The stop always says whether it trails (0: it
\* does not); the entry says so only when the caller does.  Mutant: every leg
\* sends what it was given.
PayloadOfEverything(l, named) == named

ModifyPayload(l, named) ==
  IF l = "ENTRY_LEG" THEN named
  ELSE IF l = "TARGET_LEG"
  THEN [t \in DOMAIN named \cap {"targetPrice"} |-> named[t]]
  ELSE [t \in (DOMAIN named \cap {"stopLossPrice"}) \cup {"trailingJump"} |->
          IF t \in DOMAIN named THEN named[t] ELSE 0]

\* The legs a DELETE takes with it.  Mutant: the path stops at the order's id.
CancelPathWithoutLeg(c) == Legs
CancelPath(c) == IF LegOf[c] = "ENTRY_LEG" THEN Legs ELSE {LegOf[c]}

-------------------------------------------------------------------------------
\* `except Ambiguous` logs and returns; any other error reaches the caller.
\* Mutant: every DhanError is logged.
VerdictOfAnyError(r) == "returned"
Verdict(r) ==
  IF Answer(TRUE, r).outcome \in {"payload", "ambiguous"} THEN "returned" ELSE "raised"

Ended(c, r) ==
  /\ told[c] = "waiting"
  /\ r = HttpError \/ [by |-> c, says |-> r] \in replies
  /\ told' = [told EXCEPT ![c] = Verdict(r)]
  /\ replies' = {reply \in replies : reply.by # c}
  /\ unsure' = IF Answer(TRUE, r).outcome = "ambiguous" THEN unsure \cup {c} ELSE unsure
  /\ UNCHANGED <<requests, venue, reports, rows>>

CancelLegEnds(c, r)     == c \in Cancels  /\ Of[c] \in Supers   /\ Ended(c, r)
ModifyLegEnds(c, r)     == c \in Modifies                       /\ Ended(c, r)
CancelForeverEnds(c, r) == c \in Cancels  /\ Of[c] \in Forevers /\ Ended(c, r)

-------------------------------------------------------------------------------
\* ORDER_STATUS, with the forever book's own word for a resting order.
OrderStatus == [PENDING |-> "ACCEPTED", CONFIRM |-> "ACCEPTED", TRADED |-> "FILLED",
                CANCELLED |-> "CANCELED"]

\* A leg without a word of its own has that of its order.
LegStatus(row, l) ==
  IF l \in DOMAIN row.status THEN row.status[l] ELSE row.status["ENTRY_LEG"]

\* Mutant: the status goes out in Dhan's words.
LegReportUntranslated(row, l) ==
  [venueOrderId |-> VenueOrderId(row.order, l), status |-> LegStatus(row, l),
   filled |-> l = "ENTRY_LEG" /\ row.filled]

\* Only the entry has a filled quantity: a leg is reported with none.
LegReport(row, l) ==
  [venueOrderId |-> VenueOrderId(row.order, l), status |-> OrderStatus[LegStatus(row, l)],
   filled |-> l = "ENTRY_LEG" /\ row.filled]

\* reports_from of either book: rows that cannot be named are skipped; a status
\* that cannot be mapped raises, and nothing of the book is reported.
Nameable(book)    == {row \in book : row.order \notin Unlisted}
Unreadable(row)   == \E l \in row.legs : LegStatus(row, l) \notin DOMAIN OrderStatus
LegReports(found) == UNION {{LegReport(row, l) : l \in row.legs} : row \in found}

\* Mutant: a row with such a status is skipped.
SuperReportsSkipping(book) ==
  Found(LegReports({row \in Nameable(book) : ~Unreadable(row)}))

SuperReports(book) ==
  IF \E row \in Nameable(book) : Unreadable(row)
  THEN RaisedIt ELSE Found(LegReports(Nameable(book)))

\* A forever order is reported with nothing filled whatever its status.
ForeverReport(row) ==
  [venueOrderId |-> <<row.order>>, status |-> OrderStatus[row.status], filled |-> FALSE]

\* Mutant: a row with such a status is skipped.
ForeverReportsSkipping(book) ==
  Found({ForeverReport(row) :
           row \in {b \in Nameable(book) : b.status \in DOMAIN OrderStatus}})

ForeverReports(book) ==
  IF \E row \in Nameable(book) : row.status \notin DOMAIN OrderStatus
  THEN RaisedIt ELSE Found({ForeverReport(row) : row \in Nameable(book)})

\* External: the books as Dhan answers with them.  When an exit has traded the
\* row of the entry may say so in a word of its own, and so may that of a forever
\* order that has; a row may come without its exits, or without their statuses.
EntryStatuses(o) ==
  {leg[o]["ENTRY_LEG"]} \cup (IF \E l \in Exits : leg[o][l] = "TRADED" THEN Unmapped ELSE {})

SuperRows(o) ==
  {[order |-> o, legs |-> legs, filled |-> leg[o]["ENTRY_LEG"] = "TRADED",
    status |-> [l \in worded \cap legs |-> IF l = "ENTRY_LEG" THEN word ELSE leg[o][l]]] :
     word \in EntryStatuses(o), legs \in {Legs, {"ENTRY_LEG"}},
     worded \in {Legs, {"ENTRY_LEG"}}}

GenerateSuperOrderReports ==
  \E row \in [Supers -> UNION {SuperRows(o) : o \in Supers}] :
    /\ \A o \in Supers : row[o] \in SuperRows(o)
    /\ rows' = {row[o] : o \in Supers}
    /\ reports' = SuperReports({row[o] : o \in Supers})
    /\ UNCHANGED <<told, requests, replies, venue, unsure>>

ForeverStatuses(o) ==
  {resting[o]} \cup (IF resting[o] = "TRADED" THEN Unmapped ELSE {})

GenerateForeverOrderReports ==
  \E word \in [Forevers -> UNION {ForeverStatuses(o) : o \in Forevers}] :
    LET book == {[order |-> o, status |-> word[o]] : o \in Forevers} IN
    /\ \A o \in Forevers : word[o] \in ForeverStatuses(o)
    /\ rows' = book
    /\ reports' = ForeverReports(book)
    /\ UNCHANGED <<told, requests, replies, venue, unsure>>

-------------------------------------------------------------------------------
\* External: Dhan.  A leg is cancelled or modified while it works; when the
\* entry has traded its own terms are fixed, and a request that names one of
\* them is refused as a whole.
Fixed(o) == IF leg[o]["ENTRY_LEG"] = "PENDING" THEN {} ELSE {"entry"}

Acceptable(c) ==
  IF Of[c] \in Forevers THEN resting[Of[c]] = "CONFIRM"
  ELSE IF c \in Cancels THEN \E l \in CancelPath(c) : leg[Of[c]][l] = "PENDING"
  ELSE /\ leg[Of[c]][LegOf[c]] = "PENDING"
       /\ DOMAIN ModifyPayload(LegOf[c], Named[c]) \cap Fixed(Of[c]) = {}

Act(c) ==
  IF Of[c] \in Forevers
  THEN resting' = [resting EXCEPT ![Of[c]] = "CANCELLED"] /\ UNCHANGED leg
  ELSE IF c \in Cancels
  THEN /\ leg' = [leg EXCEPT ![Of[c]] =
                    [l \in Legs |-> IF l \in CancelPath(c) /\ @[l] = "PENDING"
                                    THEN "CANCELLED" ELSE @[l]]]
       /\ UNCHANGED resting
  ELSE UNCHANGED <<leg, resting>>   \* new terms, which nothing here reads

Reply(c, r) == IF told[c] = "waiting" THEN replies \cup {[by |-> c, says |-> r]} ELSE replies

DhanActs(c, r) ==
  /\ c \in requests /\ Acceptable(c)
  /\ r \in {Ack} \cup Garbled
  /\ Act(c)
  /\ applied' = applied \cup {c}
  /\ requests' = requests \ {c}
  /\ replies' = Reply(c, r)
  /\ UNCHANGED <<told, unsure, reports, rows>>

DhanRefuses(c, r) ==
  /\ c \in requests /\ ~Acceptable(c)
  /\ r \in {Refusal} \cup Garbled
  /\ requests' = requests \ {c}
  /\ replies' = Reply(c, r)
  /\ UNCHANGED <<told, venue, unsure, reports, rows>>

\* Some requests come from an address that is not whitelisted; some are lost.
GatewayRefuses(c) ==
  /\ c \in requests
  /\ requests' = requests \ {c}
  /\ replies' \in {Reply(c, IPRefusal), replies}
  /\ UNCHANGED <<told, venue, unsure, reports, rows>>

Fills(o, l) ==
  /\ leg[o][l] = "PENDING"
  /\ l \in Exits => leg[o]["ENTRY_LEG"] = "TRADED"
  /\ leg' = [leg EXCEPT ![o] =
               [k \in Legs |-> IF k = l THEN "TRADED"
                               ELSE IF l \in Exits /\ @[k] = "PENDING" THEN "CANCELLED"
                               ELSE @[k]]]
  /\ UNCHANGED <<told, requests, replies, resting, applied, unsure, reports, rows>>

Triggers(o) ==
  /\ resting[o] = "CONFIRM"
  /\ resting' = [resting EXCEPT ![o] = "TRADED"]
  /\ UNCHANGED <<told, requests, replies, leg, applied, unsure, reports, rows>>

Next ==
  \/ \E c \in Calls : CancelSuperOrderLeg(c) \/ ModifySuperOrderLeg(c) \/ CancelForeverOrder(c)
  \/ \E c \in Calls, r \in Responses :
       CancelLegEnds(c, r) \/ ModifyLegEnds(c, r) \/ CancelForeverEnds(c, r)
       \/ DhanActs(c, r) \/ DhanRefuses(c, r)
  \/ \E c \in Calls : GatewayRefuses(c)
  \/ \E o \in Supers, l \in Legs : Fills(o, l)
  \/ \E o \in Forevers : Triggers(o)
  \/ GenerateSuperOrderReports \/ GenerateForeverOrderReports

Spec == Init /\ [][Next]_vars
-------------------------------------------------------------------------------
\* A call that raised was not acted upon and never will be; one that returned
\* was, unless its answer was lost -- and of that the caller is told nothing
\* but a line of the log (execution.py:776-782, 794-800, 895-900).  Of a JSON
\* scalar read in the place of the answer this is not so: it raises as a refusal
\* does (errors.py:144-147).
CallsEndTruly ==
  \A c \in Calls : /\ told[c] = "raised" => c \notin applied \cup requests
                   /\ told[c] = "returned" /\ c \notin unsure => c \in applied

\* "Each leg sends only its own fields ... once the entry is TRADED they cannot
\* move at all, and the request is refused" (super_orders.py:167-170): a modify
\* of an exit composed before the entry filled is not refused after it, so an
\* exit that still works can always be moved.
ExitsMoveAfterTheFill ==
  [][\A m \in Modifies :
       LegOf[m] \in Exits /\ [by |-> m, says |-> Refusal] \in replies' \ replies
         => leg[Of[m]][LegOf[m]] # "PENDING"]_vars

\* "Cancelling a TARGET_LEG or STOP_LOSS_LEG on its own is irreversible ...
\* Cancel ENTRY_LEG to cancel all three" (super_orders.py:63-68): no leg ends
\* cancelled but by a call that named it or the entry, or by the other exit.
CancelledAsAsked ==
  \A o \in Supers, l \in Legs :
    leg[o][l] = "CANCELLED" =>
      \/ \E c \in Cancels \cap applied : Of[c] = o /\ LegOf[c] \in {l, "ENTRY_LEG"}
      \/ l \in Exits /\ \E k \in Exits \ {l} : leg[o][k] = "TRADED"

\* "Keyed on orderId alone, two of the three would collide and vanish"
\* (docs/execution.md:169-171): a book that is reported has, for every order that
\* can be named, one report under the id of each leg the row lists, and it tells
\* what the row says of that leg; otherwise the call raises.
EveryLegIsReported ==
  ~reports.raised =>
    /\ \A row \in rows : row.order \in Supers \ Unlisted =>
         \A l \in row.legs : \E r \in reports.found :
           /\ l \in DOMAIN row.status => r.status = OrderStatus[row.status[l]]
           /\ \A q \in reports.found : q.venueOrderId = VenueOrderId(row.order, l) <=> q = r
    /\ \A row \in rows : row.order \in Forevers \ Unlisted =>
         \E r \in reports.found : r.venueOrderId = <<row.order>>
                            /\ r.status = OrderStatus[row.status]
===============================================================================
