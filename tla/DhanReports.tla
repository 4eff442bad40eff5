------------------------------ MODULE DhanReports ------------------------------
(***************************************************************************)
(* Reconciliation: what DhanExecutionClient reports of Dhan's books.       *)
(*   generate_mass_status          the order, trade and position books,    *)
(*                                 read one after the other                *)
(*   generate_order_status_report  one order, by Dhan's id when we have it *)
(*                                 and by correlationId when we do not     *)
(*   _reports_from                 rows to reports                         *)
(* The exchange goes on trading between the reads of a mass status.        *)
(*                                                                         *)
(* External: Dhan's books and the answers to the GETs.                     *)
(***************************************************************************)
EXTENDS Naturals, FiniteSets

CONSTANTS
  Ours,          \* the client order ids in the engine's cache
  Foreign,       \* orders of the account the cache does not have
  Correlation,   \* Correlation[o]: the correlationId Dhan has for o
  Asked,         \* those of ours whose status the engine asks for one by one
  Instruments, InstrumentOf,
  Unlisted,      \* instruments missing from the loaded scrip master
  Size,          \* trades that fill an order
  Faults         \* "raises": a GET that fails, or brings a row that cannot be read

Orders == Ours \cup Foreign
None   == "none"

ASSUME OrdersAssumption ==
  /\ Ours \cap Foreign = {} /\ IsFiniteSet(Orders)
  /\ Asked \subseteq Ours
  /\ DOMAIN Correlation = Orders
  /\ \A o \in Ours, p \in Orders : Correlation[o] = Correlation[p] => o = p
  /\ InstrumentOf \in [Orders -> Instruments]
  /\ Unlisted \subseteq Instruments
  /\ Size \in Nat \ {0}
  /\ Faults \subseteq {"raises"}
  /\ None \notin Ours

VARIABLES
  book,     \* Dhan's status of each order; "none" before it is placed
  traded,   \* the number of its trades
  idOf,     \* our orders whose venue order id the engine knows
  mass,     \* the mass status: where its coroutine is
  answer,   \* the answer to the GET it awaits
  reports,  \* what it has gathered: sets of order, fill and position reports
  before,   \* history: the books when it began
  lookup,   \* the status request for one of our orders: where it is
  found     \* the answer it gave

venue == <<book, traded>>
vars  == <<book, traded, idOf, mass, answer, reports, before, lookup, found>>

BookStates == {None, "TRANSIT", "PENDING", "PART_TRADED", "TRADED"}
Waiting    == {"orders", "trades", "positions"}

\* The rows of the three books.
OrderRow(o) == [order |-> o, correlation |-> Correlation[o],
                instrument |-> InstrumentOf[o], status |-> book[o],
                filled |-> traded[o]]
TradeRow(o, n) == [order |-> o, trade |-> n, instrument |-> InstrumentOf[o]]

Traded(i) == {t \in Orders \X (1 .. Size) :
                InstrumentOf[t[1]] = i /\ t[2] <= traded[t[1]]}
PositionRow(i) == [instrument |-> i, net |-> Cardinality(Traded(i))]

OrderBook    == {OrderRow(o) : o \in {p \in Orders : book[p] # None}}
TradeBook    == {TradeRow(t[1], t[2]) :
                   t \in {u \in Orders \X (1 .. Size) : u[2] <= traded[u[1]]}}
PositionBook == {PositionRow(i) : i \in {j \in Instruments : Traded(j) # {}}}

Books == [orders |-> OrderBook, trades |-> TradeBook, positions |-> PositionBook]
Empty == [orders |-> {}, trades |-> {}, positions |-> {}]

\* Mutants: the correlationId is cast; a row that names nobody is taken for ours.
ClientOrderIdByCast(row) == row.correlation
ClientOrderIdNearest(row) ==
  CHOOSE o \in Ours : \A p \in Ours : Correlation[p] = row.correlation => o = p

\* client_order_id_for: the order of ours that row is about, or None.
ClientOrderId(row) ==
  IF \E o \in Ours : Correlation[o] = row.correlation
  THEN CHOOSE o \in Ours : Correlation[o] = row.correlation ELSE None

\* _reports_from: a row whose instrument cannot be named is skipped, loudly.
Report(row) == IF "correlation" \in DOMAIN row
               THEN [row |-> row, clientOrderId |-> ClientOrderId(row)]
               ELSE [row |-> row]

ReportsFrom(rows) ==
  {Report(row) : row \in {r \in rows : r.instrument \notin Unlisted}}

TypeOK ==
  /\ book \in [Orders -> BookStates]
  /\ traded \in [Orders -> 0 .. Size]
  /\ idOf \subseteq Ours
  /\ mass \in Waiting \cup {"idle", "reported", "raised"}
  /\ answer.says \in {None, "rows"} \cup Faults
  /\ answer.says = "rows" => mass \in Waiting
  /\ DOMAIN reports = Waiting
  /\ \A r \in reports["orders"] : r.clientOrderId \in Ours \cup {None}
  /\ lookup \in [Ours -> {"idle", "byVenueId", "byCorrelation", "answered"}]
  /\ found \in [Ours -> {None, "report", "nothing", "raised"}]

Init ==
  /\ book = [o \in Orders |-> None]
  /\ traded = [o \in Orders |-> 0]
  /\ idOf = {}
  /\ mass = "idle"
  /\ answer = [says |-> None]
  /\ reports = Empty
  /\ before = Empty
  /\ lookup = [o \in Ours |-> "idle"]
  /\ found = [o \in Ours |-> None]

-------------------------------------------------------------------------------
\* generate_mass_status: each read is awaited before the next is asked for, and
\* whatever a read or a row raises ends it without a report.
ReadingOrderByTrades    == <<"trades", "orders", "positions">>   \* mutants: the same
ReadingOrderByPositions == <<"positions", "orders", "trades">>   \* reads, reordered
ReadingOrder            == <<"orders", "trades", "positions">>

AfterReading(kind) ==
  LET i == CHOOSE j \in 1 .. 3 : ReadingOrder[j] = kind IN
  IF i = 3 THEN "reported" ELSE ReadingOrder[i + 1]

MassStatus ==
  /\ mass = "idle"
  /\ mass' = ReadingOrder[1]
  /\ before' = Books
  /\ UNCHANGED <<venue, idOf, answer, reports, lookup, found>>

\* Mutant: a read that failed is an empty book.
MassReadsAnyway ==
  /\ mass \in Waiting /\ answer.says # None
  /\ mass' = AfterReading(mass)
  /\ reports' = IF answer.says = "rows"
                THEN [reports EXCEPT ![mass] = ReportsFrom(answer.rows)] ELSE reports
  /\ answer' = [says |-> None]
  /\ UNCHANGED <<venue, idOf, before, lookup, found>>

MassReads ==
  /\ mass \in Waiting /\ answer.says = "rows"
  /\ mass' = AfterReading(mass)
  /\ reports' = [reports EXCEPT ![mass] = ReportsFrom(answer.rows)]
  /\ answer' = [says |-> None]
  /\ UNCHANGED <<venue, idOf, before, lookup, found>>

MassRaises ==
  /\ mass \in Waiting /\ answer.says \in Faults
  /\ mass' = "raised"
  /\ answer' = [says |-> None]
  /\ UNCHANGED <<venue, idOf, reports, before, lookup, found>>

-------------------------------------------------------------------------------
\* generate_order_status_report: Dhan's id if the engine has it; if not, the
\* client order id as it is -- not the correlationId derived from it.
LookUp(o) ==
  /\ lookup[o] = "idle"
  /\ lookup' = [lookup EXCEPT ![o] = IF o \in idOf THEN "byVenueId" ELSE "byCorrelation"]
  /\ UNCHANGED <<venue, idOf, mass, answer, reports, before, found>>

\* What Dhan has under what was asked: an order in TRANSIT is not found by
\* correlationId.
Matches(o) ==
  IF lookup[o] = "byVenueId" THEN {p \in Orders : p = o /\ book[p] # None}
  ELSE {p \in Orders : Correlation[p] = o /\ book[p] \notin {None, "TRANSIT"}}

\* Mutant: any refusal of the lookup reads as "no such order".
LookUpReturnsNothingOnError(o) ==
  /\ lookup[o] \in {"byVenueId", "byCorrelation"}
  /\ lookup' = [lookup EXCEPT ![o] = "answered"]
  /\ \/ found' = [found EXCEPT ![o] =
                    IF {p \in Matches(o) : InstrumentOf[p] \notin Unlisted} = {}
                    THEN "nothing" ELSE "report"]
     \/ Faults # {} /\ found' = [found EXCEPT ![o] = "nothing"]
  /\ UNCHANGED <<venue, idOf, mass, answer, reports, before>>

\* "No such order" is an answer, in either endpoint's words; other errors raise.
LookUpReturns(o) ==
  /\ lookup[o] \in {"byVenueId", "byCorrelation"}
  /\ lookup' = [lookup EXCEPT ![o] = "answered"]
  /\ \/ found' = [found EXCEPT ![o] =
                    IF {p \in Matches(o) : InstrumentOf[p] \notin Unlisted} = {}
                    THEN "nothing" ELSE "report"]
     \/ Faults # {} /\ found' = [found EXCEPT ![o] = "raised"]
  /\ UNCHANGED <<venue, idOf, mass, answer, reports, before>>

-------------------------------------------------------------------------------
\* External: Dhan answers a GET with the book as it is at some moment of the
\* call; places and trades orders; the engine learns a venue order id.
BookAnswered ==
  /\ mass \in Waiting /\ answer.says = None
  /\ answer' \in {[says |-> "rows", rows |-> Books[mass]]} \cup [says : Faults]
  /\ UNCHANGED <<venue, idOf, mass, reports, before, lookup, found>>

BookMoves(o) ==
  /\ \/ book[o] = None /\ book' = [book EXCEPT ![o] = "TRANSIT"] /\ UNCHANGED traded
     \/ book[o] = "TRANSIT" /\ book' = [book EXCEPT ![o] = "PENDING"] /\ UNCHANGED traded
     \/ /\ book[o] \in {"PENDING", "PART_TRADED"}
        /\ traded' = [traded EXCEPT ![o] = @ + 1]
        /\ book' = [book EXCEPT ![o] =
                      IF traded[o] + 1 = Size THEN "TRADED" ELSE "PART_TRADED"]
  /\ UNCHANGED <<idOf, mass, answer, reports, before, lookup, found>>

EngineLearns(o) ==
  /\ book[o] # None
  /\ idOf' = idOf \cup {o}
  /\ UNCHANGED <<venue, mass, answer, reports, before, lookup, found>>

Next == \/ MassStatus \/ MassReads \/ MassRaises \/ BookAnswered
        \/ \E o \in Asked : LookUp(o) \/ LookUpReturns(o) \/ EngineLearns(o)
        \/ \E o \in Orders : BookMoves(o)

Spec == Init /\ [][Next]_vars
-------------------------------------------------------------------------------
Reported(kind) == {r.row : r \in reports[kind]}

\* "A FAILED READ IS NOT AN EMPTY BOOK" (execution.py:496-499): a mass status
\* that is delivered has every order, fill and position there was when it was
\* asked for, strangers' too, but for instruments it cannot name.
CompleteOrRaised ==
  mass = "reported" =>
    /\ \A row \in before["orders"] : row.instrument \notin Unlisted =>
         \E r \in Reported("orders") : r.order = row.order
    /\ \A row \in before["trades"] : row.instrument \notin Unlisted =>
         row \in Reported("trades")
    /\ \A row \in before["positions"] : row.instrument \notin Unlisted =>
         \E r \in Reported("positions") : r.instrument = row.instrument

\* The three reads are not one snapshot, but they disagree in one direction
\* only: every unit an order report says is filled has its fill report, and
\* every fill reported is in the position.  The engine finds no fill it would
\* have to infer and no position it cannot reach.
FilledIsExplained ==
  mass = "reported" =>
    \A r \in Reported("orders") : \A n \in 1 .. r.filled :
      \E f \in Reported("trades") : f.order = r.order /\ f.trade = n

FillsAreInThePosition ==
  mass = "reported" =>
    \A i \in Instruments \ Unlisted :
      LET fills == {f \in Reported("trades") : f.instrument = i} IN
      fills # {} => \E p \in Reported("positions") :
                      p.instrument = i /\ Cardinality(fills) <= p.net

\* "Guessing at the nearest of our own would attach a stranger's fill to our
\* position" (orders.py:244-247): a report carries a client order id exactly
\* when it is about that order, however its id went out.
ReportsAreAttributed ==
  \A r \in reports["orders"] :
    r.clientOrderId = IF r.row.order \in Ours THEN r.row.order ELSE None

\* `GET /v2/orders/external/{id}` still finds the order (DHAN_API_NOTES.md:61-65):
\* "nothing" is not the answer about an order that is working at Dhan.
LookUpFindsIt ==
  [][\A o \in Ours :
       (lookup[o] = "byCorrelation" /\ lookup'[o] = "answered" /\ found'[o] = "nothing")
         => book[o] \in {None, "TRANSIT"}]_vars
===============================================================================
