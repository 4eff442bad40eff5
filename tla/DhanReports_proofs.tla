-------------------------- MODULE DhanReports_proofs --------------------------
(***************************************************************************)
(* For any orders, instruments, trades and faults: what a mass status      *)
(* promises of the books it was made from.  The books only grow, so each   *)
(* answer is as large as the one before it, as far as they can be compared *)
(* at all; Inv says this of the answer in hand and of what is gathered.    *)
(***************************************************************************)
EXTENDS DhanReports, FiniteSetTheorems, TLAPS

PastOrders == mass \in {"trades", "positions", "reported"}
PastTrades == mass \in {"positions", "reported"}

(* The type of what the properties of a mass status speak about.           *)
VenueType ==
  /\ book \in [Orders -> BookStates]
  /\ traded \in [Orders -> 0 .. Size]
  /\ \A o \in Orders : /\ book[o] \in {None, "TRANSIT", "PENDING"} => traded[o] = 0
                       /\ book[o] = "TRADED" <=> traded[o] = Size

MassType ==
  /\ mass \in Waiting \cup {"idle", "reported", "raised"}
  /\ answer.says \in {None, "rows"} \cup Faults
  /\ answer.says = "rows" => mass \in Waiting
  /\ DOMAIN reports = Waiting

(* A row of an order book read by now, of an order that has grown since.   *)
OrderRead(row) ==
  /\ row.order \in Orders /\ "correlation" \in DOMAIN row
  /\ row.correlation = Correlation[row.order]
  /\ row.instrument = InstrumentOf[row.order]
  /\ row.filled \in Nat /\ row.filled <= traded[row.order]

(* The books when it began are no larger than they are now.                *)
BeforeInv ==
  /\ \A row \in before["orders"] :
       /\ row.order \in Orders /\ row.instrument = InstrumentOf[row.order]
       /\ book[row.order] # None
  /\ before["trades"] \subseteq TradeBook
  /\ \A row \in before["positions"] :
       row.instrument \in Instruments /\ Traded(row.instrument) # {}

\* Rows that name the orders of the first book, with each unit filled.
NamesOrders(rows, listed) ==
  \A row \in before["orders"] :
    row.instrument \in listed => \E r \in rows : r.order = row.order
HasTrades(rows, listed) ==
  /\ \A row \in before["trades"] : row.instrument \in listed => row \in rows
  /\ \A r \in Reported("orders") : \A n \in 1 .. r.filled : TradeRow(r.order, n) \in rows

FillsIn(i) == {f \in Reported("trades") : f.instrument = i}
HasPositions(rows, listed) ==
  /\ \A row \in before["positions"] : row.instrument \in listed =>
       \E r \in rows : r.instrument = row.instrument
  /\ \A i \in Instruments \cap listed : FillsIn(i) # {} =>
       \E p \in rows : p.instrument = i /\ Cardinality(FillsIn(i)) <= p.net

(* The answer in hand, and what has been gathered.                         *)
AnswerInv ==
  answer.says = "rows" =>
    /\ mass = "orders" =>
         NamesOrders(answer.rows, Instruments) /\ \A row \in answer.rows : OrderRead(row)
    /\ mass = "trades" =>
         HasTrades(answer.rows, Instruments) /\ answer.rows \subseteq TradeBook
    /\ mass = "positions" => HasPositions(answer.rows, Instruments)

Listed == Instruments \ Unlisted

GatheredInv ==
  /\ \A r \in reports["orders"] :
       /\ OrderRead(r.row) /\ r.row.instrument \in Listed
       /\ r.clientOrderId = IF r.row.order \in Ours THEN r.row.order ELSE None
  /\ Reported("trades") \subseteq TradeBook
  /\ PastOrders => NamesOrders(Reported("orders"), Listed)
  /\ PastTrades => HasTrades(Reported("trades"), Listed)
  /\ mass = "reported" => HasPositions(Reported("positions"), Listed)

Inv == VenueType /\ MassType /\ BeforeInv /\ AnswerInv /\ GatheredInv

-------------------------------------------------------------------------------
(* The reads follow one another: orders, trades, positions, and an end.    *)
LEMMA ReadsInOrder ==
  /\ ReadingOrder[1] = "orders" /\ AfterReading("orders") = "trades"
  /\ AfterReading("trades") = "positions" /\ AfterReading("positions") = "reported"
<1>1. /\ ReadingOrder[1] = "orders" /\ ReadingOrder[2] = "trades"
      /\ ReadingOrder[3] = "positions"
  BY DEF ReadingOrder
<1>2. \A j \in 1 .. 3 : j = 1 \/ j = 2 \/ j = 3
  OBVIOUS
<1>3. (CHOOSE j \in 1 .. 3 : ReadingOrder[j] = "orders") = 1
  BY <1>1, <1>2
<1>4. (CHOOSE j \in 1 .. 3 : ReadingOrder[j] = "trades") = 2
  BY <1>1, <1>2
<1>5. (CHOOSE j \in 1 .. 3 : ReadingOrder[j] = "positions") = 3
  BY <1>1, <1>2
<1>6. AfterReading("orders") = "trades"
  BY <1>1, <1>3 DEF AfterReading
<1>7. AfterReading("trades") = "positions"
  BY <1>1, <1>4 DEF AfterReading
<1>8. AfterReading("positions") = "reported"
  BY <1>5 DEF AfterReading
<1>9. QED  BY <1>1, <1>6, <1>7, <1>8

(* A row of Dhan's order book is attributed to the order it is about, and  *)
(* a stranger's to nobody (orders.py:239-257).                             *)
LEMMA Attribution ==
  ASSUME NEW row, row.order \in Orders, row.correlation = Correlation[row.order]
  PROVE  ClientOrderId(row) = IF row.order \in Ours THEN row.order ELSE None
<1>1. \A o \in Ours : Correlation[o] = row.correlation => o = row.order
  BY OrdersAssumption
<1>2. CASE row.order \in Ours
  <2>1. \E o \in Ours : Correlation[o] = row.correlation
    BY <1>2
  <2>2. (CHOOSE o \in Ours : Correlation[o] = row.correlation) \in Ours
        /\ Correlation[CHOOSE o \in Ours : Correlation[o] = row.correlation] = row.correlation
    BY <2>1
  <2>3. QED  BY <1>1, <1>2, <2>1, <2>2 DEF ClientOrderId
<1>3. CASE row.order \notin Ours
  BY <1>1, <1>3 DEF ClientOrderId
<1>4. QED  BY <1>2, <1>3

(* The rows of the trade and order books.                                  *)
LEMMA TradeBookRows ==
  ASSUME NEW row
  PROVE  row \in TradeBook <=>
           \E o \in Orders, n \in 1 .. Size : n <= traded[o] /\ row = TradeRow(o, n)
<1>1. ASSUME NEW o \in Orders, NEW n \in 1 .. Size, n <= traded[o]
      PROVE  TradeRow(o, n) \in TradeBook
  <2>1. <<o, n>> \in {u \in Orders \X (1 .. Size) : u[2] <= traded[u[1]]}
    BY <1>1
  <2>2. TradeRow(<<o, n>>[1], <<o, n>>[2]) \in TradeBook
    BY <2>1 DEF TradeBook
  <2>3. QED  BY <2>2
<1>2. ASSUME row \in TradeBook
      PROVE  \E o \in Orders, n \in 1 .. Size : n <= traded[o] /\ row = TradeRow(o, n)
  <2>1. PICK t \in Orders \X (1 .. Size) : t[2] <= traded[t[1]] /\ row = TradeRow(t[1], t[2])
    BY <1>2 DEF TradeBook
  <2>2. t[1] \in Orders /\ t[2] \in 1 .. Size
    BY <2>1
  <2>3. QED  BY <2>1, <2>2
<1>3. QED  BY <1>1, <1>2

(* A row of the order book is what some order looks like at Dhan now.      *)
LEMMA OrderBookRows ==
  ASSUME VenueType, NEW row \in OrderBook
  PROVE  OrderRead(row) /\ book[row.order] # None
<1>1. PICK o \in Orders : book[o] # None /\ row = OrderRow(o)
  BY DEF OrderBook
<1>2. /\ row.order = o /\ row.correlation = Correlation[o]
      /\ row.instrument = InstrumentOf[o] /\ row.filled = traded[o]
      /\ "correlation" \in DOMAIN row
  BY <1>1 DEF OrderRow
<1>3. traded[o] \in Nat
  BY OrdersAssumption DEF VenueType
<1>4. QED  BY <1>1, <1>2, <1>3 DEF OrderRead

(* The row of a trade in the book, and its instrument.                     *)
LEMMA TradeRowFields ==
  ASSUME NEW o \in Orders, NEW n
  PROVE  /\ TradeRow(o, n).order = o /\ TradeRow(o, n).trade = n
         /\ TradeRow(o, n).instrument = InstrumentOf[o]
         /\ TradeRow(o, n).instrument \in Instruments
         /\ "correlation" \notin DOMAIN TradeRow(o, n)
BY OrdersAssumption DEF TradeRow

(* A row that is a unit filled of an order row read is in the trade book.  *)
LEMMA FilledUnitsAreTrades ==
  ASSUME VenueType, NEW row, OrderRead(row), NEW n \in 1 .. row.filled
  PROVE  TradeRow(row.order, n) \in TradeBook
<1>1. row.order \in Orders /\ traded[row.order] \in 0 .. Size
  BY DEF OrderRead, VenueType
<1>2. n \in 1 .. Size /\ n <= traded[row.order]
  BY <1>1, OrdersAssumption DEF OrderRead
<1>3. QED  BY <1>1, <1>2, TradeBookRows

(* The fills reported of an instrument are no more than its trades.        *)
LEMMA FillsAreCounted ==
  ASSUME VenueType, Reported("trades") \subseteq TradeBook, NEW i \in Instruments
  PROVE  /\ Cardinality(FillsIn(i)) <= Cardinality(Traded(i))
         /\ FillsIn(i) # {} => Traded(i) # {}
         /\ Cardinality(Traded(i)) \in Nat
<1> DEFINE pair == [f \in FillsIn(i) |-> <<f.order, f.trade>>]
<1>1. ASSUME NEW f \in FillsIn(i)
      PROVE  \E o \in Orders, n \in 1 .. Size :
               /\ f = TradeRow(o, n) /\ f.order = o /\ f.trade = n
               /\ <<o, n>> \in Traded(i)
  <2>1. f \in TradeBook /\ f.instrument = i
    BY DEF FillsIn
  <2>2. PICK o \in Orders, n \in 1 .. Size : n <= traded[o] /\ f = TradeRow(o, n)
    BY <2>1, TradeBookRows
  <2>3. f.order = o /\ f.trade = n /\ InstrumentOf[o] = i
    BY <2>1, <2>2, TradeRowFields
  <2>4. <<o, n>> \in Traded(i)
    BY <2>2, <2>3 DEF Traded
  <2>5. QED  BY <2>2, <2>3, <2>4
<1>2. pair \in [FillsIn(i) -> Traded(i)]
  BY <1>1
<1>3. ASSUME NEW f \in FillsIn(i), NEW g \in FillsIn(i), pair[f] = pair[g] PROVE f = g
  <2>1. f.order = g.order /\ f.trade = g.trade
    BY <1>3
  <2>2. f = TradeRow(f.order, f.trade) /\ g = TradeRow(g.order, g.trade)
    BY <1>1
  <2>3. QED  BY <2>1, <2>2
<1>4. pair \in Injection(FillsIn(i), Traded(i))
  BY <1>2, <1>3 DEF Injection, IsInjective
<1>5. IsFiniteSet(Traded(i))
  <2>1. IsFiniteSet(Orders \X (1 .. Size))
    <3>1. IsFiniteSet(Orders) /\ IsFiniteSet(1 .. Size)
      BY OrdersAssumption, FS_Interval
    <3>2. QED  BY <3>1, FS_Product
  <2>2. Traded(i) \subseteq Orders \X (1 .. Size)
    BY DEF Traded
  <2>3. QED  BY <2>1, <2>2, FS_Subset
<1>6. Cardinality(FillsIn(i)) <= Cardinality(Traded(i))
  BY <1>4, <1>5, FS_Injection
<1>7. QED  BY <1>1, <1>5, <1>6, FS_CardinalityType

-------------------------------------------------------------------------------
(* Nothing is anywhere at the start.                                       *)
LEMMA InitInv == Init => Inv
<1> SUFFICES ASSUME Init PROVE Inv
  OBVIOUS
<1>1. VenueType /\ MassType
  BY OrdersAssumption DEF Init, VenueType, MassType, BookStates, None, Empty, Waiting
<1>2. /\ before["orders"] = {} /\ before["trades"] = {} /\ before["positions"] = {}
      /\ reports["orders"] = {} /\ reports["trades"] = {} /\ reports["positions"] = {}
      /\ mass = "idle" /\ answer.says # "rows"
  BY DEF Init, Empty, None
<1>3. BeforeInv /\ AnswerInv /\ GatheredInv
  BY <1>2 DEF BeforeInv, AnswerInv, GatheredInv, Reported, PastOrders, PastTrades
<1>4. QED  BY <1>1, <1>3 DEF Inv

(* The mass status begins: the books as they are are its measure.          *)
LEMMA MassStatusKeeps == Inv /\ MassStatus => Inv'
<1> SUFFICES ASSUME Inv, MassStatus PROVE Inv'
  OBVIOUS
<1> USE DEF Inv
<1>1. /\ mass = "idle" /\ mass' = "orders" /\ before' = Books
      /\ UNCHANGED <<book, traded, answer, reports>>
  BY ReadsInOrder DEF MassStatus, venue
<1>2. /\ Books["orders"] = OrderBook /\ Books["trades"] = TradeBook
      /\ Books["positions"] = PositionBook
  BY DEF Books
<1>3. VenueType' /\ MassType' /\ answer.says # "rows"
  BY <1>1 DEF VenueType, MassType, Waiting
<1>4. BeforeInv'
  <2>1. \A row \in OrderBook :
          /\ row.order \in Orders /\ row.instrument = InstrumentOf[row.order]
          /\ book[row.order] # None
    BY OrderBookRows DEF OrderRead
  <2>2. \A row \in PositionBook :
          row.instrument \in Instruments /\ Traded(row.instrument) # {}
    BY DEF PositionBook, PositionRow
  <2>3. TradeBook' = TradeBook /\ \A i : Traded(i)' = Traded(i)
    BY <1>1 DEF TradeBook, TradeRow, Traded
  <2>4. QED  BY <1>1, <1>2, <2>1, <2>2, <2>3 DEF BeforeInv
<1>5. AnswerInv'
  BY <1>1, <1>3 DEF AnswerInv
<1>6. GatheredInv'
  <2>1. Reported("trades")' = Reported("trades") /\ TradeBook' = TradeBook
    BY <1>1 DEF Reported, TradeBook, TradeRow
  <2>2. QED  BY <1>1, <2>1 DEF GatheredInv, OrderRead, PastOrders, PastTrades
<1>7. QED  BY <1>3, <1>4, <1>5, <1>6

(* Dhan's books grow, and what was read of them stays true.                *)
LEMMA BookMovesKeeps ==
  ASSUME Inv, NEW o \in Orders, BookMoves(o)
  PROVE  Inv'
<1> USE DEF Inv
<1>1. UNCHANGED <<mass, answer, reports, before>>
  BY DEF BookMoves
<1>2. /\ book[o] \in {None, "TRANSIT"} => traded' = traded
      /\ book[o] = None => book' = [book EXCEPT ![o] = "TRANSIT"]
      /\ book[o] = "TRANSIT" => book' = [book EXCEPT ![o] = "PENDING"]
      /\ book[o] \notin {None, "TRANSIT"} =>
           /\ traded' = [traded EXCEPT ![o] = @ + 1]
           /\ book' = [book EXCEPT ![o] =
                         IF traded[o] + 1 = Size THEN "TRADED" ELSE "PART_TRADED"]
           /\ book[o] \in {"PENDING", "PART_TRADED"}
  BY DEF BookMoves, None
<1>3. book[o] \in BookStates /\ traded[o] \in 0 .. Size /\ Size \in Nat \ {0}
  BY OrdersAssumption DEF VenueType
<1>4. VenueType'
  <2>1. CASE book[o] \in {None, "TRANSIT"}
    <3>1. \A p \in Orders : p # o => book'[p] = book[p] /\ traded'[p] = traded[p]
      BY <1>2, <2>1 DEF VenueType
    <3>2. book'[o] \in {"TRANSIT", "PENDING"} /\ traded'[o] = 0
      BY <1>2, <2>1 DEF VenueType
    <3>3. book' \in [Orders -> BookStates] /\ traded' \in [Orders -> 0 .. Size]
      BY <1>2, <2>1 DEF VenueType, BookStates
    <3>4. QED  BY <1>3, <3>1, <3>2, <3>3 DEF VenueType
  <2>2. CASE book[o] \notin {None, "TRANSIT"}
    <3>1. \A p \in Orders : p # o => book'[p] = book[p] /\ traded'[p] = traded[p]
      BY <1>2, <2>2 DEF VenueType
    <3>2. traded[o] + 1 \in 1 .. Size
      BY <1>2, <1>3, <2>2 DEF VenueType
    <3>3. /\ traded'[o] = traded[o] + 1
          /\ book'[o] = IF traded[o] + 1 = Size THEN "TRADED" ELSE "PART_TRADED"
      BY <1>2, <2>2 DEF VenueType
    <3>4. book' \in [Orders -> BookStates] /\ traded' \in [Orders -> 0 .. Size]
      BY <1>2, <2>2, <3>2 DEF VenueType, BookStates
    <3>5. QED  BY <1>3, <3>1, <3>2, <3>3, <3>4 DEF VenueType, None
  <2>3. QED  BY <2>1, <2>2
<1>5. \A p \in Orders :
        /\ traded[p] \in Nat /\ traded'[p] \in Nat /\ traded[p] <= traded'[p]
        /\ book[p] # None => book'[p] # None
  <2>1. traded \in [Orders -> Nat] /\ traded' \in [Orders -> Nat]
    BY <1>4 DEF VenueType
  <2>2. \A p \in Orders : traded[p] <= traded'[p]
    BY <1>2, <2>1
  <2>3. \A p \in Orders : book[p] # None => book'[p] # None
    BY <1>2 DEF VenueType, None
  <2>4. QED  BY <2>1, <2>2, <2>3
<1>6. /\ \A row : OrderRead(row) => OrderRead(row)'
      /\ TradeBook \subseteq TradeBook' /\ \A i : Traded(i) \subseteq Traded(i)'
  BY <1>3, <1>5 DEF OrderRead, TradeBook, TradeRow, Traded
<1>7. MassType'
  BY <1>1 DEF MassType
<1>8. BeforeInv'
  BY <1>1, <1>5, <1>6 DEF BeforeInv
<1>9. /\ \A rows, listed :
           /\ NamesOrders(rows, listed) => NamesOrders(rows, listed)'
           /\ HasTrades(rows, listed) => HasTrades(rows, listed)'
           /\ HasPositions(rows, listed) => HasPositions(rows, listed)'
      /\ Reported("trades")' = Reported("trades")
      /\ Reported("orders")' = Reported("orders")
      /\ Reported("positions")' = Reported("positions")
  BY <1>1 DEF NamesOrders, HasTrades, HasPositions, FillsIn, Reported, TradeRow
<1>10. AnswerInv'
  BY <1>1, <1>6, <1>9 DEF AnswerInv
<1>11. GatheredInv'
  BY <1>1, <1>6, <1>9 DEF GatheredInv, PastOrders, PastTrades
<1>12. QED  BY <1>4, <1>7, <1>8, <1>10, <1>11

(* Dhan answers with a book no smaller than what was read before it.       *)
LEMMA BookAnsweredKeeps == Inv /\ BookAnswered => Inv'
<1> SUFFICES ASSUME Inv, BookAnswered PROVE Inv'
  OBVIOUS
<1> USE DEF Inv
<1>1. /\ mass \in Waiting /\ UNCHANGED <<book, traded, mass, reports, before>>
      /\ answer' \in {[says |-> "rows", rows |-> Books[mass]]} \cup [says : Faults]
  BY DEF BookAnswered, venue
<1>2. /\ answer'.says \in {"rows"} \cup Faults
      /\ answer'.says = "rows" => answer'.rows = Books[mass]
  BY <1>1, OrdersAssumption
<1>3. MassType'
  BY <1>1, <1>2 DEF MassType
<1>4. /\ TradeBook' = TradeBook /\ (\A i : Traded(i)' = Traded(i))
      /\ Reported("trades")' = Reported("trades")
      /\ \A row : OrderRead(row) => OrderRead(row)'
  BY <1>1 DEF TradeBook, TradeRow, Traded, Reported, OrderRead
<1>5. VenueType' /\ BeforeInv'
  BY <1>1, <1>4 DEF VenueType, BeforeInv
<1>6. \A rows, listed :
        /\ NamesOrders(rows, listed) => NamesOrders(rows, listed)'
        /\ HasTrades(rows, listed) => HasTrades(rows, listed)'
        /\ HasPositions(rows, listed) => HasPositions(rows, listed)'
  BY <1>1 DEF NamesOrders, HasTrades, HasPositions, FillsIn, Reported, TradeRow
<1>7. GatheredInv'
  <2>1. /\ Reported("orders")' = Reported("orders")
        /\ Reported("positions")' = Reported("positions")
    BY <1>1 DEF Reported
  <2>2. QED  BY <1>1, <1>4, <1>6, <2>1 DEF GatheredInv, PastOrders, PastTrades
<1>8. NamesOrders(OrderBook, Instruments) /\ \A row \in OrderBook : OrderRead(row)
  <2>1. ASSUME NEW row \in before["orders"]
        PROVE  \E r \in OrderBook : r.order = row.order
    <3>1. row.order \in Orders /\ book[row.order] # None
      BY <2>1 DEF BeforeInv
    <3>2. OrderRow(row.order) \in OrderBook
      BY <3>1 DEF OrderBook
    <3>3. OrderRow(row.order).order = row.order
      BY DEF OrderRow
    <3>4. QED  BY <3>2, <3>3
  <2>2. QED  BY <2>1, OrderBookRows DEF NamesOrders
<1>9. HasTrades(TradeBook, Instruments)
  <2>1. ASSUME NEW r \in Reported("orders"), NEW n \in 1 .. r.filled
        PROVE  TradeRow(r.order, n) \in TradeBook
    <3>1. OrderRead(r)
      BY DEF GatheredInv, Reported
    <3>2. QED  BY <3>1, FilledUnitsAreTrades
  <2>2. QED  BY <2>1 DEF HasTrades, BeforeInv
<1>10. HasPositions(PositionBook, Instruments)
  <2>1. ASSUME NEW i \in Instruments, Traded(i) # {}
        PROVE  PositionRow(i) \in PositionBook /\ PositionRow(i).instrument = i
               /\ PositionRow(i).net = Cardinality(Traded(i))
    BY <2>1 DEF PositionBook, PositionRow
  <2>2. ASSUME NEW row \in before["positions"]
        PROVE  \E r \in PositionBook : r.instrument = row.instrument
    BY <2>1 DEF BeforeInv
  <2>3. ASSUME NEW i \in Instruments, FillsIn(i) # {}
        PROVE  \E p \in PositionBook :
                 p.instrument = i /\ Cardinality(FillsIn(i)) <= p.net
    <3>1. Cardinality(FillsIn(i)) <= Cardinality(Traded(i)) /\ Traded(i) # {}
      BY <2>3, FillsAreCounted DEF GatheredInv
    <3>2. QED  BY <2>1, <3>1
  <2>4. QED  BY <2>2, <2>3 DEF HasPositions
<1>11. AnswerInv'
  <2>1. /\ Books["orders"] = OrderBook /\ Books["trades"] = TradeBook
        /\ Books["positions"] = PositionBook
    BY DEF Books
  <2>2. CASE answer'.says = "rows" /\ mass = "orders"
    <3>1. answer'.rows = OrderBook /\ mass' = "orders"
      BY <1>1, <1>2, <2>1, <2>2
    <3>2. NamesOrders(answer.rows, Instruments)'
      BY <1>1, <1>8, <3>1 DEF NamesOrders
    <3>3. (\A row \in answer.rows : OrderRead(row))'
      BY <1>4, <1>8, <3>1
    <3>4. QED  BY <3>1, <3>2, <3>3 DEF AnswerInv
  <2>3. CASE answer'.says = "rows" /\ mass = "trades"
    <3>1. answer'.rows = TradeBook /\ mass' = "trades"
      BY <1>1, <1>2, <2>1, <2>3
    <3>2. HasTrades(answer.rows, Instruments)'
      BY <1>1, <1>9, <3>1 DEF HasTrades, Reported, TradeRow
    <3>3. QED  BY <1>4, <3>1, <3>2 DEF AnswerInv
  <2>4. CASE answer'.says = "rows" /\ mass = "positions"
    <3>1. answer'.rows = PositionBook /\ mass' = "positions"
      BY <1>1, <1>2, <2>1, <2>4
    <3>2. HasPositions(answer.rows, Instruments)'
      BY <1>1, <1>10, <3>1 DEF HasPositions, FillsIn, Reported
    <3>3. QED  BY <3>1, <3>2 DEF AnswerInv
  <2>5. QED  BY <1>1, <2>2, <2>3, <2>4 DEF AnswerInv, Waiting
<1>12. QED  BY <1>3, <1>5, <1>7, <1>11

(* What of the rows of a book becomes a report.                            *)
LEMMA RowsReported ==
  ASSUME NEW rows
  PROVE  {r.row : r \in ReportsFrom(rows)} = {row \in rows : row.instrument \notin Unlisted}
<1>1. \A row : Report(row).row = row
  BY DEF Report
<1>2. QED  BY <1>1 DEF ReportsFrom

(* A read is gathered and the next one asked for.                          *)
LEMMA MassReadsKeeps == Inv /\ MassReads => Inv'
<1> SUFFICES ASSUME Inv, MassReads PROVE Inv'
  OBVIOUS
<1> USE DEF Inv
<1> DEFINE listed == {row \in answer.rows : row.instrument \notin Unlisted}
<1>1. /\ mass \in Waiting /\ answer.says = "rows" /\ answer'.says = None
      /\ mass' = AfterReading(mass) /\ UNCHANGED <<book, traded, before>>
      /\ reports' = [reports EXCEPT ![mass] = ReportsFrom(answer.rows)]
  BY DEF MassReads, venue
<1>2. /\ DOMAIN reports = Waiting /\ DOMAIN reports' = Waiting
      /\ reports'[mass] = ReportsFrom(answer.rows)
      /\ \A k \in Waiting : k # mass => reports'[k] = reports[k]
  BY <1>1 DEF MassType
<1>3. /\ mass = "orders" => Reported("orders")' = listed
      /\ mass # "orders" => Reported("orders")' = Reported("orders")
      /\ mass = "trades" => Reported("trades")' = listed
      /\ mass # "trades" => Reported("trades")' = Reported("trades")
      /\ mass = "positions" => Reported("positions")' = listed
  BY <1>2, RowsReported DEF Reported, Waiting
<1>4. /\ TradeBook' = TradeBook /\ (\A i : Traded(i)' = Traded(i))
      /\ \A row : OrderRead(row) => OrderRead(row)'
  BY <1>1 DEF TradeBook, TradeRow, Traded, OrderRead
<1>5. /\ VenueType' /\ BeforeInv' /\ AnswerInv' /\ mass' \in {"trades", "positions", "reported"}
      /\ MassType'
  <2>1. mass' \in {"trades", "positions", "reported"} /\ answer'.says # "rows"
    BY <1>1, ReadsInOrder DEF Waiting, None
  <2>2. QED
    BY <1>1, <1>2, <1>4, <2>1 DEF VenueType, BeforeInv, AnswerInv, MassType, Waiting
<1>6. CASE mass = "orders"
  <2>1. mass' = "trades" /\ Reported("orders")' = listed
    BY <1>1, <1>3, <1>6, ReadsInOrder
  <2>2. NamesOrders(answer.rows, Instruments) /\ \A row \in answer.rows : OrderRead(row)
    BY <1>1, <1>6 DEF AnswerInv
  <2>3. ASSUME NEW r \in reports'["orders"]
        PROVE  /\ OrderRead(r.row) /\ r.row.instrument \in Listed
               /\ r.clientOrderId = IF r.row.order \in Ours THEN r.row.order ELSE None
    <3>1. PICK row \in answer.rows : row.instrument \notin Unlisted /\ r = Report(row)
      BY <1>2, <1>6 DEF ReportsFrom
    <3>2. OrderRead(row)
      BY <2>2
    <3>3. r.row = row /\ r.clientOrderId = ClientOrderId(row)
      BY <3>1, <3>2 DEF Report, OrderRead
    <3>4. row.instrument \in Listed
      BY <3>1, <3>2, OrdersAssumption DEF OrderRead, Listed
    <3>5. ClientOrderId(row) = IF row.order \in Ours THEN row.order ELSE None
      BY <3>2, Attribution DEF OrderRead
    <3>6. QED  BY <3>2, <3>3, <3>4, <3>5
  <2>4. NamesOrders(Reported("orders"), Listed)'
    <3>1. ASSUME NEW row \in before["orders"], row.instrument \in Listed
          PROVE  \E r \in listed : r.order = row.order
      <4>1. PICK r \in answer.rows : r.order = row.order
        BY <2>2, <3>1 DEF NamesOrders, Listed
      <4>2. r.instrument = row.instrument
        BY <2>2, <3>1, <4>1 DEF OrderRead, BeforeInv
      <4>3. QED  BY <3>1, <4>1, <4>2 DEF Listed
    <3>2. QED  BY <1>1, <2>1, <3>1 DEF NamesOrders
  <2>5. QED
    BY <1>3, <1>4, <1>5, <1>6, <2>1, <2>3, <2>4 DEF GatheredInv, PastTrades
<1>7. CASE mass = "trades"
  <2>1. /\ mass' = "positions" /\ Reported("trades")' = listed
        /\ Reported("orders")' = Reported("orders") /\ reports'["orders"] = reports["orders"]
    BY <1>1, <1>2, <1>3, <1>7, ReadsInOrder DEF Waiting
  <2>2. HasTrades(answer.rows, Instruments) /\ answer.rows \subseteq TradeBook
    BY <1>1, <1>7 DEF AnswerInv
  <2>3. HasTrades(Reported("trades"), Listed)'
    <3>1. ASSUME NEW row \in before["trades"], row.instrument \in Listed
          PROVE  row \in listed
      BY <2>2, <3>1 DEF HasTrades, Listed
    <3>2. ASSUME NEW r \in Reported("orders"), NEW n \in 1 .. r.filled
          PROVE  TradeRow(r.order, n) \in listed
      <4>1. r.order \in Orders /\ r.instrument \in Listed /\ r.instrument = InstrumentOf[r.order]
        BY DEF GatheredInv, Reported, OrderRead
      <4>2. TradeRow(r.order, n) \in answer.rows
        BY <2>2, <3>2 DEF HasTrades
      <4>3. TradeRow(r.order, n).instrument = InstrumentOf[r.order]
        BY <4>1, TradeRowFields
      <4>4. QED  BY <4>1, <4>2, <4>3 DEF Listed
    <3>3. QED  BY <1>1, <2>1, <3>1, <3>2 DEF HasTrades, TradeRow
  <2>4. NamesOrders(Reported("orders"), Listed)'
    BY <1>1, <1>7, <2>1 DEF GatheredInv, NamesOrders, PastOrders
  <2>5. QED
    BY <1>4, <1>5, <2>1, <2>2, <2>3, <2>4 DEF GatheredInv
<1>8. CASE mass = "positions"
  <2>1. /\ mass' = "reported" /\ Reported("positions")' = listed
        /\ Reported("orders")' = Reported("orders") /\ reports'["orders"] = reports["orders"]
        /\ Reported("trades")' = Reported("trades")
    BY <1>1, <1>2, <1>3, <1>8, ReadsInOrder DEF Waiting
  <2>2. HasPositions(answer.rows, Instruments)
    BY <1>1, <1>8 DEF AnswerInv
  <2>3. HasPositions(Reported("positions"), Listed)'
    <3>1. ASSUME NEW row \in before["positions"], row.instrument \in Listed
          PROVE  \E r \in listed : r.instrument = row.instrument
      BY <2>2, <3>1 DEF HasPositions, Listed
    <3>2. ASSUME NEW i \in Listed, FillsIn(i) # {}
          PROVE  \E p \in listed : p.instrument = i /\ Cardinality(FillsIn(i)) <= p.net
      BY <2>2, <3>2 DEF HasPositions, Listed
    <3>3. \A i : FillsIn(i)' = FillsIn(i)
      BY <2>1 DEF FillsIn
    <3>4. QED  BY <1>1, <2>1, <3>1, <3>2, <3>3 DEF HasPositions
  <2>4. NamesOrders(Reported("orders"), Listed)'
    BY <1>1, <1>8, <2>1 DEF GatheredInv, NamesOrders, PastOrders
  <2>5. HasTrades(Reported("trades"), Listed)'
    BY <1>1, <1>8, <2>1 DEF GatheredInv, HasTrades, PastTrades, TradeRow
  <2>6. QED
    BY <1>4, <1>5, <2>1, <2>3, <2>4, <2>5 DEF GatheredInv
<1>9. QED  BY <1>1, <1>5, <1>6, <1>7, <1>8 DEF Waiting

(* The other steps leave the books and the mass status alone, or end it.   *)
LEMMA OthersKeep ==
  ASSUME Inv, UNCHANGED <<book, traded, reports, before>>,
         \/ mass' = mass /\ answer' = answer
         \/ mass' = "raised" /\ answer'.says = None
  PROVE  Inv'
<1> USE DEF Inv
<1>1. /\ TradeBook' = TradeBook /\ (\A i : Traded(i)' = Traded(i))
      /\ \A row : OrderRead(row) => OrderRead(row)'
  BY DEF TradeBook, TradeRow, Traded, OrderRead
<1>2. /\ Reported("orders")' = Reported("orders") /\ Reported("trades")' = Reported("trades")
      /\ Reported("positions")' = Reported("positions")
  BY DEF Reported
<1>3. \A rows, listed :
        /\ NamesOrders(rows, listed) => NamesOrders(rows, listed)'
        /\ HasTrades(rows, listed) => HasTrades(rows, listed)'
        /\ HasPositions(rows, listed) => HasPositions(rows, listed)'
  BY <1>2 DEF NamesOrders, HasTrades, HasPositions, FillsIn, TradeRow
<1>4. VenueType' /\ BeforeInv' /\ MassType'
  BY <1>1 DEF VenueType, BeforeInv, MassType, None
<1>5. GatheredInv'
  BY <1>1, <1>2, <1>3 DEF GatheredInv, PastOrders, PastTrades
<1>6. AnswerInv'
  BY <1>1, <1>3 DEF AnswerInv, None
<1>7. QED  BY <1>4, <1>5, <1>6

(* Every step keeps the invariant.                                         *)
LEMMA NextInv == Inv /\ [Next]_vars => Inv'
<1> SUFFICES ASSUME Inv, [Next]_vars PROVE Inv'
  OBVIOUS
<1>1. CASE MassStatus \/ MassReads \/ BookAnswered
  BY <1>1, MassStatusKeeps, MassReadsKeeps, BookAnsweredKeeps
<1>2. CASE MassRaises
  BY <1>2, OthersKeep DEF MassRaises, venue
<1>3. ASSUME NEW o \in Asked, LookUp(o) \/ LookUpReturns(o) \/ EngineLearns(o) PROVE Inv'
  <2>1. UNCHANGED <<book, traded, reports, before>> /\ mass' = mass /\ answer' = answer
    BY <1>3 DEF LookUp, LookUpReturns, EngineLearns, venue
  <2>2. QED  BY <2>1, OthersKeep
<1>4. ASSUME NEW o \in Orders, BookMoves(o) PROVE Inv'
  BY <1>4, BookMovesKeeps
<1>5. CASE UNCHANGED vars
  <2>1. UNCHANGED <<book, traded, reports, before>> /\ mass' = mass /\ answer' = answer
    BY <1>5 DEF vars, venue
  <2>2. QED  BY <2>1, OthersKeep
<1>6. QED  BY <1>1, <1>2, <1>3, <1>4, <1>5 DEF Next

-------------------------------------------------------------------------------
(* What is gathered and in hand is never behind what came before it: the   *)
(* invariant of a mass status (execution.py:622-647).                      *)
THEOREM GatheredInOrder == Spec => []Inv
<1>1. QED  BY InitInv, NextInv, PTL DEF Spec

(* A mass status that is delivered has every order, fill and position      *)
(* there was when it was asked for (execution.py:496-499).                 *)
THEOREM DeliveredIsComplete == Spec => []CompleteOrRaised
<1>1. Inv => CompleteOrRaised
  <2>1. ASSUME Inv, mass = "reported"
        PROVE  /\ \A row \in before["orders"] : row.instrument \notin Unlisted =>
                    \E r \in Reported("orders") : r.order = row.order
               /\ \A row \in before["trades"] : row.instrument \notin Unlisted =>
                    row \in Reported("trades")
               /\ \A row \in before["positions"] : row.instrument \notin Unlisted =>
                    \E r \in Reported("positions") : r.instrument = row.instrument
    <3>1. /\ NamesOrders(Reported("orders"), Listed) /\ HasTrades(Reported("trades"), Listed)
          /\ HasPositions(Reported("positions"), Listed) /\ BeforeInv
      BY <2>1 DEF Inv, GatheredInv, PastOrders, PastTrades
    <3>2. /\ \A row \in before["orders"] : row.instrument \in Instruments
          /\ \A row \in before["trades"] : row.instrument \in Instruments
          /\ \A row \in before["positions"] : row.instrument \in Instruments
      <4>1. \A row \in TradeBook : row.instrument \in Instruments
        BY TradeBookRows, TradeRowFields
      <4>2. \A row \in before["orders"] : row.instrument \in Instruments
        BY <3>1, OrdersAssumption DEF BeforeInv
      <4>3. QED  BY <3>1, <4>1, <4>2 DEF BeforeInv
    <3>3. QED  BY <3>1, <3>2 DEF NamesOrders, HasTrades, HasPositions, Listed
  <2>2. QED  BY <2>1 DEF CompleteOrRaised
<1>2. QED  BY <1>1, GatheredInOrder, PTL

(* Every unit an order report says is filled has its fill report, though   *)
(* the books are read one after the other (execution.py:639-646).          *)
THEOREM EveryFilledUnitIsReported == Spec => []FilledIsExplained
<1>1. Inv => FilledIsExplained
  <2>1. ASSUME Inv, mass = "reported", NEW r \in Reported("orders"), NEW n \in 1 .. r.filled
        PROVE  \E f \in Reported("trades") : f.order = r.order /\ f.trade = n
    <3>1. TradeRow(r.order, n) \in Reported("trades") /\ r.order \in Orders
      BY <2>1 DEF Inv, GatheredInv, PastTrades, HasTrades, Reported, OrderRead
    <3>2. QED  BY <3>1, TradeRowFields
  <2>2. QED  BY <2>1 DEF FilledIsExplained
<1>2. QED  BY <1>1, GatheredInOrder, PTL

(* The position reported of an instrument is at least the fills reported   *)
(* of it.                                                                  *)
THEOREM PositionsHoldTheFills == Spec => []FillsAreInThePosition
<1>1. Inv => FillsAreInThePosition
  BY DEF Inv, GatheredInv, HasPositions, FillsIn, Listed, FillsAreInThePosition
<1>2. QED  BY <1>1, GatheredInOrder, PTL

(* A report names the order it is about, or nobody when that order is not  *)
(* ours (orders.py:239-257).                                               *)
THEOREM ReportsNameTheirOrder == Spec => []ReportsAreAttributed
<1>1. Inv => ReportsAreAttributed
  BY DEF Inv, GatheredInv, ReportsAreAttributed
<1>2. QED  BY <1>1, GatheredInOrder, PTL

(* What is known of the look-ups, one by one.                              *)
LookUpType ==
  /\ idOf \subseteq Ours
  /\ lookup \in [Ours -> {"idle", "byVenueId", "byCorrelation", "answered"}]
  /\ found \in [Ours -> {None, "report", "nothing", "raised"}]

(* Only the steps of a look-up, and the engine learning an id, touch what  *)
(* is known of the look-ups; a mass status and Dhan's books go on beside   *)
(* them.                                                                   *)
LEMMA LookUpsGoAlone ==
  ASSUME [Next]_vars
  PROVE  \/ UNCHANGED <<idOf, lookup, found>>
         \/ \E o \in Asked : LookUp(o) \/ LookUpReturns(o) \/ EngineLearns(o)
<1>1. MassStatus \/ MassReads \/ MassRaises \/ BookAnswered
        => UNCHANGED <<idOf, lookup, found>>
  BY DEF MassStatus, MassReads, MassRaises, BookAnswered
<1>2. \A o \in Orders : BookMoves(o) => UNCHANGED <<idOf, lookup, found>>
  BY DEF BookMoves
<1>3. UNCHANGED vars => UNCHANGED <<idOf, lookup, found>>
  BY DEF vars
<1>4. QED  BY <1>1, <1>2, <1>3 DEF Next

(* The look-ups keep their types.                                          *)
LEMMA LookUpTypeHolds == Spec => []LookUpType
<1>1. Init => LookUpType
  BY DEF Init, LookUpType, None
<1>2. ASSUME LookUpType, NEW o \in Asked,
             LookUp(o) \/ LookUpReturns(o) \/ EngineLearns(o)
      PROVE  LookUpType'
  <2>1. CASE EngineLearns(o)
    BY <1>2, <2>1, OrdersAssumption DEF EngineLearns, LookUpType
  <2>2. CASE LookUp(o) \/ LookUpReturns(o)
    BY <1>2, <2>2, OrdersAssumption DEF LookUp, LookUpReturns, LookUpType
  <2>3. QED  BY <1>2, <2>1, <2>2
<1>3. LookUpType /\ UNCHANGED <<idOf, lookup, found>> => LookUpType'
  BY DEF LookUpType
<1>4. LookUpType /\ [Next]_vars => LookUpType'
  BY <1>2, <1>3, LookUpsGoAlone
<1>5. QED  BY <1>1, <1>4, PTL DEF Spec

(* The types of the books, of a mass status and of the look-ups.           *)
THEOREM TypeCorrect == Spec => []TypeOK
<1>1. Inv /\ LookUpType => TypeOK
  <2> SUFFICES ASSUME Inv, LookUpType PROVE TypeOK
    OBVIOUS
  <2>1. \A r \in reports["orders"] : r.clientOrderId \in Ours \cup {None}
    BY DEF Inv, GatheredInv
  <2>2. VenueType /\ MassType
    BY DEF Inv
  <2>3. QED  BY <2>1, <2>2 DEF TypeOK, VenueType, MassType, LookUpType
<1>2. QED  BY <1>1, GatheredInOrder, LookUpTypeHolds, PTL

(* The look-up does find a working order, if the order was sent under the  *)
(* very id it is asked for by and its instrument is known: no other        *)
(* condition is missing from the code (execution.py:544-590).              *)
THEOREM LookUpFindsPlainIds ==
  ASSUME \A o \in Asked : Correlation[o] = o /\ InstrumentOf[o] \notin Unlisted
  PROVE  Spec => LookUpFindsIt
<1>1. ASSUME LookUpType, [Next]_vars, NEW o \in Ours, lookup[o] = "byCorrelation",
             lookup'[o] = "answered", found'[o] = "nothing"
      PROVE  book[o] \in {None, "TRANSIT"}
  <2>1. PICK p \in Asked : LookUp(p) \/ LookUpReturns(p)
    BY <1>1, LookUpsGoAlone DEF EngineLearns
  <2>2. LookUpReturns(o) /\ o \in Asked
    BY <1>1, <2>1, OrdersAssumption DEF LookUp, LookUpReturns, LookUpType
  <2>3. {q \in Matches(o) : InstrumentOf[q] \notin Unlisted} = {}
    BY <1>1, <2>2 DEF LookUpReturns, LookUpType
  <2>4. o \in Orders /\ o \notin Matches(o)
    BY <2>2, <2>3, OrdersAssumption DEF Orders
  <2>5. QED  BY <1>1, <2>2, <2>4 DEF Matches
<1>2. LookUpType /\ [Next]_vars =>
        [\A o \in Ours :
           (lookup[o] = "byCorrelation" /\ lookup'[o] = "answered" /\ found'[o] = "nothing")
             => book[o] \in {None, "TRANSIT"}]_vars
  BY <1>1
<1>3. QED  BY <1>2, LookUpTypeHolds, PTL DEF Spec, LookUpFindsIt
===============================================================================
