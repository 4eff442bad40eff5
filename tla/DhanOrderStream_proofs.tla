------------------------ MODULE DhanOrderStream_proofs ------------------------
(***************************************************************************)
(* For any orders, number of trades, noise and length of the inbox: what   *)
(* the engine has is Dhan's once the reader has caught up.  First types,   *)
(* then what holds of every order (Facts), then the promise about the      *)
(* orders of which nothing was missed (Heard), and the refinement of       *)
(* OrderLife, which is about every order again (History).                  *)
(***************************************************************************)
EXTENDS DhanOrderStream, SequenceTheorems, FiniteSetTheorems, TLAPS

AllTrades(o) == {o} \X (1 .. Size)
Asking(o)    == fetch # NoFetch /\ fetch.order = o

\* Where the frames of order o are in the inbox, and those that cause a GET.
Pending(o)      == {i \in DOMAIN inbox : inbox[i].kind = "order" /\ inbox[i].order = o}
PendingFills(o) == {i \in Pending(o) : inbox[i].status \in FillSignals}

(* The socket's reader has a GET out exactly when it waits for one.        *)
FetchInv ==
  /\ starting => task = "none"
  /\ task = "fetching" <=> fetch # NoFetch
  /\ fetch # NoFetch => fetch.order = fetch.of /\ fetch.rows \subseteq Trades(fetch.of)

(* Dhan's book, the submission and the engine's record of one order.       *)
VenueInv(o) ==
  /\ book[o] \in {"none", "TRANSIT", "PENDING", "REJECTED"} => traded[o] = 0
  /\ book[o] = "PART_TRADED" => traded[o] # 0
  /\ book[o] = "TRADED" <=> traded[o] = Size
  /\ post[o] = "unsent" => book[o] = "none"
  /\ post[o] = "unsent" <=> state[o] = "initialized"

EngineInv(o) ==
  /\ fills[o] \subseteq Trades(o)
  /\ state[o] = "filled" => fills[o] = AllTrades(o)
  /\ state[o] = "partially_filled" => fills[o] # {} /\ fills[o] # AllTrades(o)
  /\ state[o] \in {"initialized", "submitted", "accepted"} => fills[o] = {}

Facts == FetchInv /\ \A o \in Ours : VenueInv(o) /\ EngineInv(o)

\* The statuses that may come after each.
Later ==
  [none        |-> {"TRANSIT", "PENDING", "PART_TRADED", "TRADED", "CANCELLED",
                    "REJECTED", "EXPIRED"},
   TRANSIT     |-> {"PENDING", "PART_TRADED", "TRADED", "CANCELLED", "REJECTED", "EXPIRED"},
   PENDING     |-> {"PART_TRADED", "TRADED", "CANCELLED", "REJECTED", "EXPIRED"},
   PART_TRADED |-> {"PART_TRADED", "TRADED", "CANCELLED", "EXPIRED"},
   TRADED      |-> {}, CANCELLED |-> {}, REJECTED |-> {}, EXPIRED |-> {}]

Early == {"TRANSIT", "PENDING", "REJECTED"}
Live  == {"accepted", "partially_filled", "filled"}

(* The unread frames of an order are the way its book has gone.            *)
WayInv(o) ==
  /\ \A i \in Pending(o) :
       book[o] = inbox[i].status \/ book[o] \in Later[inbox[i].status]
  /\ Pending(o) # {} =>
       \E i \in Pending(o) :
         book[o] = inbox[i].status /\ \A j \in Pending(o) : j <= i
  /\ \A i, j \in Pending(o) : i < j => inbox[j].status \in Later[inbox[i].status]

(* What the engine may hold while frames of the order are unread.          *)
UnreadInv(o) ==
  \A i \in Pending(o) :
    IF inbox[i].status \in Early
    THEN ~Asking(o) /\ state[o] \in {"submitted", "accepted"}
    ELSE state[o] \in Live
           \/ \E h \in Pending(o) : h < i /\ inbox[h].status = "PENDING"

(* What it holds when none is.                                             *)
ReadInv(o) ==
  /\ Asking(o) => state[o] \in Live
  /\ Pending(o) = {} =>
       IF Asking(o) THEN book[o] \in FillSignals ELSE state[o] \in Agreed[book[o]]
  /\ PendingFills(o) = {} =>
       IF Asking(o) THEN fetch.answer = "trades" => fetch.rows = Trades(o)
       ELSE fills[o] = Trades(o)

HeardOf(o) == WayInv(o) /\ UnreadInv(o) /\ ReadInv(o)

Heard == \A o \in Ours \ missed : HeardOf(o)

IInv == TypeOK /\ Facts /\ Heard

-------------------------------------------------------------------------------
(* Each frame is an update of one of our orders or noise, never both.      *)
LEMMA FrameKinds ==
  ASSUME NEW f \in Frames
  PROVE  /\ f.kind = "order" =>
              /\ f.order \in Ours /\ f.status \in BookStates \ {"none"}
              /\ f = Update(f.order, f.status) /\ OursNamedBy(f) = {f.order}
         /\ f.kind # "order" => OursNamedBy(f) = {}
<1>1. \A n \in Noise : [kind |-> n].kind = n /\ n # "order"
  BY FaultsAssumption
<1>2. CASE f \in [kind : Noise]
  <2>1. f.kind \in Noise
    BY <1>2
  <2>2. QED  BY <2>1, FaultsAssumption DEF OursNamedBy
<1>3. ASSUME NEW o \in Ours, NEW s \in BookStates \ {"none"}, f = Update(o, s)
      PROVE  /\ f.kind = "order" /\ f.order = o /\ f.status = s
             /\ OursNamedBy(f) = {o}
  <2>1. f.kind = "order" /\ f.order = o /\ f.status = s /\ f.correlation = Correlation[o]
    BY <1>3 DEF Update
  <2>2. QED  BY <2>1, OrdersAssumption DEF OursNamedBy
<1>4. QED  BY <1>2, <1>3 DEF Frames

(* An order's frame is a frame.                                            *)
LEMMA UpdateType ==
  ASSUME NEW o \in Ours, NEW s \in BookStates \ {"none"}
  PROVE  /\ Update(o, s) \in Frames /\ Update(o, s).kind = "order"
         /\ Update(o, s).order = o /\ Update(o, s).status = s
BY DEF Update, Frames

(* What the head of the inbox is, and what is left behind it.              *)
LEMMA ReadingType ==
  ASSUME TypeOK, inbox # <<>>
  PROVE  /\ Frame \in Frames /\ Tail(inbox) \in Seq(Frames)
         /\ Len(inbox) \in Nat \ {0} /\ DOMAIN inbox = 1 .. Len(inbox)
         /\ Frame = inbox[1]
         /\ DOMAIN Tail(inbox) = 1 .. Len(inbox) - 1
         /\ \A i \in 1 .. Len(inbox) - 1 : Tail(inbox)[i] = inbox[i + 1]
<1>1. inbox \in Seq(Frames)
  BY DEF TypeOK
<1>2. /\ Head(inbox) \in Frames /\ Tail(inbox) \in Seq(Frames)
      /\ Len(Tail(inbox)) = Len(inbox) - 1
      /\ \A i \in 1 .. Len(Tail(inbox)) : Tail(inbox)[i] = inbox[i + 1]
  BY <1>1, HeadTailProperties
<1>3. Len(inbox) \in Nat \ {0} /\ DOMAIN inbox = 1 .. Len(inbox)
  BY <1>1, EmptySeq, LenProperties
<1>4. DOMAIN Tail(inbox) = 1 .. Len(Tail(inbox))
  BY <1>2, LenProperties
<1>5. Head(inbox) = inbox[1]
  BY <1>1
<1>6. QED  BY <1>2, <1>3, <1>4, <1>5 DEF Frame

(* The engine's states are closed under events and fills.                  *)
LEMMA AfterType ==
  ASSUME NEW s \in OrderStates, NEW e \in OrderStates
  PROVE  After(s, e) \in OrderStates
BY DEF After

(* A list of fills keeps the state within its type.                        *)
LEMMA AfterFillsType ==
  ASSUME NEW s \in OrderStates, NEW known, NEW trades, NEW size
  PROVE  AfterFills(s, known, trades, size) \in OrderStates
BY DEF AfterFills, OrderStates

(* Dhan's book goes from status to status.                                 *)
LEMMA MayBecomeType ==
  ASSUME NEW b \in BookStates
  PROVE  MayBecome[b] \subseteq BookStates \ {"none"}
BY DEF MayBecome, BookStates

(* The number of trades stays in bounds and never falls.                   *)
LEMMA TradedAtType ==
  ASSUME TypeOK, NEW o \in Ours, NEW s, NEW n \in TradedAt(o, s)
  PROVE  n \in 0 .. Size /\ n >= traded[o]
BY OrdersAssumption DEF TypeOK, TradedAt

(* Dhan's list holds trades of the order only.                             *)
LEMMA TradesType ==
  ASSUME TypeOK, NEW o \in Ours
  PROVE  Trades(o) \subseteq TradeIds /\ Trades(o) \subseteq AllTrades(o)
BY OrdersAssumption DEF TypeOK, Trades, TradeIds, AllTrades

(* What goes down with the socket is ours.                                 *)
LEMMA SubjectsType ==
  ASSUME TypeOK
  PROVE  InHand \subseteq Ours /\ \A frames : Subjects(frames) \subseteq Ours
BY DEF TypeOK, InHand, Subjects, Fetches

(* A dropped socket leaves everything well typed.                          *)
LEMMA DropSocketType ==
  ASSUME TypeOK, DropSocket
  PROVE  /\ line' \in {"none", "open"} \cup Closings /\ inbox' \in Seq(Frames)
         /\ fetch' \in Fetches \cup {NoFetch} /\ missed' \subseteq Ours
BY SubjectsType DEF DropSocket, TypeOK

(* A socket that ends keeps the first of its frames.                       *)
LEMMA CutType ==
  ASSUME TypeOK, NEW n \in 0 .. Len(inbox)
  PROVE  /\ SubSeq(inbox, 1, n) \in Seq(Frames)
         /\ DOMAIN SubSeq(inbox, 1, n) = 1 .. n
         /\ \A i \in 1 .. n : SubSeq(inbox, 1, n)[i] = inbox[i]
<1>1. inbox \in Seq(Frames) /\ Len(inbox) \in Nat
  BY LenProperties DEF TypeOK
<1>2. \A i \in 1 .. n : inbox[i] \in Frames
  BY <1>1, ElementOfSeq
<1>3. /\ SubSeq(inbox, 1, n) \in Seq(Frames) /\ Len(SubSeq(inbox, 1, n)) = n
      /\ \A i \in 1 .. n : SubSeq(inbox, 1, n)[i] = inbox[i]
  BY <1>1, <1>2, SubSeqProperties
<1>4. QED  BY <1>3, LenProperties

(* The initial state is well typed.                                        *)
LEMMA InitType == Init => TypeOK
<1> SUFFICES ASSUME Init PROVE TypeOK
  OBVIOUS
<1>1. traded \in [Ours -> 0 .. Size] /\ backoff \in 1 .. 30
  BY OrdersAssumption DEF Init
<1>2. inbox \in Seq(Frames)
  BY EmptySeq DEF Init
<1>3. QED  BY <1>1, <1>2 DEF Init, TypeOK, BookStates, OrderStates

(* Every step keeps the types.                                             *)
LEMMA NextType == TypeOK /\ [Next]_vars => TypeOK'
<1> SUFFICES ASSUME TypeOK, [Next]_vars PROVE TypeOK'
  OBVIOUS
<1> USE DEF venue, client, stream, socket, engine
<1>1. ASSUME NEW o \in Ours, Submit(o) \/ PostReturns(o) PROVE TypeOK'
  <2>1. /\ After(state[o], "submitted") \in OrderStates
        /\ After(state[o], "accepted") \in OrderStates
    BY DEF TypeOK, OrderStates, After
  <2>2. CASE Submit(o)
    BY <2>1, <2>2 DEF Submit, TypeOK
  <2>3. CASE PostReturns(o)
    BY <2>1, <2>3 DEF PostReturns, TypeOK
  <2>4. QED  BY <1>1, <2>2, <2>3
<1>2. CASE Connect \/ ProviderLoads \/ ProviderFails \/ Open \/ Refused \/ Wake
           \/ SocketEndSeen
  <2>1. CASE Connect
    BY <2>1 DEF Connect, TypeOK
  <2>2. CASE ProviderLoads
    <3>1. backoff' \in 1 .. 30
      BY <2>2 DEF ProviderLoads
    <3>2. QED  BY <2>2, <3>1 DEF ProviderLoads, TypeOK
  <2>3. CASE ProviderFails
    BY <2>3 DEF ProviderFails, TypeOK
  <2>4. CASE Open
    BY <2>4 DEF Open, TypeOK
  <2>5. CASE Refused
    BY <2>5 DEF Refused, StreamLost, TypeOK
  <2>6. CASE Wake
    <3>1. backoff' \in 1 .. 30
      BY <2>6 DEF Wake, TypeOK
    <3>2. QED  BY <2>6, <3>1 DEF Wake, TypeOK
  <2>7. CASE SocketEndSeen
    BY <2>7 DEF SocketEndSeen, StreamLost, TypeOK
  <2>8. QED  BY <1>2, <2>1, <2>2, <2>3, <2>4, <2>5, <2>6, <2>7
<1>3. CASE Disconnect
  BY <1>3, DropSocketType DEF Disconnect, TypeOK
<1>4. CASE Skip
  BY <1>4, ReadingType DEF Skip, Reading, TypeOK
<1>5. ASSUME NEW o \in Ours, TellEvent(o) \/ AskForTrades(o) PROVE TypeOK'
  <2>1. /\ inbox # <<>> /\ Tail(inbox) \in Seq(Frames) /\ Frame \in Frames
    BY <1>5, ReadingType DEF TellEvent, AskForTrades, Reading
  <2>2. Frame.order \in Ours
    BY <1>5, <2>1, FrameKinds DEF TellEvent, AskForTrades
  <2>3. \A s \in DOMAIN EventOf : After(state[o], EventOf[s]) \in OrderStates
    <3>1. \A s \in DOMAIN EventOf : EventOf[s] \in OrderStates
      BY DEF EventOf, OrderStates
    <3>2. state[o] \in OrderStates
      BY DEF TypeOK
    <3>3. QED  BY <3>1, <3>2, AfterType
  <2>4. CASE TellEvent(o)
    <3>1. state' \in [Ours -> OrderStates]
      BY <2>3, <2>4 DEF TellEvent, TypeOK
    <3>2. QED  BY <2>1, <2>4, <3>1 DEF TellEvent, TypeOK
  <2>5. CASE AskForTrades(o)
    <3>1. fetch' \in Fetches
      BY <2>2, <2>5 DEF AskForTrades, Fetches
    <3>2. QED  BY <2>1, <2>5, <3>1 DEF AskForTrades, TypeOK
  <2>6. QED  BY <1>5, <2>4, <2>5
<1>6. CASE TellFills
  <2>1. fetch \in Fetches
    BY <1>6 DEF TellFills, TypeOK, NoFetch
  <2>2. fetch.order \in Ours /\ fetch.rows \subseteq TradeIds
    BY <2>1 DEF Fetches
  <2>3. \A k, r : AfterFills(state[fetch.order], k, r, Size) \in OrderStates
    BY <2>2, AfterFillsType DEF TypeOK
  <2>4. FillsAfter(state[fetch.order], fills[fetch.order], fetch.rows) \subseteq TradeIds
    BY <2>2 DEF FillsAfter, TypeOK
  <2>5. state' \in [Ours -> OrderStates] /\ fills' \in [Ours -> SUBSET TradeIds]
    BY <1>6, <2>3, <2>4 DEF TellFills, TypeOK
  <2>6. QED  BY <1>6, <2>5 DEF TellFills, TypeOK
<1>7. CASE GiveUpFills
  BY <1>7, SubjectsType DEF GiveUpFills, TypeOK
<1>8. CASE HandlerRaises
  BY <1>8, DropSocketType DEF HandlerRaises, StreamLost, TypeOK
<1>9. ASSUME NEW o \in Ours, BookMoves(o) PROVE TypeOK'
  <2>1. PICK s \in MayBecome[book[o]] :
          /\ book' = [book EXCEPT ![o] = s]
          /\ \E n \in TradedAt(o, s) : traded' = [traded EXCEPT ![o] = n]
          /\ IF line = "open"
             THEN inbox' = Append(inbox, Update(o, s)) /\ UNCHANGED missed
             ELSE missed' = missed \cup (Ours \cap {o}) /\ UNCHANGED inbox
    BY <1>9 DEF BookMoves
  <2>2. s \in BookStates \ {"none"}
    BY <2>1, MayBecomeType DEF TypeOK
  <2>3. traded' \in [Ours -> 0 .. Size]
    BY <2>1, TradedAtType DEF TypeOK
  <2>4. inbox' \in Seq(Frames) /\ missed' \subseteq Ours
    <3>1. inbox \in Seq(Frames) /\ missed \subseteq Ours /\ Update(o, s) \in Frames
      BY <2>2, UpdateType DEF TypeOK
    <3>2. Append(inbox, Update(o, s)) \in Seq(Frames)
      BY <3>1, AppendProperties
    <3>3. QED  BY <2>1, <3>1, <3>2
  <2>5. book' \in [Ours -> BookStates]
    BY <2>1, <2>2 DEF TypeOK
  <2>6. UNCHANGED <<post, http, starting, task, backoff, connected, line, fetch, state, fills>>
    BY <1>9 DEF BookMoves
  <2>7. QED  BY <2>3, <2>4, <2>5, <2>6 DEF TypeOK
<1>10. CASE SendNoise
  <2>1. \A n \in Noise : [kind |-> n] \in Frames
    BY DEF Frames
  <2>2. inbox' \in Seq(Frames)
    BY <1>10, <2>1, AppendProperties DEF SendNoise, TypeOK
  <2>3. QED  BY <1>10, <2>2 DEF SendNoise, TypeOK
<1>11. CASE SocketEnds
  <2>1. PICK n \in 0 .. Len(inbox) :
          /\ inbox' = SubSeq(inbox, 1, n)
          /\ missed' = missed \cup Subjects(SubSeq(inbox, n + 1, Len(inbox)))
    BY <1>11 DEF SocketEnds
  <2>2. inbox' \in Seq(Frames) /\ missed' \subseteq Ours
    BY <2>1, CutType, SubjectsType DEF TypeOK
  <2>3. QED  BY <1>11, <2>2 DEF SocketEnds, TypeOK
<1>12. CASE TradesAnswered
  <2>1. fetch \in Fetches
    BY <1>12 DEF TradesAnswered, TypeOK, NoFetch
  <2>2. Trades(fetch.of) \subseteq TradeIds
    BY <2>1, TradesType DEF Fetches
  <2>3. fetch' \in Fetches
    BY <1>12, <2>1, <2>2 DEF TradesAnswered, Fetches
  <2>4. QED  BY <1>12, <2>3 DEF TradesAnswered, TypeOK
<1>13. CASE UNCHANGED vars
  BY <1>13 DEF vars, TypeOK
<1>14. QED
  BY <1>1, <1>2, <1>3, <1>4, <1>5, <1>6, <1>7, <1>8, <1>9, <1>10, <1>11, <1>12, <1>13
  DEF Next, Handle

(* Every variable of the stream stays within its type (execution.py:1037). *)
THEOREM TypeCorrect == Spec => []TypeOK
<1>1. QED  BY InitType, NextType, PTL DEF Spec

-------------------------------------------------------------------------------
(* An order has all its trades exactly when it has Size of them.           *)
LEMMA AllTradesCounted ==
  ASSUME NEW o \in Ours, NEW S \in SUBSET AllTrades(o)
  PROVE  Cardinality(S) < Size <=> S # AllTrades(o)
<1>1. IsFiniteSet(1 .. Size) /\ Cardinality(1 .. Size) = Size
  BY OrdersAssumption, FS_Interval
<1>2. IsFiniteSet({o}) /\ Cardinality({o}) = 1
  BY FS_Singleton
<1>3. IsFiniteSet(AllTrades(o)) /\ Cardinality(AllTrades(o)) = 1 * Size
  BY <1>1, <1>2, FS_Product DEF AllTrades
<1>4. /\ IsFiniteSet(S) /\ Cardinality(S) <= Cardinality(AllTrades(o))
      /\ Cardinality(AllTrades(o)) = Cardinality(S) => AllTrades(o) = S
  BY <1>3, FS_Subset
<1>5. Cardinality(S) \in Nat
  BY <1>4, FS_CardinalityType
<1>6. QED  BY <1>3, <1>4, <1>5, OrdersAssumption

(* The steps that touch Dhan's book or the engine's record.                *)
LEMMA OtherSteps ==
  ASSUME [Next]_vars,
         ~ \E o \in Ours : Submit(o) \/ PostReturns(o) \/ TellEvent(o) \/ BookMoves(o),
         ~ TellFills
  PROVE  UNCHANGED <<book, traded, post, state, fills>>
<1> USE DEF venue, engine
<1>1. CASE Connect \/ ProviderLoads \/ ProviderFails \/ Disconnect
  BY <1>1 DEF Connect, ProviderLoads, ProviderFails, Disconnect
<1>2. CASE Open \/ Refused \/ Wake \/ SocketEndSeen
  BY <1>2 DEF Open, Refused, Wake, SocketEndSeen
<1>3. CASE Skip \/ GiveUpFills \/ HandlerRaises
  BY <1>3 DEF Skip, GiveUpFills, HandlerRaises
<1>4. ASSUME NEW o \in Ours, AskForTrades(o) PROVE UNCHANGED <<venue, engine>>
  BY <1>4 DEF AskForTrades
<1>5. CASE SendNoise \/ SocketEnds \/ TradesAnswered
  BY <1>5 DEF SendNoise, SocketEnds, TradesAnswered
<1>6. CASE UNCHANGED vars
  BY <1>6 DEF vars
<1>7. QED  BY <1>1, <1>2, <1>3, <1>4, <1>5, <1>6 DEF Next, Handle

(* What a move of the book does to it.                                     *)
LEMMA MoveEffect ==
  ASSUME TypeOK, NEW o \in Ours, BookMoves(o)
  PROVE  \E s \in MayBecome[book[o]] :
           /\ s \in BookStates \ {"none"}
           /\ book' = [book EXCEPT ![o] = s]
           /\ traded'[o] \in TradedAt(o, s)
           /\ traded'[o] \in 0 .. Size /\ traded'[o] >= traded[o]
           /\ \A p \in Ours \ {o} : traded'[p] = traded[p]
           /\ line = "open" => inbox' = Append(inbox, Update(o, s)) /\ missed' = missed
           /\ line # "open" => inbox' = inbox /\ missed' = missed \cup {o}
           /\ UNCHANGED <<post, http, starting, task, fetch, state, fills>>
<1>1. PICK s \in MayBecome[book[o]] :
        /\ book' = [book EXCEPT ![o] = s]
        /\ \E n \in TradedAt(o, s) : traded' = [traded EXCEPT ![o] = n]
        /\ IF line = "open"
           THEN inbox' = Append(inbox, Update(o, s)) /\ UNCHANGED missed
           ELSE missed' = missed \cup (Ours \cap {o}) /\ UNCHANGED inbox
  BY DEF BookMoves
<1>2. PICK n \in TradedAt(o, s) : traded' = [traded EXCEPT ![o] = n]
  BY <1>1
<1>3. s \in BookStates \ {"none"}
  BY <1>1, MayBecomeType DEF TypeOK
<1>4. n \in 0 .. Size /\ n >= traded[o]
  BY <1>2, TradedAtType
<1>5. traded'[o] = n /\ \A p \in Ours \ {o} : traded'[p] = traded[p]
  BY <1>2 DEF TypeOK
<1>6. UNCHANGED <<post, http, starting, task, fetch, state, fills>>
  BY DEF BookMoves, client, stream, engine
<1>7. QED  BY <1>1, <1>2, <1>3, <1>4, <1>5, <1>6

(* A trade is never taken back.                                            *)
LEMMA TradesGrow ==
  ASSUME TypeOK, [Next]_vars, NEW o \in Ours
  PROVE  Trades(o) \subseteq Trades(o)'
<1>1. traded' = traded \/ \E p \in Ours : BookMoves(p)
  BY OtherSteps DEF Submit, PostReturns, TellEvent, TellFills, venue
<1>2. ASSUME NEW p \in Ours, BookMoves(p)
      PROVE  traded'[o] >= traded[o] /\ traded'[o] \in Nat
  BY <1>2, MoveEffect DEF TypeOK
<1>3. traded[o] \in Nat
  BY OrdersAssumption DEF TypeOK
<1>4. QED  BY <1>1, <1>2, <1>3 DEF Trades

(* The GET of the handler, while anything else moves.                      *)
LEMMA NextFetch == TypeOK /\ FetchInv /\ [Next]_vars => FetchInv'
<1> SUFFICES ASSUME TypeOK, FetchInv, [Next]_vars PROVE FetchInv'
  OBVIOUS
<1> USE DEF client, stream, NoFetch
<1>1. ASSUME UNCHANGED <<starting, task, fetch>> PROVE FetchInv'
  <2>1. fetch # NoFetch => fetch.of \in Ours
    BY DEF TypeOK, Fetches
  <2>2. QED  BY <1>1, <2>1, TradesGrow DEF FetchInv
<1>2. ASSUME NEW o \in Ours, Submit(o) \/ PostReturns(o) \/ TellEvent(o) \/ BookMoves(o)
      PROVE  UNCHANGED <<starting, task, fetch>>
  BY <1>2 DEF Submit, PostReturns, TellEvent, BookMoves
<1>3. CASE Skip \/ SendNoise \/ SocketEnds
  BY <1>1, <1>3 DEF Skip, SendNoise, SocketEnds
<1>4. CASE Connect \/ ProviderFails \/ ProviderLoads
  <2>1. fetch' = fetch /\ fetch = NoFetch /\ task' # "fetching"
    BY <1>4 DEF Connect, ProviderFails, ProviderLoads, FetchInv
  <2>2. starting' => task' = "none"
    BY <1>4 DEF Connect, ProviderFails, ProviderLoads, FetchInv
  <2>3. QED  BY <2>1, <2>2 DEF FetchInv
<1>5. CASE Open \/ Refused \/ Wake \/ SocketEndSeen
  <2>1. fetch' = fetch /\ fetch = NoFetch /\ task' # "fetching" /\ starting' = starting
    BY <1>5 DEF Open, Refused, Wake, SocketEndSeen, StreamLost, FetchInv
  <2>2. ~starting
    BY <1>5 DEF Open, Refused, Wake, SocketEndSeen, FetchInv
  <2>3. QED  BY <2>1, <2>2 DEF FetchInv
<1>6. CASE Disconnect \/ HandlerRaises
  <2>1. fetch' = NoFetch /\ task' # "fetching" /\ starting' = starting
    BY <1>6 DEF Disconnect, HandlerRaises, StreamLost, DropSocket
  <2>2. starting' => task' = "none"
    BY <1>6, <2>1 DEF Disconnect, HandlerRaises, Reading, FetchInv
  <2>3. QED  BY <2>1, <2>2 DEF FetchInv
<1>7. CASE TellFills \/ GiveUpFills
  <2>1. fetch' = NoFetch /\ task' # "fetching" /\ ~starting'
    BY <1>7 DEF TellFills, GiveUpFills, FetchInv
  <2>2. QED  BY <2>1 DEF FetchInv
<1>8. ASSUME NEW o \in Ours, AskForTrades(o) PROVE FetchInv'
  <2>1. Frame \in Frames
    BY <1>8, ReadingType DEF AskForTrades, Reading
  <2>2. Frame.order = o
    BY <1>8, <2>1, FrameKinds DEF AskForTrades
  <2>3. fetch' = [order |-> o, of |-> Frame.order, answer |-> "waiting", rows |-> {}]
    BY <1>8 DEF AskForTrades
  <2>4. /\ fetch'.order = fetch'.of /\ fetch'.rows = {} /\ fetch'.answer = "waiting"
        /\ task' = "fetching" /\ ~starting'
    BY <1>8, <2>2, <2>3 DEF AskForTrades, Reading, FetchInv
  <2>5. fetch' # NoFetch
    BY <2>4
  <2>6. QED  BY <2>4, <2>5 DEF FetchInv
<1>9. CASE TradesAnswered
  <2>1. fetch \in Fetches /\ fetch # NoFetch
    BY <1>9 DEF TradesAnswered, TypeOK
  <2>2. /\ fetch'.order = fetch.order /\ fetch'.of = fetch.of /\ fetch'.answer # "none"
        /\ fetch'.rows = fetch.rows \/ fetch'.rows = Trades(fetch.of)
    BY <1>9, <2>1 DEF TradesAnswered, Fetches
  <2>3. traded' = traded /\ UNCHANGED <<starting, task>>
    BY <1>9 DEF TradesAnswered, venue
  <2>4. fetch' # NoFetch
    BY <2>2
  <2>5. QED  BY <2>1, <2>2, <2>3, <2>4 DEF FetchInv, Trades
<1>10. CASE UNCHANGED vars
  BY <1>1, <1>10 DEF vars
<1>11. QED
  BY <1>1, <1>2, <1>3, <1>4, <1>5, <1>6, <1>7, <1>8, <1>9, <1>10 DEF Next, Handle

\* The events the handler emits.
Told == {"accepted", "canceled", "rejected", "expired"}

(* What an event does to the engine's state of an order.                   *)
LEMMA EventEffect ==
  ASSUME NEW s \in OrderStates, NEW e \in Told
  PROVE  /\ After(s, e) \in {s, e}
         /\ s \in {"initialized", "filled"} => After(s, e) = s
         /\ After(s, e) = "accepted" => s \in {"submitted", "accepted"}
BY DEF After, Admits, Told, OrderStates

(* What the handler emits are such events.                                 *)
LEMMA EventsAreTold ==
  \A s \in DOMAIN EventOf : EventOf[s] \in Told
BY DEF EventOf, Told

(* The handler's event leaves the fills, and the other orders, alone.      *)
LEMMA TellEventEffect ==
  ASSUME TypeOK, NEW o \in Ours, TellEvent(o)
  PROVE  /\ UNCHANGED <<book, traded, post, fills>>
         /\ \A p \in Ours \ {o} : state'[p] = state[p]
         /\ state'[o] = state[o] \/ \E e \in Told : state'[o] = After(state[o], e)
<1>1. UNCHANGED <<book, traded, post, fills>>
  BY DEF TellEvent, venue
<1>2. CASE Frame.status \in DOMAIN EventOf
  <2>1. state' = [state EXCEPT ![o] = After(@, EventOf[Frame.status])]
    BY <1>2 DEF TellEvent
  <2>2. EventOf[Frame.status] \in Told
    BY <1>2, EventsAreTold
  <2>3. QED  BY <1>1, <2>1, <2>2 DEF TypeOK
<1>3. CASE Frame.status \notin DOMAIN EventOf
  <2>1. state' = state
    BY <1>3 DEF TellEvent
  <2>2. QED  BY <1>1, <2>1
<1>4. QED  BY <1>2, <1>3

(* A list of trades of the order makes it partially filled or filled, as   *)
(* they are some or all of those that fill it.                             *)
LEMMA TellFillsEffect ==
  ASSUME TypeOK, FetchInv, TellFills
  PROVE  LET o == fetch.order IN
         /\ o \in Ours /\ fetch \in Fetches /\ fetch.rows \subseteq Trades(o)
         /\ UNCHANGED <<book, traded, post, inbox, line, missed>>
         /\ fetch' = NoFetch /\ task' = "reading"
         /\ \A p \in Ours \ {o} : state'[p] = state[p] /\ fills'[p] = fills[p]
         /\ IF state[o] \in Fillable
            THEN /\ fills'[o] = fills[o] \cup fetch.rows
                 /\ state'[o] = IF fetch.rows \subseteq fills[o] THEN state[o]
                                ELSE IF Cardinality(fills[o] \cup fetch.rows) < Size
                                     THEN "partially_filled" ELSE "filled"
            ELSE fills'[o] = fills[o] /\ state'[o] = state[o]
<1> DEFINE o == fetch.order
<1>1. fetch \in Fetches
  BY DEF TellFills, TypeOK, NoFetch
<1>2. o \in Ours /\ fetch # NoFetch
  BY <1>1 DEF TellFills, Fetches, NoFetch
<1>3. fetch.rows \subseteq Trades(o)
  BY <1>2 DEF FetchInv
<1>4. UNCHANGED <<book, traded, post, inbox, line, missed>> /\ fetch' = NoFetch
      /\ task' = "reading"
  BY DEF TellFills, venue, socket
<1>5. /\ state' = [state EXCEPT ![o] = AfterFills(@, fills[o], fetch.rows, Size)]
      /\ fills' = [fills EXCEPT ![o] = FillsAfter(state[o], @, fetch.rows)]
  BY DEF TellFills
<1>6. /\ state'[o] = AfterFills(state[o], fills[o], fetch.rows, Size)
      /\ fills'[o] = FillsAfter(state[o], fills[o], fetch.rows)
      /\ \A p \in Ours \ {o} : state'[p] = state[p] /\ fills'[p] = fills[p]
  BY <1>2, <1>5 DEF TypeOK
<1>7. QED  BY <1>1, <1>2, <1>3, <1>4, <1>6 DEF AfterFills, FillsAfter

(* The two ends of a submission, and what they leave alone.                *)
LEMMA SubmitEffect ==
  ASSUME TypeOK, NEW o \in Ours, Submit(o) \/ PostReturns(o)
  PROVE  /\ UNCHANGED <<book, traded, inbox, line, fetch, fills, missed>>
         /\ \A p \in Ours \ {o} : state'[p] = state[p] /\ post'[p] = post[p]
         /\ post'[o] \in {"posting", "returned"}
         /\ \/ /\ post[o] = "unsent"
               /\ state'[o] = IF state[o] = "initialized" THEN "submitted" ELSE state[o]
            \/ /\ post[o] # "unsent" /\ book[o] # "none"
               /\ state'[o] = IF state[o] = "submitted" THEN "accepted" ELSE state[o]
<1>1. UNCHANGED <<book, traded, inbox, line, fetch, fills, missed>>
  BY DEF Submit, PostReturns, venue, socket
<1>2. CASE Submit(o)
  BY <1>1, <1>2 DEF Submit, TypeOK, After, Admits
<1>3. CASE PostReturns(o)
  BY <1>1, <1>3 DEF PostReturns, TypeOK, After, Admits
<1>4. QED  BY <1>2, <1>3

(* Dhan's book stays consistent with its trades and with the submission.   *)
LEMMA NextVenue ==
  ASSUME TypeOK, Facts, [Next]_vars, NEW p \in Ours
  PROVE  VenueInv(p)'
<1>1. VenueInv(p) /\ FetchInv
  BY DEF Facts
<1>2. ASSUME UNCHANGED <<book, traded, post, state>> PROVE VenueInv(p)'
  BY <1>1, <1>2 DEF VenueInv
<1>3. ASSUME NEW o \in Ours, Submit(o) \/ PostReturns(o) PROVE VenueInv(p)'
  <2>1. CASE p = o
    BY <1>1, <1>3, <2>1, SubmitEffect DEF VenueInv
  <2>2. CASE p # o
    BY <1>1, <1>3, <2>2, SubmitEffect DEF VenueInv
  <2>3. QED  BY <2>1, <2>2
<1>4. ASSUME NEW o \in Ours, TellEvent(o) PROVE VenueInv(p)'
  <2>1. state[o] \in OrderStates
    BY DEF TypeOK
  <2>2. state'[o] = "initialized" <=> state[o] = "initialized"
    BY <1>4, <2>1, TellEventEffect, EventEffect DEF Told
  <2>3. UNCHANGED <<book, traded, post>>
        /\ \A q \in Ours \ {o} : state'[q] = state[q]
    BY <1>4, TellEventEffect
  <2>4. QED  BY <1>1, <2>2, <2>3 DEF VenueInv
<1>5. CASE TellFills
  <2>1. state'[p] = "initialized" <=> state[p] = "initialized"
    BY <1>1, <1>5, TellFillsEffect DEF Fillable
  <2>2. UNCHANGED <<book, traded, post>>
    BY <1>1, <1>5, TellFillsEffect
  <2>3. QED  BY <1>1, <2>1, <2>2 DEF VenueInv
<1>6. ASSUME NEW o \in Ours, BookMoves(o) PROVE VenueInv(p)'
  <2>1. PICK s \in MayBecome[book[o]] :
          /\ s \in BookStates \ {"none"} /\ book' = [book EXCEPT ![o] = s]
          /\ traded'[o] \in TradedAt(o, s)
          /\ \A q \in Ours \ {o} : traded'[q] = traded[q]
          /\ UNCHANGED <<post, state>>
    BY <1>6, MoveEffect
  <2>2. CASE p # o
    BY <1>1, <2>1, <2>2 DEF VenueInv, TypeOK
  <2>3. CASE p = o
    <3>1. book'[o] = s /\ post[o] # "unsent" /\ book[o] \in BookStates
      BY <1>6, <2>1 DEF BookMoves, TypeOK
    <3>2. s \in {"TRANSIT", "PENDING", "REJECTED"} =>
            book[o] \in {"none", "TRANSIT", "PENDING"}
      BY <2>1, <3>1 DEF MayBecome, BookStates
    <3>3. book[o] # "TRADED"
      BY <2>1 DEF MayBecome
    <3>4. traded[o] \in 0 .. Size /\ Size \in Nat \ {0}
      BY OrdersAssumption DEF TypeOK
    <3>5. /\ s = "PART_TRADED" => traded'[o] # 0 /\ traded'[o] # Size
          /\ s = "TRADED" => traded'[o] = Size
          /\ s \notin {"PART_TRADED", "TRADED"} => traded'[o] = traded[o]
      BY <2>1, <3>4 DEF TradedAt
    <3>6. QED  BY <1>1, <2>1, <2>3, <3>1, <3>2, <3>3, <3>4, <3>5 DEF VenueInv
  <2>4. QED  BY <2>2, <2>3
<1>7. QED  BY <1>2, <1>3, <1>4, <1>5, <1>6, OtherSteps

(* The engine's fills are Dhan's, and its state is theirs.                 *)
LEMMA NextEngine ==
  ASSUME TypeOK, Facts, [Next]_vars, NEW p \in Ours
  PROVE  EngineInv(p)'
<1>1. EngineInv(p) /\ VenueInv(p) /\ FetchInv /\ Trades(p) \subseteq Trades(p)'
  BY TradesGrow DEF Facts
<1>2. ASSUME state'[p] = state[p], fills'[p] = fills[p] PROVE EngineInv(p)'
  BY <1>1, <1>2 DEF EngineInv, AllTrades
<1>3. ASSUME NEW o \in Ours, Submit(o) \/ PostReturns(o) PROVE EngineInv(p)'
  <2>1. CASE p = o
    BY <1>1, <1>3, <2>1, SubmitEffect DEF EngineInv, AllTrades
  <2>2. CASE p # o
    BY <1>2, <1>3, <2>2, SubmitEffect
  <2>3. QED  BY <2>1, <2>2
<1>4. ASSUME NEW o \in Ours, TellEvent(o) PROVE EngineInv(p)'
  <2>1. CASE state'[p] = state[p]
    BY <1>2, <1>4, <2>1, TellEventEffect
  <2>2. CASE state'[p] # state[p]
    <3>1. PICK e \in Told : p = o /\ state'[p] = After(state[p], e)
      BY <1>4, <2>2, TellEventEffect
    <3>2. state[p] \in OrderStates
      BY DEF TypeOK
    <3>3. /\ state'[p] \in Told
          /\ state'[p] = "accepted" => state[p] \in {"submitted", "accepted"}
      BY <2>2, <3>1, <3>2, EventEffect
    <3>4. fills'[p] = fills[p]
      BY <1>4, TellEventEffect
    <3>5. QED  BY <1>1, <3>3, <3>4 DEF EngineInv, Told
  <2>3. QED  BY <2>1, <2>2
<1>5. CASE TellFills
  <2>1. CASE p # fetch.order \/ state[p] \notin Fillable
    BY <1>1, <1>2, <1>5, <2>1, TellFillsEffect
  <2>2. CASE p = fetch.order /\ state[p] \in Fillable
    <3>1. /\ fetch.rows \subseteq Trades(p) /\ traded' = traded
          /\ fills'[p] = fills[p] \cup fetch.rows
          /\ state'[p] = IF fetch.rows \subseteq fills[p] THEN state[p]
                         ELSE IF Cardinality(fills[p] \cup fetch.rows) < Size
                              THEN "partially_filled" ELSE "filled"
      BY <1>1, <1>5, <2>2, TellFillsEffect
    <3>2. fills'[p] \subseteq Trades(p) /\ Trades(p) \subseteq AllTrades(p)
      BY <1>1, <3>1, TradesType DEF EngineInv
    <3>3. CASE fetch.rows \subseteq fills[p]
      BY <1>2, <3>1, <3>3
    <3>4. CASE ~(fetch.rows \subseteq fills[p])
      <4>1. fills'[p] # {} /\ state'[p] \in {"partially_filled", "filled"}
        BY <3>1, <3>4
      <4>2. state'[p] = "filled" <=> fills'[p] = AllTrades(p)
        BY <3>1, <3>2, <3>4, AllTradesCounted
      <4>3. QED  BY <1>1, <3>2, <4>1, <4>2 DEF EngineInv, AllTrades
    <3>5. QED  BY <3>3, <3>4
  <2>3. QED  BY <2>1, <2>2
<1>6. ASSUME NEW o \in Ours, BookMoves(o) PROVE EngineInv(p)'
  BY <1>2, <1>6, MoveEffect
<1>7. QED  BY <1>2, <1>3, <1>4, <1>5, <1>6, OtherSteps

(* Initially no order is anywhere.                                         *)
LEMMA InitFacts == Init => Facts
BY OrdersAssumption
DEF Init, Facts, FetchInv, VenueInv, EngineInv, AllTrades

(* Every step keeps the facts.                                             *)
LEMMA NextFacts == TypeOK /\ Facts /\ [Next]_vars => Facts'
<1>1. ASSUME TypeOK, Facts, [Next]_vars PROVE Facts'
  <2>1. FetchInv'
    BY <1>1, NextFetch DEF Facts
  <2>2. \A o \in Ours : VenueInv(o)' /\ EngineInv(o)'
    BY <1>1, NextVenue, NextEngine
  <2>3. QED  BY <2>1, <2>2 DEF Facts
<1>2. QED  BY <1>1

(* A fill the engine has is a trade of that very order, however frames,    *)
(* lookups and lost sockets interleave (execution.py:928-932, 1000-1018).  *)
THEOREM EveryFillIsATrade == Spec => []FillsAreTrades
<1>1. TypeOK /\ Facts => FillsAreTrades
  BY DEF Facts, EngineInv, FillsAreTrades
<1>2. Init => TypeOK /\ Facts
  BY InitType, InitFacts
<1>3. TypeOK /\ Facts /\ [Next]_vars => (TypeOK /\ Facts)'
  BY NextType, NextFacts
<1>4. QED  BY <1>1, <1>2, <1>3, PTL DEF Spec

-------------------------------------------------------------------------------
(* The frames of an order that are unread.                                 *)
LEMMA PendingType ==
  ASSUME TypeOK, NEW o \in Ours, NEW i \in Pending(o)
  PROVE  /\ i \in 1 .. Len(inbox) /\ Len(inbox) \in Nat
         /\ inbox[i].status \in BookStates \ {"none"}
<1>1. inbox \in Seq(Frames) /\ DOMAIN inbox = 1 .. Len(inbox) /\ Len(inbox) \in Nat
  BY LenProperties DEF TypeOK
<1>2. i \in 1 .. Len(inbox) /\ inbox[i] \in Frames /\ inbox[i].kind = "order"
  BY <1>1, ElementOfSeq DEF Pending
<1>3. QED  BY <1>1, <1>2, FrameKinds

(* Reading the head moves every other frame up by one.                     *)
LEMMA Shift ==
  ASSUME TypeOK, inbox # <<>>, inbox' = Tail(inbox), NEW o \in Ours
  PROVE  /\ \A i \in Pending(o)' :
              i \in Nat \ {0} /\ i + 1 \in Pending(o) /\ inbox'[i] = inbox[i + 1]
         /\ \A i \in Pending(o) : i \in Nat \ {0} /\ (i # 1 => i - 1 \in Pending(o)')
<1>1. /\ Len(inbox) \in Nat \ {0} /\ DOMAIN inbox = 1 .. Len(inbox)
      /\ DOMAIN inbox' = 1 .. Len(inbox) - 1
      /\ \A i \in 1 .. Len(inbox) - 1 : inbox'[i] = inbox[i + 1]
  BY ReadingType
<1>2. ASSUME NEW i \in Pending(o)'
      PROVE  i \in Nat \ {0} /\ i + 1 \in Pending(o) /\ inbox'[i] = inbox[i + 1]
  <2>1. i \in 1 .. Len(inbox) - 1 /\ inbox'[i].kind = "order" /\ inbox'[i].order = o
    BY <1>1, <1>2 DEF Pending
  <2>2. i + 1 \in 1 .. Len(inbox) /\ inbox'[i] = inbox[i + 1]
    BY <1>1, <2>1
  <2>3. QED  BY <1>1, <2>1, <2>2 DEF Pending
<1>3. ASSUME NEW i \in Pending(o)
      PROVE  i \in Nat \ {0} /\ (i # 1 => i - 1 \in Pending(o)')
  <2>1. i \in 1 .. Len(inbox) /\ inbox[i].kind = "order" /\ inbox[i].order = o
    BY <1>1, <1>3 DEF Pending
  <2>2. CASE i # 1
    <3>1. i - 1 \in 1 .. Len(inbox) - 1 /\ inbox'[i - 1] = inbox[(i - 1) + 1]
      BY <1>1, <2>1, <2>2
    <3>2. (i - 1) + 1 = i
      BY <2>1
    <3>3. QED  BY <1>1, <2>1, <3>1, <3>2 DEF Pending
  <2>3. QED  BY <1>1, <2>1, <2>2
<1>4. QED  BY <1>2, <1>3

(* What was heard of an order stands while none of its frames, its book    *)
(* and its record change.                                                  *)
LEMMA StillHeard ==
  ASSUME NEW o \in Ours, HeardOf(o),
         Pending(o)' = Pending(o), \A i \in Pending(o) : inbox'[i] = inbox[i],
         book'[o] = book[o], traded'[o] = traded[o],
         state'[o] = state[o], fills'[o] = fills[o],
         Asking(o)' <=> Asking(o), Asking(o) => fetch' = fetch
  PROVE  HeardOf(o)'
<1>1. WayInv(o)'
  BY DEF HeardOf, WayInv
<1>2. UnreadInv(o)'
  BY DEF HeardOf, UnreadInv
<1>3. PendingFills(o)' = PendingFills(o)
  BY DEF PendingFills
<1>4. ReadInv(o)'
  BY <1>3 DEF HeardOf, ReadInv, Trades
<1>5. QED  BY <1>1, <1>2, <1>4 DEF HeardOf

(* A frame about something else is appended behind those of the order.     *)
LEMMA AppendOther ==
  ASSUME TypeOK, NEW f \in Frames, inbox' = Append(inbox, f),
         NEW o \in Ours, f.kind = "order" => f.order # o
  PROVE  Pending(o)' = Pending(o) /\ \A i \in Pending(o) : inbox'[i] = inbox[i]
<1>1. inbox \in Seq(Frames) /\ Len(inbox) \in Nat /\ DOMAIN inbox = 1 .. Len(inbox)
  BY LenProperties DEF TypeOK
<1>2. /\ inbox' \in Seq(Frames) /\ Len(inbox') = Len(inbox) + 1
      /\ \A i \in 1 .. Len(inbox) : inbox'[i] = inbox[i]
      /\ inbox'[Len(inbox) + 1] = f
  BY <1>1, AppendProperties
<1>3. DOMAIN inbox' = 1 .. Len(inbox) + 1
  BY <1>2, LenProperties
<1>4. \A i : i \in 1 .. Len(inbox) + 1 <=> i \in 1 .. Len(inbox) \/ i = Len(inbox) + 1
  BY <1>1
<1>5. QED  BY <1>1, <1>2, <1>3, <1>4 DEF Pending

(* The order's own frame is appended.                                      *)
LEMMA AppendOwn ==
  ASSUME TypeOK, NEW o \in Ours, NEW s \in BookStates \ {"none"},
         inbox' = Append(inbox, Update(o, s))
  PROVE  LET n == Len(inbox) + 1 IN
         /\ n \in Nat /\ Pending(o)' = Pending(o) \cup {n}
         /\ inbox'[n].status = s
         /\ \A i \in Pending(o) : i \in Nat /\ i < n /\ inbox'[i] = inbox[i]
<1> DEFINE n == Len(inbox) + 1
<1>1. inbox \in Seq(Frames) /\ Len(inbox) \in Nat /\ DOMAIN inbox = 1 .. Len(inbox)
  BY LenProperties DEF TypeOK
<1>2. /\ Update(o, s) \in Frames /\ Update(o, s).kind = "order"
      /\ Update(o, s).order = o /\ Update(o, s).status = s
  BY UpdateType
<1>3. /\ inbox' \in Seq(Frames) /\ Len(inbox') = n
      /\ \A i \in 1 .. Len(inbox) : inbox'[i] = inbox[i]
      /\ inbox'[n] = Update(o, s)
  BY <1>1, <1>2, AppendProperties
<1>4. DOMAIN inbox' = 1 .. n
  BY <1>3, LenProperties
<1>5. \A i : i \in 1 .. n <=> i \in 1 .. Len(inbox) \/ i = n
  BY <1>1
<1>6. Pending(o)' = Pending(o) \cup {n}
  BY <1>1, <1>2, <1>3, <1>4, <1>5 DEF Pending
<1>7. \A i \in Pending(o) : i \in Nat /\ i < n /\ inbox'[i] = inbox[i]
  BY <1>1, <1>3 DEF Pending
<1>8. n \in Nat /\ inbox'[n].status = s
  BY <1>1, <1>2, <1>3
<1> HIDE DEF n
<1>9. QED  BY <1>6, <1>7, <1>8 DEF n

(* A socket that took none of the order's frames with it left them all.    *)
LEMMA CutOther ==
  ASSUME TypeOK, NEW n \in 0 .. Len(inbox), inbox' = SubSeq(inbox, 1, n),
         NEW o \in Ours, o \notin Subjects(SubSeq(inbox, n + 1, Len(inbox)))
  PROVE  Pending(o)' = Pending(o) /\ \A i \in Pending(o) : inbox'[i] = inbox[i]
<1> DEFINE lost == SubSeq(inbox, n + 1, Len(inbox))
<1>1. inbox \in Seq(Frames) /\ Len(inbox) \in Nat /\ DOMAIN inbox = 1 .. Len(inbox)
  BY LenProperties DEF TypeOK
<1>2. DOMAIN inbox' = 1 .. n /\ \A i \in 1 .. n : inbox'[i] = inbox[i]
  BY CutType
<1>3. ASSUME NEW i \in Pending(o), i > n PROVE FALSE
  <2>1. i \in n + 1 .. Len(inbox) /\ inbox[i].kind = "order" /\ inbox[i].order = o
    BY <1>1, <1>3 DEF Pending
  <2>2. \A j \in n + 1 .. Len(inbox) : inbox[j] \in Frames
    BY <1>1, ElementOfSeq
  <2>3. n + 1 \in Int /\ Len(inbox) \in Int /\ n + 1 <= Len(inbox)
    BY <1>1, <2>1
  <2>4. /\ lost \in Seq(Frames) /\ Len(lost) = Len(inbox) - (n + 1) + 1
        /\ \A j \in 1 .. Len(inbox) - (n + 1) + 1 : lost[j] = inbox[(n + 1) + j - 1]
    BY <2>2, <2>3, SubSeqProperties
  <2>5. i - n \in 1 .. Len(inbox) - (n + 1) + 1 /\ (n + 1) + (i - n) - 1 = i
    BY <1>1, <2>1
  <2>6. i - n \in DOMAIN lost /\ lost[i - n] = inbox[i]
    BY <2>4, <2>5, LenProperties
  <2>7. QED  BY <2>1, <2>6 DEF Subjects
<1>4. \A i \in Pending(o) : i \in 1 .. n
  BY <1>1, <1>3 DEF Pending
<1>5. QED  BY <1>1, <1>2, <1>4 DEF Pending

-------------------------------------------------------------------------------
(* Where an order can go, it can still go from where it was before.        *)
LEMMA LaterIsClosed ==
  ASSUME NEW a \in BookStates, NEW b \in BookStates, NEW c \in MayBecome[b],
         a = b \/ b \in Later[a]
  PROVE  c \in Later[a]
BY DEF Later, MayBecome, BookStates

(* The way behind the head is still the way.                               *)
LEMMA TailWay ==
  ASSUME TypeOK, inbox # <<>>, inbox' = Tail(inbox), book' = book,
         NEW o \in Ours, WayInv(o)
  PROVE  WayInv(o)'
<1>1. /\ \A i \in Pending(o)' :
           i \in Nat \ {0} /\ i + 1 \in Pending(o) /\ inbox'[i] = inbox[i + 1]
      /\ \A i \in Pending(o) : i \in Nat \ {0} /\ (i # 1 => i - 1 \in Pending(o)')
  BY Shift
<1>2. \A i \in Pending(o)' :
        book'[o] = inbox'[i].status \/ book'[o] \in Later[inbox'[i].status]
  BY <1>1 DEF WayInv
<1>3. ASSUME NEW k \in Pending(o)'
      PROVE  \E i \in Pending(o)' :
               book'[o] = inbox'[i].status /\ \A j \in Pending(o)' : j <= i
  <2>1. k + 1 \in Pending(o)
    BY <1>1, <1>3
  <2>2. PICK i \in Pending(o) :
          book[o] = inbox[i].status /\ \A j \in Pending(o) : j <= i
    BY <2>1 DEF WayInv
  <2>3. i - 1 \in Pending(o)' /\ i \in Nat
    BY <1>1, <1>3, <2>1, <2>2
  <2>4. inbox'[i - 1] = inbox[i]
    <3>1. (i - 1) + 1 = i
      BY <2>3
    <3>2. QED  BY <1>1, <2>3, <3>1
  <2>5. \A j \in Pending(o)' : j <= i - 1
    BY <1>1, <2>2, <2>3
  <2>6. QED  BY <2>2, <2>3, <2>4, <2>5
<1>4. ASSUME NEW i \in Pending(o)', NEW j \in Pending(o)', i < j
      PROVE  inbox'[j].status \in Later[inbox'[i].status]
  <2>1. i \in Nat /\ i + 1 \in Pending(o) /\ inbox'[i] = inbox[i + 1]
    BY <1>1
  <2>2. j \in Nat /\ j + 1 \in Pending(o) /\ inbox'[j] = inbox[j + 1]
    BY <1>1
  <2>3. i + 1 < j + 1
    BY <1>4, <2>1, <2>2
  <2>4. inbox[j + 1].status \in Later[inbox[i + 1].status]
    BY <2>1, <2>2, <2>3 DEF WayInv
  <2>5. QED  BY <2>1, <2>2, <2>4
<1>5. QED  BY <1>2, <1>3, <1>4 DEF WayInv

(* Reading a frame about something else leaves what was heard as it was.   *)
LEMMA TailOther ==
  ASSUME TypeOK, inbox # <<>>, inbox' = Tail(inbox), UNCHANGED <<book, traded>>,
         NEW o \in Ours, HeardOf(o), 1 \notin Pending(o),
         state'[o] = state[o], fills'[o] = fills[o], ~Asking(o), ~Asking(o)'
  PROVE  HeardOf(o)'
<1>1. /\ \A i \in Pending(o)' :
           i \in Nat \ {0} /\ i + 1 \in Pending(o) /\ inbox'[i] = inbox[i + 1]
      /\ \A i \in Pending(o) : i \in Nat \ {0} /\ i - 1 \in Pending(o)'
  BY Shift
<1>2. \A i \in Pending(o) : inbox'[i - 1] = inbox[i]
  <2>1. \A i \in Pending(o) : (i - 1) + 1 = i
    BY <1>1
  <2>2. QED  BY <1>1, <2>1
<1>3. WayInv(o)'
  BY TailWay DEF HeardOf
<1>4. ASSUME NEW i \in Pending(o)'
      PROVE  IF inbox'[i].status \in Early
             THEN ~Asking(o)' /\ state'[o] \in {"submitted", "accepted"}
             ELSE state'[o] \in Live
                    \/ \E h \in Pending(o)' : h < i /\ inbox'[h].status = "PENDING"
  <2>1. i + 1 \in Pending(o) /\ inbox'[i] = inbox[i + 1] /\ i \in Nat
    BY <1>1, <1>4
  <2>2. CASE inbox[i + 1].status \in Early \/ state[o] \in Live
    BY <2>1, <2>2 DEF HeardOf, UnreadInv
  <2>3. CASE inbox[i + 1].status \notin Early /\ state[o] \notin Live
    <3>1. PICK h \in Pending(o) : h < i + 1 /\ inbox[h].status = "PENDING"
      BY <2>1, <2>3 DEF HeardOf, UnreadInv
    <3>2. h \in Nat /\ h - 1 \in Pending(o)' /\ inbox'[h - 1] = inbox[h]
      BY <1>1, <1>2
    <3>3. h - 1 < i
      BY <2>1, <3>1, <3>2
    <3>4. inbox'[h - 1].status = "PENDING"
      BY <3>1, <3>2
    <3>5. QED  BY <2>1, <2>3, <3>2, <3>3, <3>4
  <2>4. QED  BY <2>2, <2>3
<1>5. Pending(o)' = {} => Pending(o) = {}
  BY <1>1
<1>6. PendingFills(o)' = {} => PendingFills(o) = {}
  BY <1>1, <1>2 DEF PendingFills
<1>7. ReadInv(o)'
  BY <1>5, <1>6 DEF HeardOf, ReadInv, Trades
<1>8. QED  BY <1>3, <1>4, <1>7 DEF HeardOf, UnreadInv

(* An order the engine holds for filled is traded at Dhan.                 *)
LEMMA FilledIsTraded ==
  ASSUME TypeOK, NEW o \in Ours, VenueInv(o), fills[o] \subseteq Trades(o),
         fills[o] = AllTrades(o)
  PROVE  book[o] = "TRADED" /\ Trades(o) = AllTrades(o)
<1>1. Size \in Nat \ {0} /\ traded[o] \in 0 .. Size
  BY OrdersAssumption DEF TypeOK
<1>2. <<o, Size>> \in AllTrades(o)
  BY <1>1 DEF AllTrades
<1>3. traded[o] = Size
  BY <1>1, <1>2 DEF Trades
<1>4. QED  BY <1>3 DEF VenueInv, Trades, AllTrades

(* The head of the inbox, when it is about order o.                        *)
LEMMA OwnHead ==
  ASSUME TypeOK, Reading, NEW o \in Ours
  PROVE  /\ o \in OursNamedBy(Frame) <=> 1 \in Pending(o)
         /\ inbox # <<>> /\ Frame = inbox[1]
<1>1. inbox # <<>>
  BY DEF Reading
<1>2. Frame \in Frames /\ Frame = inbox[1] /\ 1 \in DOMAIN inbox
  BY <1>1, ReadingType
<1>3. QED  BY <1>1, <1>2, FrameKinds DEF Pending

-------------------------------------------------------------------------------
(* An event of the order's own frame takes its state one step further.     *)
LEMMA HeardTellEvent ==
  ASSUME TypeOK, Facts, NEW o \in Ours, HeardOf(o), TellEvent(o)
  PROVE  HeardOf(o)'
<1> DEFINE s == inbox[1].status
<1>1. /\ VenueInv(o) /\ EngineInv(o) /\ FetchInv /\ state[o] \in OrderStates
      /\ book[o] \in BookStates
  BY DEF Facts, TypeOK
<1>2. /\ Reading /\ inbox # <<>> /\ inbox' = Tail(inbox) /\ 1 \in Pending(o)
      /\ Frame = inbox[1] /\ s \notin FillSignals /\ fetch' = fetch
      /\ UNCHANGED <<book, traded, fills>>
  BY OwnHead DEF TellEvent, venue, Reading
<1>3. ~Asking(o) /\ ~Asking(o)'
  BY <1>1, <1>2 DEF Asking, FetchInv, Reading
<1>4. s \in BookStates \ {"none"}
  BY <1>2, PendingType
<1>5. state'[o] = IF s \in DOMAIN EventOf THEN After(state[o], EventOf[s]) ELSE state[o]
  BY <1>2 DEF TellEvent, TypeOK
<1>6. /\ \A i \in Pending(o)' :
           i \in Nat \ {0} /\ i + 1 \in Pending(o) /\ inbox'[i] = inbox[i + 1]
      /\ \A i \in Pending(o) : i \in Nat \ {0} /\ (i # 1 => i - 1 \in Pending(o)')
  BY <1>2, Shift
<1>7. WayInv(o)'
  BY <1>2, TailWay DEF HeardOf
<1>8. s \in Early => state[o] \in {"submitted", "accepted"}
  BY <1>2 DEF HeardOf, UnreadInv
<1>9. s \notin Early => state[o] \in Live
  <2>1. ~ \E h \in Pending(o) : h < 1
    BY <1>6
  <2>2. QED  BY <1>2, <2>1 DEF HeardOf, UnreadInv
<1>10. \A j \in Pending(o) : j # 1 => inbox[j].status \in Later[s]
  <2>1. \A j \in Pending(o) : j # 1 => 1 < j
    BY <1>6
  <2>2. QED  BY <1>2, <2>1 DEF HeardOf, WayInv
<1>11. Pending(o)' = {} => book[o] = s
  <2>1. Pending(o)' = {} => \A j \in Pending(o) : j = 1
    BY <1>6
  <2>2. \E i \in Pending(o) : book[o] = inbox[i].status
    BY <1>2 DEF HeardOf, WayInv
  <2>3. QED  BY <2>1, <2>2
<1>12. s \in {"CANCELLED", "EXPIRED"} => state[o] \in {"accepted", "partially_filled"}
  <2>1. ASSUME s \in {"CANCELLED", "EXPIRED"} PROVE book[o] = s
    <3>1. Later[s] = {}
      BY <2>1 DEF Later
    <3>2. \A j \in Pending(o) : j = 1
      BY <1>10, <3>1
    <3>3. QED  BY <1>2, <3>2 DEF HeardOf, WayInv
  <2>2. state[o] = "filled" => book[o] = "TRADED"
    BY <1>1, FilledIsTraded DEF EngineInv
  <2>3. QED  BY <1>9, <2>1, <2>2 DEF Live, Early
<1>13. s \in {"TRANSIT", "PENDING", "REJECTED", "CANCELLED", "EXPIRED"}
  BY <1>2, <1>4 DEF BookStates, FillSignals
<1>14. /\ s = "TRANSIT" => state'[o] = state[o]
       /\ s = "PENDING" => state'[o] = "accepted"
       /\ s # "TRANSIT" => state'[o] \in Agreed[s]
       /\ s = "TRANSIT" => state'[o] \in {"submitted", "accepted"}
  BY <1>5, <1>8, <1>12, <1>13 DEF EventOf, After, Admits, Agreed, Early
<1>15. ASSUME NEW i \in Pending(o)'
       PROVE  IF inbox'[i].status \in Early
              THEN ~Asking(o)' /\ state'[o] \in {"submitted", "accepted"}
              ELSE state'[o] \in Live
                     \/ \E h \in Pending(o)' : h < i /\ inbox'[h].status = "PENDING"
  <2>1. /\ i \in Nat /\ i + 1 \in Pending(o) /\ i + 1 # 1 /\ inbox'[i] = inbox[i + 1]
    BY <1>6
  <2>2. inbox'[i].status \in Later[s]
    BY <1>10, <2>1
  <2>3. s \in {"TRANSIT", "PENDING"}
    BY <1>13, <2>2 DEF Later
  <2>4. CASE inbox'[i].status \in Early
    BY <1>3, <1>14, <2>3, <2>4
  <2>5. CASE s = "PENDING"
    BY <1>3, <1>14, <2>5 DEF Live
  <2>6. CASE s = "TRANSIT" /\ inbox'[i].status \notin Early
    <3>1. CASE state[o] \in Live
      BY <1>14, <2>6, <3>1
    <3>2. CASE state[o] \notin Live
      <4>1. PICK h \in Pending(o) : h < i + 1 /\ inbox[h].status = "PENDING"
        BY <2>1, <2>6, <3>2 DEF HeardOf, UnreadInv
      <4>2. h # 1
        BY <2>6, <4>1
      <4>3. h \in Nat /\ h - 1 \in Pending(o)'
        BY <1>6, <4>2
      <4>4. (h - 1) + 1 = h /\ h - 1 < i
        BY <2>1, <4>1, <4>3
      <4>5. inbox'[h - 1] = inbox[h]
        BY <1>6, <4>3, <4>4
      <4>6. QED  BY <2>6, <4>1, <4>3, <4>4, <4>5
    <3>3. QED  BY <3>1, <3>2
  <2>7. QED  BY <2>3, <2>4, <2>5, <2>6
<1>16. Pending(o)' = {} => state'[o] \in Agreed[book'[o]]
  BY <1>2, <1>11, <1>14 DEF Agreed
<1>17. PendingFills(o)' = {} => fills'[o] = Trades(o)'
  <2>1. ASSUME NEW j \in PendingFills(o) PROVE j - 1 \in PendingFills(o)'
    <3>1. j \in Pending(o) /\ inbox[j].status \in FillSignals
      BY <2>1 DEF PendingFills
    <3>2. j # 1 /\ j \in Nat /\ j - 1 \in Pending(o)'
      BY <1>2, <1>6, <3>1
    <3>3. (j - 1) + 1 = j
      BY <3>2
    <3>4. inbox'[j - 1] = inbox[j]
      BY <1>6, <3>2, <3>3
    <3>5. QED  BY <3>1, <3>2, <3>4 DEF PendingFills
  <2>2. PendingFills(o)' = {} => PendingFills(o) = {}
    BY <2>1
  <2>3. QED  BY <1>2, <1>3, <2>2 DEF HeardOf, ReadInv, Trades
<1>18. QED  BY <1>3, <1>7, <1>15, <1>16, <1>17 DEF HeardOf, UnreadInv, ReadInv

(* A fill frame of the order's own is heard and not yet believed.          *)
LEMMA HeardAskForTrades ==
  ASSUME TypeOK, Facts, NEW o \in Ours, HeardOf(o), AskForTrades(o)
  PROVE  HeardOf(o)'
<1> DEFINE s == inbox[1].status
<1>1. /\ Reading /\ inbox # <<>> /\ inbox' = Tail(inbox) /\ 1 \in Pending(o)
      /\ Frame = inbox[1] /\ s \in FillSignals
      /\ UNCHANGED <<book, traded, state, fills>>
      /\ fetch' = [order |-> o, of |-> Frame.order, answer |-> "waiting", rows |-> {}]
  BY OwnHead DEF AskForTrades, venue, engine, Reading
<1>2. fetch'.order = o /\ fetch'.answer = "waiting" /\ fetch' # NoFetch
  <2>1. fetch'.order = o /\ fetch'.answer = "waiting"
    BY <1>1
  <2>2. NoFetch.answer = "none"
    BY DEF NoFetch
  <2>3. QED  BY <2>1, <2>2
<1>3. Asking(o)'
  BY <1>2 DEF Asking, NoFetch
<1>4. /\ \A i \in Pending(o)' :
           i \in Nat \ {0} /\ i + 1 \in Pending(o) /\ inbox'[i] = inbox[i + 1]
      /\ \A i \in Pending(o) : i \in Nat \ {0} /\ (i # 1 => i - 1 \in Pending(o)')
  BY <1>1, Shift
<1>5. WayInv(o)'
  BY <1>1, TailWay DEF HeardOf
<1>6. state[o] \in Live
  <2>1. ~ \E h \in Pending(o) : h < 1
    BY <1>4
  <2>2. QED  BY <1>1, <2>1 DEF HeardOf, UnreadInv, FillSignals, Early
<1>7. ASSUME NEW i \in Pending(o)' PROVE inbox'[i].status \notin Early
  <2>1. i \in Nat \ {0} /\ i + 1 \in Pending(o) /\ 1 < i + 1 /\ inbox'[i] = inbox[i + 1]
    BY <1>4
  <2>2. inbox'[i].status \in Later[s]
    BY <1>1, <2>1 DEF HeardOf, WayInv
  <2>3. \A t \in FillSignals : Later[t] \cap Early = {}
    BY DEF Later, FillSignals, Early
  <2>4. QED  BY <1>1, <2>2, <2>3
<1>8. Pending(o)' = {} => book'[o] \in FillSignals
  <2>1. Pending(o)' = {} => \A j \in Pending(o) : j = 1
    BY <1>4
  <2>2. \E i \in Pending(o) : book[o] = inbox[i].status
    BY <1>1 DEF HeardOf, WayInv
  <2>3. QED  BY <1>1, <2>1, <2>2
<1>9. UnreadInv(o)'
  BY <1>1, <1>6, <1>7 DEF UnreadInv
<1>10. ReadInv(o)'
  <2>1. state'[o] \in Live /\ fetch'.answer # "trades"
    BY <1>1, <1>2, <1>6
  <2>2. QED  BY <1>3, <1>8, <2>1 DEF ReadInv
<1>11. QED  BY <1>5, <1>9, <1>10 DEF HeardOf

(* The trades of the order are told; if no fill frame is left, all of them. *)
LEMMA HeardTellFills ==
  ASSUME TypeOK, TypeOK', Facts, Facts', NEW o \in Ours, HeardOf(o),
         TellFills, o = fetch.order
  PROVE  HeardOf(o)'
<1>1. /\ VenueInv(o) /\ EngineInv(o) /\ FetchInv /\ VenueInv(o)' /\ EngineInv(o)'
  BY DEF Facts
<1>2. /\ fetch \in Fetches /\ UNCHANGED <<book, traded, inbox>> /\ fetch' = NoFetch
      /\ fetch.answer = "trades"
      /\ IF state[o] \in Fillable
         THEN /\ fills'[o] = fills[o] \cup fetch.rows
              /\ state'[o] \in {state[o], "partially_filled", "filled"}
         ELSE fills'[o] = fills[o] /\ state'[o] = state[o]
  BY <1>1, TellFillsEffect DEF TellFills
<1>3. Asking(o) /\ ~Asking(o)'
  BY <1>2 DEF Asking, NoFetch
<1>4. state[o] \in Live /\ state'[o] \in Live
  BY <1>2, <1>3 DEF HeardOf, ReadInv, Live
<1>5. Pending(o)' = Pending(o) /\ PendingFills(o)' = PendingFills(o)
  BY <1>2 DEF Pending, PendingFills
<1>6. WayInv(o)'
  BY <1>2, <1>5 DEF HeardOf, WayInv
<1>7. UnreadInv(o)'
  BY <1>2, <1>3, <1>4, <1>5 DEF HeardOf, UnreadInv
<1>8. ASSUME PendingFills(o) = {} PROVE fills'[o] = Trades(o)'
  <2>1. fetch.rows = Trades(o) /\ Trades(o)' = Trades(o)
    BY <1>2, <1>3, <1>8 DEF HeardOf, ReadInv, Trades
  <2>2. CASE state[o] \in Fillable
    BY <1>1, <1>2, <2>1, <2>2 DEF EngineInv
  <2>3. CASE state[o] \notin Fillable
    <3>1. state[o] = "filled"
      BY <1>4, <2>3 DEF Live, Fillable
    <3>2. fills[o] = AllTrades(o)
      BY <1>1, <3>1 DEF EngineInv
    <3>3. QED  BY <1>1, <1>2, <2>1, <2>3, <3>2, FilledIsTraded DEF EngineInv
  <2>4. QED  BY <2>2, <2>3
<1>9. ASSUME Pending(o) = {} PROVE state'[o] \in Agreed[book'[o]]
  <2>1. book'[o] \in FillSignals /\ fills'[o] = Trades(o)'
    BY <1>2, <1>3, <1>8, <1>9 DEF HeardOf, ReadInv, PendingFills
  <2>2. traded'[o] \in 1 .. Size /\ Size \in Nat
    BY <1>1, <2>1, OrdersAssumption DEF TypeOK, VenueInv, FillSignals
  <2>3. <<o, traded'[o]>> \in Trades(o)'
    BY <2>2 DEF Trades
  <2>4. state'[o] # "accepted"
    BY <1>1, <2>1, <2>3 DEF EngineInv
  <2>5. CASE book'[o] = "TRADED"
    <3>1. fills'[o] = AllTrades(o)
      BY <1>1, <2>1, <2>5 DEF VenueInv, Trades, AllTrades
    <3>2. state'[o] # "partially_filled"
      BY <1>1, <3>1 DEF EngineInv, AllTrades
    <3>3. QED  BY <1>4, <2>4, <2>5, <3>2 DEF Live, Agreed
  <2>6. CASE book'[o] = "PART_TRADED"
    <3>1. traded'[o] # Size
      BY <1>1, <2>6 DEF VenueInv
    <3>2. <<o, Size>> \notin Trades(o)' /\ <<o, Size>> \in AllTrades(o)
      BY <2>2, <3>1 DEF Trades, AllTrades
    <3>3. state'[o] # "filled"
      BY <1>1, <2>1, <3>2 DEF EngineInv, AllTrades
    <3>4. QED  BY <1>4, <2>4, <2>6, <3>3 DEF Live, Agreed
  <2>7. QED  BY <2>1, <2>5, <2>6 DEF FillSignals
<1>10. ReadInv(o)'
  BY <1>3, <1>5, <1>8, <1>9 DEF ReadInv
<1>11. QED  BY <1>6, <1>7, <1>10 DEF HeardOf

(* The book moves and a frame says so: it joins the way behind the others. *)
LEMMA HeardMove ==
  ASSUME TypeOK, Facts, NEW o \in Ours, HeardOf(o), BookMoves(o), line = "open"
  PROVE  HeardOf(o)'
<1> DEFINE n == Len(inbox) + 1
<1>1. PICK s \in MayBecome[book[o]] :
        /\ s \in BookStates \ {"none"} /\ book'[o] = s
        /\ traded'[o] \in TradedAt(o, s)
        /\ inbox' = Append(inbox, Update(o, s))
        /\ UNCHANGED <<post, fetch, state, fills>>
  BY MoveEffect DEF TypeOK
<1>2. /\ n \in Nat /\ Pending(o)' = Pending(o) \cup {n} /\ inbox'[n].status = s
      /\ \A i \in Pending(o) : i \in Nat /\ i < n /\ inbox'[i] = inbox[i]
  BY <1>1, AppendOwn
<1> HIDE DEF n
<1>3. Asking(o)' <=> Asking(o)
  BY <1>1 DEF Asking, NoFetch
<1>4. ASSUME NEW i \in Pending(o)
      PROVE  s \in Later[inbox[i].status] /\ inbox[i].status \in BookStates \ {"none"}
  <2>1. inbox[i].status \in BookStates \ {"none"} /\ book[o] \in BookStates
    BY <1>4, PendingType DEF TypeOK
  <2>2. book[o] = inbox[i].status \/ book[o] \in Later[inbox[i].status]
    BY <1>4 DEF HeardOf, WayInv
  <2>3. QED  BY <1>1, <2>1, <2>2, LaterIsClosed
<1>5. WayInv(o)'
  <2>1. \A i \in Pending(o)' :
          book'[o] = inbox'[i].status \/ book'[o] \in Later[inbox'[i].status]
    BY <1>1, <1>2, <1>4
  <2>2. book'[o] = inbox'[n].status /\ n \in Pending(o)' /\ \A j \in Pending(o)' : j <= n
    BY <1>1, <1>2
  <2>3. ASSUME NEW i \in Pending(o)', NEW j \in Pending(o)', i < j
        PROVE  inbox'[j].status \in Later[inbox'[i].status]
    <3>1. i \in Pending(o)
      BY <1>2, <2>3
    <3>2. CASE j = n
      BY <1>2, <1>4, <3>1, <3>2
    <3>3. CASE j # n
      BY <1>2, <2>3, <3>1, <3>3 DEF HeardOf, WayInv
    <3>4. QED  BY <3>2, <3>3
  <2>4. QED  BY <2>1, <2>2, <2>3 DEF WayInv
<1>6. /\ s \in Early => book[o] \in {"none", "TRANSIT", "PENDING"}
      /\ s \notin Early => book[o] \in {"PENDING", "PART_TRADED"}
  BY <1>1 DEF MayBecome, BookStates, Early, TypeOK
<1>7. state[o] # "initialized"
  BY DEF BookMoves, Facts, VenueInv
<1>8. IF s \in Early
      THEN ~Asking(o) /\ state[o] \in {"submitted", "accepted"}
      ELSE state[o] \in Live \/ \E h \in Pending(o) : inbox[h].status = "PENDING"
  <2>1. CASE Pending(o) = {}
    <3>1. /\ Asking(o) => book[o] \in FillSignals /\ state[o] \in Live
          /\ ~Asking(o) => state[o] \in Agreed[book[o]]
      BY <2>1 DEF HeardOf, ReadInv
    <3>2. s \in Early => ~Asking(o) /\ state[o] \in {"submitted", "accepted"}
      BY <1>6, <1>7, <3>1 DEF Agreed, FillSignals
    <3>3. s \notin Early => state[o] \in Live
      BY <1>6, <3>1 DEF Agreed, Live
    <3>4. QED  BY <3>2, <3>3
  <2>2. CASE Pending(o) # {}
    <3>1. PICK i \in Pending(o) : book[o] = inbox[i].status
      BY <2>2 DEF HeardOf, WayInv
    <3>2. inbox[i].status # "none"
      BY <1>4
    <3>3. IF inbox[i].status \in Early
          THEN ~Asking(o) /\ state[o] \in {"submitted", "accepted"}
          ELSE state[o] \in Live \/ \E h \in Pending(o) : inbox[h].status = "PENDING"
      BY DEF HeardOf, UnreadInv
    <3>4. CASE s \in Early
      BY <1>6, <3>1, <3>2, <3>3, <3>4 DEF Early
    <3>5. CASE s \notin Early
      BY <1>6, <3>1, <3>3, <3>5 DEF Early
    <3>6. QED  BY <3>4, <3>5
  <2>3. QED  BY <2>1, <2>2
<1>9. ASSUME NEW i \in Pending(o)'
      PROVE  IF inbox'[i].status \in Early
             THEN ~Asking(o)' /\ state'[o] \in {"submitted", "accepted"}
             ELSE state'[o] \in Live
                    \/ \E h \in Pending(o)' : h < i /\ inbox'[h].status = "PENDING"
  <2>1. CASE i = n
    BY <1>1, <1>2, <1>3, <1>8, <2>1
  <2>2. CASE i # n
    <3>1. i \in Pending(o) /\ inbox'[i] = inbox[i]
      BY <1>2, <2>2
    <3>2. IF inbox[i].status \in Early
          THEN ~Asking(o) /\ state[o] \in {"submitted", "accepted"}
          ELSE state[o] \in Live
                 \/ \E h \in Pending(o) : h < i /\ inbox[h].status = "PENDING"
      BY <3>1 DEF HeardOf, UnreadInv
    <3>3. QED  BY <1>1, <1>2, <1>3, <3>1, <3>2
  <2>3. QED  BY <2>1, <2>2
<1>10. Pending(o)' # {}
  BY <1>2
<1>11. ASSUME PendingFills(o)' = {} PROVE PendingFills(o) = {} /\ Trades(o)' = Trades(o)
  <2>1. s \notin FillSignals
    BY <1>2, <1>11 DEF PendingFills
  <2>2. traded'[o] = traded[o]
    BY <1>1, <2>1 DEF TradedAt, FillSignals
  <2>3. PendingFills(o) = {}
    BY <1>2, <1>11 DEF PendingFills
  <2>4. QED  BY <2>2, <2>3 DEF Trades
<1>12. ReadInv(o)'
  BY <1>1, <1>3, <1>10, <1>11 DEF HeardOf, ReadInv
<1>13. QED  BY <1>5, <1>9, <1>12 DEF HeardOf, UnreadInv

(* The submission meets the frames: ACCEPTED finds the order submitted, or *)
(* already further.                                                        *)
LEMMA HeardSubmission ==
  ASSUME TypeOK, Facts, NEW o \in Ours, HeardOf(o), Submit(o) \/ PostReturns(o)
  PROVE  HeardOf(o)'
<1>1. /\ UNCHANGED <<book, traded, inbox, fetch, fills>>
      /\ \/ /\ post[o] = "unsent"
            /\ state'[o] = IF state[o] = "initialized" THEN "submitted" ELSE state[o]
         \/ /\ post[o] # "unsent" /\ book[o] # "none"
            /\ state'[o] = IF state[o] = "submitted" THEN "accepted" ELSE state[o]
  BY SubmitEffect
<1>2. /\ Pending(o)' = Pending(o) /\ PendingFills(o)' = PendingFills(o)
      /\ (Asking(o)' <=> Asking(o)) /\ Trades(o)' = Trades(o)
  BY <1>1 DEF Pending, PendingFills, Asking, Trades, NoFetch
<1>3. WayInv(o)'
  BY <1>1, <1>2 DEF HeardOf, WayInv
<1>4. VenueInv(o) /\ book[o] \in BookStates
  BY DEF Facts, TypeOK
<1>5. CASE post[o] = "unsent"
  <2>1. book[o] = "none" /\ state[o] = "initialized" /\ state'[o] = "submitted"
    BY <1>1, <1>4, <1>5 DEF VenueInv
  <2>2. Pending(o) = {}
    BY <2>1, PendingType DEF HeardOf, WayInv
  <2>3. ~Asking(o)
    BY <2>1 DEF HeardOf, ReadInv, Live
  <2>4. UnreadInv(o)'
    BY <1>2, <2>2 DEF UnreadInv
  <2>5. ReadInv(o)'
    BY <1>1, <1>2, <2>1, <2>3 DEF HeardOf, ReadInv, Agreed
  <2>6. QED  BY <1>3, <2>4, <2>5 DEF HeardOf
<1>6. CASE post[o] # "unsent"
  <2>1. /\ state'[o] = IF state[o] = "submitted" THEN "accepted" ELSE state[o]
        /\ book[o] # "none"
    BY <1>1, <1>6
  <2>2. /\ state[o] \in {"submitted", "accepted"} => state'[o] \in {"submitted", "accepted"}
        /\ state[o] \in Live => state'[o] \in Live
    BY <2>1 DEF Live
  <2>3. state[o] \in Agreed[book[o]] => state'[o] \in Agreed[book'[o]]
    BY <1>1, <1>4, <2>1 DEF Agreed, BookStates
  <2>4. UnreadInv(o)'
    BY <1>1, <1>2, <2>2 DEF HeardOf, UnreadInv
  <2>5. ReadInv(o)'
    BY <1>1, <1>2, <2>2, <2>3 DEF HeardOf, ReadInv
  <2>6. QED  BY <1>3, <2>4, <2>5 DEF HeardOf
<1>7. QED  BY <1>5, <1>6

-------------------------------------------------------------------------------
(* The steps that neither read a frame about the order nor move it.        *)
LEMMA NextHeard ==
  ASSUME TypeOK, TypeOK', Facts, Facts', Heard, [Next]_vars, NEW o \in Ours \ missed'
  PROVE  HeardOf(o)'
<1> USE DEF venue, client, stream, socket, engine
<1>1. ASSUME o \notin missed PROVE HeardOf(o)
  BY <1>1 DEF Heard
<1>2. FetchInv
  BY DEF Facts
<1>3. ASSUME UNCHANGED <<book, traded, inbox, fetch>>, o \notin missed,
             state'[o] = state[o], fills'[o] = fills[o]
      PROVE  HeardOf(o)'
  <2>1. Pending(o)' = Pending(o) /\ (Asking(o)' <=> Asking(o))
    BY <1>3 DEF Pending, Asking, NoFetch
  <2>2. QED  BY <1>1, <1>3, <2>1, StillHeard
<1>4. ASSUME NEW p \in Ours, Submit(p) \/ PostReturns(p) PROVE HeardOf(o)'
  <2>1. o \notin missed
    BY <1>4, SubmitEffect
  <2>2. CASE p = o
    BY <1>1, <1>4, <2>1, <2>2, HeardSubmission
  <2>3. CASE p # o
    BY <1>3, <1>4, <2>1, <2>3, SubmitEffect
  <2>4. QED  BY <2>2, <2>3
<1>5. CASE Connect \/ ProviderLoads \/ ProviderFails \/ Open \/ Refused \/ Wake
           \/ SocketEndSeen
  <2>1. UNCHANGED <<book, traded, inbox, fetch, missed, state, fills>>
    BY <1>5 DEF Connect, ProviderLoads, ProviderFails, Open, Refused, Wake, SocketEndSeen
  <2>2. QED  BY <1>3, <2>1
<1>6. CASE Disconnect \/ HandlerRaises
  <2>1. DropSocket /\ UNCHANGED <<book, traded, state, fills>>
    BY <1>6 DEF Disconnect, HandlerRaises
  <2>2. /\ o \notin missed /\ o \notin Subjects(inbox) /\ o \notin InHand
        /\ inbox' = <<>> /\ fetch' = NoFetch
    BY <2>1 DEF DropSocket
  <2>3. Pending(o) = {} /\ Pending(o)' = {}
    BY <2>2 DEF Pending, Subjects
  <2>4. ~Asking(o) /\ ~Asking(o)'
    BY <2>2 DEF Asking, InHand, NoFetch
  <2>5. QED  BY <1>1, <2>1, <2>2, <2>3, <2>4, StillHeard
<1>7. CASE Skip
  <2>1. /\ Reading /\ o \notin OursNamedBy(Frame) /\ inbox' = Tail(inbox)
        /\ UNCHANGED <<book, traded, state, fills, fetch, missed>>
    BY <1>7 DEF Skip
  <2>2. inbox # <<>> /\ 1 \notin Pending(o)
    BY <2>1, OwnHead
  <2>3. ~Asking(o) /\ ~Asking(o)'
    BY <1>2, <2>1 DEF Asking, FetchInv, Reading, NoFetch
  <2>4. QED  BY <1>1, <2>1, <2>2, <2>3, TailOther
<1>8. ASSUME NEW p \in Ours, TellEvent(p) \/ AskForTrades(p) PROVE HeardOf(o)'
  <2>1. /\ Reading /\ p \in OursNamedBy(Frame) /\ inbox' = Tail(inbox)
        /\ UNCHANGED <<book, traded, fills, missed>>
    BY <1>8 DEF TellEvent, AskForTrades
  <2>2. CASE p = o
    BY <1>1, <1>8, <2>1, <2>2, HeardTellEvent, HeardAskForTrades
  <2>3. CASE p # o
    <3>1. inbox # <<>> /\ Frame \in Frames
      BY <2>1, ReadingType DEF Reading
    <3>2. OursNamedBy(Frame) = {p}
      BY <2>1, <3>1, FrameKinds
    <3>3. 1 \notin Pending(o)
      BY <2>1, <2>3, <3>2, OwnHead
    <3>4. state'[o] = state[o]
      <4>1. CASE TellEvent(p)
        BY <2>3, <4>1, TellEventEffect
      <4>2. CASE AskForTrades(p)
        BY <4>2 DEF AskForTrades
      <4>3. QED  BY <1>8, <4>1, <4>2
    <3>5. ~Asking(o)
      BY <1>2, <2>1 DEF Asking, FetchInv, Reading
    <3>6. ~Asking(o)'
      <4>1. fetch' = fetch \/ fetch'.order = p
        BY <1>8 DEF TellEvent, AskForTrades
      <4>2. QED  BY <2>3, <3>5, <4>1 DEF Asking, NoFetch
    <3>7. QED  BY <1>1, <2>1, <3>1, <3>3, <3>4, <3>5, <3>6, TailOther
  <2>4. QED  BY <2>2, <2>3
<1>9. CASE TellFills
  <2>1. /\ UNCHANGED <<book, traded, inbox, missed>> /\ fetch' = NoFetch
        /\ fetch.order # o => state'[o] = state[o] /\ fills'[o] = fills[o]
    BY <1>2, <1>9, TellFillsEffect
  <2>2. CASE fetch.order = o
    BY <1>1, <1>9, <2>1, <2>2, HeardTellFills
  <2>3. CASE fetch.order # o
    <3>1. ~Asking(o) /\ ~Asking(o)' /\ Pending(o)' = Pending(o)
      BY <2>1, <2>3 DEF Asking, Pending, NoFetch
    <3>2. QED  BY <1>1, <2>1, <2>3, <3>1, StillHeard
  <2>4. QED  BY <2>2, <2>3
<1>10. CASE GiveUpFills
  <2>1. /\ UNCHANGED <<book, traded, inbox, state, fills>> /\ fetch' = NoFetch
        /\ o \notin missed /\ o \notin InHand
    BY <1>10 DEF GiveUpFills
  <2>2. ~Asking(o) /\ ~Asking(o)' /\ Pending(o)' = Pending(o)
    BY <2>1 DEF Asking, InHand, Pending, NoFetch
  <2>3. QED  BY <1>1, <2>1, <2>2, StillHeard
<1>11. ASSUME NEW p \in Ours, BookMoves(p) PROVE HeardOf(o)'
  <2>1. PICK s \in MayBecome[book[p]] :
          /\ s \in BookStates \ {"none"} /\ book' = [book EXCEPT ![p] = s]
          /\ \A q \in Ours \ {p} : traded'[q] = traded[q]
          /\ line = "open" => inbox' = Append(inbox, Update(p, s)) /\ missed' = missed
          /\ line # "open" => inbox' = inbox /\ missed' = missed \cup {p}
          /\ UNCHANGED <<fetch, state, fills>>
    BY <1>11, MoveEffect
  <2>2. o \notin missed
    BY <2>1
  <2>3. CASE p = o
    <3>1. line = "open"
      BY <2>1, <2>3
    <3>2. QED  BY <1>1, <1>11, <2>2, <2>3, <3>1, HeardMove
  <2>4. CASE p # o
    <3>1. Pending(o)' = Pending(o) /\ \A i \in Pending(o) : inbox'[i] = inbox[i]
      <4>1. CASE line = "open"
        BY <2>1, <2>4, <4>1, UpdateType, AppendOther
      <4>2. CASE line # "open"
        BY <2>1, <4>2 DEF Pending
      <4>3. QED  BY <4>1, <4>2
    <3>2. book'[o] = book[o] /\ traded'[o] = traded[o] /\ (Asking(o)' <=> Asking(o))
      BY <2>1, <2>4 DEF Asking, NoFetch, TypeOK
    <3>3. QED  BY <1>1, <2>1, <2>2, <3>1, <3>2, StillHeard
  <2>5. QED  BY <2>3, <2>4
<1>12. CASE SendNoise
  <2>1. PICK k \in Noise : inbox' = Append(inbox, [kind |-> k])
    BY <1>12 DEF SendNoise
  <2>2. [kind |-> k] \in Frames /\ [kind |-> k].kind # "order"
    BY FaultsAssumption DEF Frames
  <2>3. Pending(o)' = Pending(o) /\ \A i \in Pending(o) : inbox'[i] = inbox[i]
    BY <2>1, <2>2, AppendOther
  <2>4. UNCHANGED <<book, traded, state, fills, fetch, missed>>
    BY <1>12 DEF SendNoise
  <2>5. Asking(o)' <=> Asking(o)
    BY <2>4 DEF Asking, NoFetch
  <2>6. QED  BY <1>1, <2>3, <2>4, <2>5, StillHeard
<1>13. CASE SocketEnds
  <2>1. PICK n \in 0 .. Len(inbox) :
          /\ inbox' = SubSeq(inbox, 1, n)
          /\ missed' = missed \cup Subjects(SubSeq(inbox, n + 1, Len(inbox)))
    BY <1>13 DEF SocketEnds
  <2>2. o \notin missed /\ o \notin Subjects(SubSeq(inbox, n + 1, Len(inbox)))
    BY <2>1
  <2>3. Pending(o)' = Pending(o) /\ \A i \in Pending(o) : inbox'[i] = inbox[i]
    BY <2>1, <2>2, CutOther
  <2>4. UNCHANGED <<book, traded, state, fills, fetch>>
    BY <1>13 DEF SocketEnds
  <2>5. Asking(o)' <=> Asking(o)
    BY <2>4 DEF Asking, NoFetch
  <2>6. QED  BY <1>1, <2>2, <2>3, <2>4, <2>5, StillHeard
<1>14. CASE TradesAnswered
  <2>1. UNCHANGED <<book, traded, inbox, missed, state, fills>> /\ fetch \in Fetches
    BY <1>14 DEF TradesAnswered, TypeOK, NoFetch
  <2>2. /\ fetch'.order = fetch.order /\ fetch'.answer # "none"
        /\ fetch'.answer = "trades" => fetch'.rows = Trades(fetch.of)
    BY <1>14, <2>1 DEF TradesAnswered, Fetches
  <2>3. fetch # NoFetch /\ fetch' # NoFetch
    BY <1>14, <2>2 DEF TradesAnswered, NoFetch
  <2>4. Pending(o)' = Pending(o) /\ (Asking(o)' <=> Asking(o))
    BY <2>1, <2>2, <2>3 DEF Pending, Asking, NoFetch
  <2>5. CASE ~Asking(o)
    BY <1>1, <2>1, <2>4, <2>5, StillHeard
  <2>6. CASE Asking(o)
    <3>1. fetch.of = o
      BY <1>2, <2>6 DEF FetchInv, Asking
    <3>2. HeardOf(o) /\ PendingFills(o)' = PendingFills(o) /\ Trades(o)' = Trades(o)
      BY <1>1, <2>1 DEF PendingFills, Pending, Trades
    <3>3. WayInv(o)' /\ UnreadInv(o)'
      BY <2>1, <2>4, <3>2 DEF HeardOf, WayInv, UnreadInv
    <3>4. ReadInv(o)'
      BY <2>1, <2>2, <2>4, <2>6, <3>1, <3>2 DEF HeardOf, ReadInv
    <3>5. QED  BY <3>3, <3>4 DEF HeardOf
  <2>7. QED  BY <2>5, <2>6
<1>15. CASE UNCHANGED vars
  BY <1>3, <1>15 DEF vars
<1>16. QED
  BY <1>4, <1>5, <1>6, <1>7, <1>8, <1>9, <1>10, <1>11, <1>12, <1>13, <1>14, <1>15
  DEF Next, Handle

(* Nothing has been missed at the start.                                   *)
LEMMA InitHeard == Init => Heard
<1> SUFFICES ASSUME Init, NEW o \in Ours PROVE HeardOf(o)
  BY DEF Heard
<1>1. Pending(o) = {} /\ ~Asking(o) /\ Trades(o) = {}
  BY DEF Init, Pending, Asking, Trades
<1>2. QED
  BY <1>1 DEF Init, HeardOf, WayInv, UnreadInv, ReadInv, PendingFills, Agreed

(* IInv is inductive: what each unread frame still has to tell, the engine *)
(* is ready to hear (execution.py:934-1018).                               *)
THEOREM StreamInvariant == Spec => []IInv
<1>1. Init => IInv
  BY InitType, InitFacts, InitHeard DEF IInv
<1>2. IInv /\ [Next]_vars => IInv'
  <2>1. ASSUME IInv, [Next]_vars PROVE TypeOK' /\ Facts'
    BY <2>1, NextType, NextFacts DEF IInv
  <2>2. ASSUME IInv, [Next]_vars PROVE Heard'
    BY <2>1, <2>2, NextHeard DEF IInv, Heard
  <2>3. QED  BY <2>1, <2>2 DEF IInv
<1>3. QED  BY <1>1, <1>2, PTL DEF Spec

(* Once the reader has caught up, the engine agrees with Dhan on every     *)
(* order of which no frame was missed, whatever the order in which answer, *)
(* frames and trades were read (execution.py:953-982).                     *)
THEOREM ReaderAgreesWithDhan == Spec => []CaughtUp
<1>1. IInv => CaughtUp
  <2>1. ASSUME IInv, task = "reading", inbox = <<>>, NEW o \in Ours \ missed
        PROVE  state[o] \in Agreed[book[o]] /\ fills[o] = Trades(o)
    <3>1. ReadInv(o) /\ FetchInv
      BY <2>1 DEF IInv, Facts, Heard, HeardOf
    <3>2. Pending(o) = {} /\ PendingFills(o) = {}
      BY <2>1 DEF Pending, PendingFills
    <3>3. ~Asking(o)
      BY <2>1, <3>1 DEF FetchInv, Asking
    <3>4. QED  BY <3>1, <3>2, <3>3 DEF ReadInv
  <2>2. QED  BY <2>1 DEF CaughtUp
<1>2. QED  BY <1>1, StreamInvariant, PTL
-------------------------------------------------------------------------------
(***************************************************************************)
(* The refinement of OrderLife.  Of a missed order the engine may know     *)
(* little, but the frames that did arrive are still what its book has been *)
(* through; that is all a verdict needs.                                   *)
(***************************************************************************)
Unread  == {inbox[i] : i \in DOMAIN inbox}
Past(f) == f.kind = "order" =>
             book[f.order] = f.status \/ book[f.order] \in Later[f.status]
History == \A f \in Unread : Past(f)

fateBar == [o \in Ours |-> Fate[book[o]]]

(* No step puts a frame in the inbox but Dhan's: noise, or the book's move. *)
LEMMA NewFrames ==
  ASSUME TypeOK, [Next]_vars, NEW f \in Unread'
  PROVE  \/ f \in Unread
         \/ f.kind # "order"
         \/ \E o \in Ours : /\ BookMoves(o) /\ f = Update(o, book'[o])
                            /\ book'[o] \in BookStates \ {"none"}
<1> USE DEF socket
<1>1. inbox \in Seq(Frames) /\ Len(inbox) \in Nat /\ DOMAIN inbox = 1 .. Len(inbox)
  BY LenProperties DEF TypeOK
<1>2. CASE inbox' = inbox
  BY <1>2 DEF Unread
<1>3. CASE inbox' = <<>>
  BY <1>3 DEF Unread
<1>4. CASE inbox # <<>> /\ inbox' = Tail(inbox)
  <2>1. PICK i \in DOMAIN inbox' : f = inbox'[i]
    BY DEF Unread
  <2>2. i + 1 \in DOMAIN inbox /\ f = inbox[i + 1]
    BY <1>1, <1>4, <2>1, ReadingType
  <2>3. QED  BY <2>2 DEF Unread
<1>5. ASSUME NEW g \in Frames, inbox' = Append(inbox, g)
      PROVE  f \in Unread \/ f = g
  <2>1. /\ inbox' \in Seq(Frames) /\ Len(inbox') = Len(inbox) + 1
        /\ \A i \in 1 .. Len(inbox) : inbox'[i] = inbox[i]
        /\ inbox'[Len(inbox) + 1] = g
    BY <1>1, <1>5, AppendProperties
  <2>2. DOMAIN inbox' = 1 .. Len(inbox) + 1
    BY <2>1, LenProperties
  <2>3. PICK i \in 1 .. Len(inbox) + 1 : f = inbox'[i]
    BY <2>2 DEF Unread
  <2>4. i \in 1 .. Len(inbox) \/ i = Len(inbox) + 1
    BY <1>1
  <2>5. QED  BY <1>1, <2>1, <2>3, <2>4 DEF Unread
<1>6. CASE SendNoise
  <2>1. PICK k \in Noise : inbox' = Append(inbox, [kind |-> k])
    BY <1>6 DEF SendNoise
  <2>2. [kind |-> k] \in Frames /\ [kind |-> k].kind # "order"
    BY FaultsAssumption DEF Frames
  <2>3. QED  BY <1>5, <2>1, <2>2
<1>7. ASSUME NEW o \in Ours, BookMoves(o)
      PROVE  \/ f \in Unread
             \/ f = Update(o, book'[o]) /\ book'[o] \in BookStates \ {"none"}
  <2>1. PICK s \in BookStates \ {"none"} :
          /\ book' = [book EXCEPT ![o] = s]
          /\ inbox' = inbox \/ inbox' = Append(inbox, Update(o, s))
    BY <1>7, MoveEffect
  <2>2. book'[o] = s /\ Update(o, s) \in Frames
    BY <2>1, UpdateType DEF TypeOK
  <2>3. inbox' = inbox => f \in Unread
    BY DEF Unread
  <2>4. inbox' = Append(inbox, Update(o, s)) => f \in Unread \/ f = Update(o, s)
    BY <1>5, <2>2
  <2>5. f \in Unread \/ f = Update(o, s)
    BY <2>1, <2>3, <2>4
  <2>6. QED  BY <2>2, <2>5
<1>8. CASE SocketEnds
  <2>1. PICK n \in 0 .. Len(inbox) : inbox' = SubSeq(inbox, 1, n)
    BY <1>8 DEF SocketEnds
  <2>2. DOMAIN inbox' = 1 .. n /\ \A i \in 1 .. n : inbox'[i] = inbox[i]
    BY <2>1, CutType
  <2>3. PICK i \in 1 .. n : f = inbox'[i]
    BY <2>2 DEF Unread
  <2>4. i \in DOMAIN inbox
    BY <1>1, <2>1
  <2>5. QED  BY <2>2, <2>3, <2>4 DEF Unread
<1>9. ASSUME NEW o \in Ours, Submit(o) \/ PostReturns(o) PROVE inbox' = inbox
  BY <1>9 DEF Submit, PostReturns
<1>10. CASE Connect \/ ProviderLoads \/ ProviderFails \/ Open \/ Refused \/ Wake
            \/ SocketEndSeen \/ TellFills \/ GiveUpFills \/ TradesAnswered
  BY <1>2, <1>10 DEF Connect, ProviderLoads, ProviderFails, Open, Refused, Wake,
     SocketEndSeen, TellFills, GiveUpFills, TradesAnswered
<1>11. CASE Disconnect \/ HandlerRaises
  BY <1>3, <1>11 DEF Disconnect, HandlerRaises, DropSocket
<1>12. ASSUME NEW o \in Ours, TellEvent(o) \/ AskForTrades(o)
       PROVE  inbox # <<>> /\ inbox' = Tail(inbox)
  BY <1>12 DEF TellEvent, AskForTrades, Reading
<1>13. CASE Skip
  BY <1>4, <1>13 DEF Skip, Reading
<1>14. CASE UNCHANGED vars
  BY <1>2, <1>14 DEF vars
<1>15. QED
  BY <1>2, <1>4, <1>6, <1>7, <1>8, <1>9, <1>10, <1>11, <1>12, <1>13, <1>14
  DEF Next, Handle

(* The book moves on from where every unread frame has it.                 *)
LEMMA NextHistory == TypeOK /\ History /\ [Next]_vars => History'
<1> SUFFICES ASSUME TypeOK, History, [Next]_vars, NEW f \in Unread', f.kind = "order"
             PROVE  \/ book'[f.order] = f.status
                    \/ book'[f.order] \in Later[f.status]
  BY DEF History, Past
<1>1. CASE f \in Unread
  <2>1. f \in Frames
    <3>1. inbox \in Seq(Frames) /\ DOMAIN inbox = 1 .. Len(inbox)
      BY LenProperties DEF TypeOK
    <3>2. QED  BY <1>1, <3>1, ElementOfSeq DEF Unread
  <2>2. f.order \in Ours /\ f.status \in BookStates \ {"none"}
    BY <2>1, FrameKinds
  <2>3. book[f.order] = f.status \/ book[f.order] \in Later[f.status]
    BY <1>1 DEF History, Past
  <2>4. CASE \A o \in Ours : ~ BookMoves(o)
    <3>1. book' = book
      BY <2>4, OtherSteps DEF Submit, PostReturns, TellEvent, TellFills, venue
    <3>2. QED  BY <2>3, <3>1
  <2>5. ASSUME NEW o \in Ours, BookMoves(o)
        PROVE  \/ book'[f.order] = f.status
               \/ book'[f.order] \in Later[f.status]
    <3>1. PICK s \in MayBecome[book[o]] : book' = [book EXCEPT ![o] = s]
      BY <2>5, MoveEffect
    <3>2. CASE o # f.order
      BY <2>2, <2>3, <3>1, <3>2 DEF TypeOK
    <3>3. CASE o = f.order
      <4>1. book'[f.order] = s /\ book[f.order] \in BookStates
        BY <3>1, <3>3 DEF TypeOK
      <4>2. s \in Later[f.status]
        BY <2>2, <2>3, <3>1, <3>3, <4>1, LaterIsClosed
      <4>3. QED  BY <4>1, <4>2
    <3>4. QED  BY <3>2, <3>3
  <2>6. QED  BY <2>4, <2>5
<1>2. ASSUME NEW o \in Ours, f = Update(o, book'[o]), book'[o] \in BookStates \ {"none"}
      PROVE  book'[f.order] = f.status
  BY <1>2, UpdateType
<1>3. QED  BY <1>1, <1>2, NewFrames

-------------------------------------------------------------------------------
(* The submission's two steps.                                             *)
LEMMA SubmissionRefines ==
  ASSUME TypeOK, Facts, NEW o \in Ours, Submit(o) \/ PostReturns(o)
  PROVE  Life!Submit(o) \/ Life!Accept(o) \/ UNCHANGED <<fateBar, traded, state, fills>>
<1>1. UNCHANGED <<book, traded, fills>>
  BY SubmitEffect
<1>2. fateBar' = fateBar
  BY <1>1 DEF fateBar
<1>3. CASE Submit(o)
  <2>1. state[o] = "initialized"
    BY <1>3 DEF Submit, Facts, VenueInv
  <2>2. state' = [state EXCEPT ![o] = "submitted"]
    BY <1>3, <2>1 DEF Submit, After, Admits
  <2>3. QED  BY <1>1, <1>2, <2>1, <2>2 DEF Life!Submit, fateBar
<1>4. CASE PostReturns(o)
  <2>1. state' = [state EXCEPT ![o] = After(@, "accepted")] /\ book[o] # "none"
    BY <1>4 DEF PostReturns
  <2>2. CASE state[o] = "submitted"
    <3>1. state' = [state EXCEPT ![o] = "accepted"]
      BY <2>1, <2>2 DEF After, Admits
    <3>2. fateBar[o] # "none"
      BY <2>1 DEF fateBar, Fate, TypeOK, BookStates
    <3>3. QED  BY <1>1, <1>2, <2>2, <3>1, <3>2 DEF Life!Accept, fateBar
  <2>3. CASE state[o] # "submitted"
    <3>1. state' = state
      BY <2>1, <2>3 DEF After, Admits, TypeOK
    <3>2. QED  BY <1>1, <1>2, <3>1
  <2>4. QED  BY <2>2, <2>3
<1>5. QED  BY <1>3, <1>4

(* An ending that is told is the one in the book: nothing comes after it.  *)
LEMMA EndingsAreFinal ==
  ASSUME TypeOK, NEW o \in Ours, NEW s \in DOMAIN EventOf,
         book[o] = s \/ book[o] \in Later[s]
  PROVE  /\ fateBar[o] # "none"
         /\ s # "PENDING" => /\ fateBar[o] = EventOf[s]
                             /\ EventOf[s] \in Life!Endings
<1>1. s \in {"PENDING", "CANCELLED", "REJECTED", "EXPIRED"}
  BY DEF EventOf
<1>2. fateBar[o] = Fate[book[o]]
  BY DEF fateBar
<1>3. book[o] \in BookStates \ {"none"}
  BY <1>1 DEF Later, BookStates
<1>4. fateBar[o] # "none"
  BY <1>2, <1>3 DEF Fate, BookStates
<1>5. s # "PENDING" => book[o] = s
  BY <1>1 DEF Later
<1>6. s # "PENDING" => fateBar[o] = EventOf[s] /\ EventOf[s] \in Life!Endings
  BY <1>1, <1>2, <1>5 DEF Fate, EventOf, Life!Endings
<1>7. QED  BY <1>4, <1>6

(* A frame's event accepts the order or ends it as Dhan has, or is dropped. *)
LEMMA EventRefines ==
  ASSUME TypeOK, Facts, History, NEW o \in Ours, TellEvent(o)
  PROVE  Life!Accept(o) \/ Life!End(o) \/ UNCHANGED <<fateBar, traded, state, fills>>
<1> DEFINE s == Frame.status
<1>1. UNCHANGED <<book, traded, fills>> /\ fateBar' = fateBar
  BY TellEventEffect DEF fateBar
<1>2. CASE s \notin DOMAIN EventOf
  BY <1>1, <1>2 DEF TellEvent
<1>3. CASE s \in DOMAIN EventOf
  <2>1. /\ Frame \in Frames /\ inbox # <<>> /\ Frame = inbox[1]
        /\ 1 \in DOMAIN inbox /\ OursNamedBy(Frame) # {} /\ o \in OursNamedBy(Frame)
    BY ReadingType DEF TellEvent, Reading
  <2>2. Frame.kind = "order" /\ Frame.order = o
    BY <2>1, FrameKinds
  <2>3. Frame \in Unread
    BY <2>1 DEF Unread
  <2>4. book[o] = s \/ book[o] \in Later[s]
    BY <2>2, <2>3 DEF History, Past
  <2>5. state' = [state EXCEPT ![o] = After(@, EventOf[s])]
    BY <1>3 DEF TellEvent
  <2> HIDE DEF s
  <2>6. /\ fateBar[o] # "none"
        /\ s # "PENDING" => fateBar[o] = EventOf[s] /\ EventOf[s] \in Life!Endings
    BY <1>3, <2>4, EndingsAreFinal
  <2>7. CASE state[o] \notin Admits[EventOf[s]]
    <3>1. state' = state
      BY <2>5, <2>7 DEF After, TypeOK
    <3>2. QED  BY <1>1, <3>1
  <2>8. CASE state[o] \in Admits[EventOf[s]]
    <3>1. state' = [state EXCEPT ![o] = EventOf[s]]
      BY <2>5, <2>8 DEF After
    <3>2. CASE s = "PENDING"
      <4>1. EventOf[s] = "accepted" /\ state[o] = "submitted"
        BY <2>8, <3>2 DEF EventOf, Admits
      <4>2. QED  BY <1>1, <2>6, <3>1, <4>1 DEF Life!Accept, fateBar
    <3>3. CASE s # "PENDING"
      <4>1. state[o] \in {"submitted", "accepted", "partially_filled"}
        BY <1>3, <2>8, <3>3 DEF EventOf, Admits
      <4>2. QED  BY <1>1, <2>6, <3>1, <3>3, <4>1 DEF Life!End, fateBar
    <3>4. QED  BY <3>2, <3>3
  <2>9. QED  BY <2>7, <2>8
<1>4. QED  BY <1>2, <1>3

(* The trades that are told are trades of the order, or tell nothing new.  *)
LEMMA FillsRefine ==
  ASSUME TypeOK, Facts, TellFills
  PROVE  \/ \E o \in Ours : Life!Fill(o)
         \/ UNCHANGED <<fateBar, traded, state, fills>>
<1> DEFINE o == fetch.order
<1>1. /\ o \in Ours /\ fetch.rows \subseteq Trades(o) /\ UNCHANGED <<book, traded>>
      /\ fills[o] \subseteq Trades(o)
  BY TellFillsEffect DEF Facts, EngineInv
<1>2. fateBar' = fateBar /\ Life!Done(o) = Trades(o)
  BY <1>1 DEF fateBar, Life!Done, Trades
<1>3. /\ state' = [state EXCEPT ![o] = AfterFills(@, fills[o], fetch.rows, Size)]
      /\ fills' = [fills EXCEPT ![o] = FillsAfter(state[o], @, fetch.rows)]
  BY DEF TellFills
<1> HIDE DEF o
<1>4. CASE state[o] \notin Fillable \/ fetch.rows \subseteq fills[o]
  <2>1. /\ AfterFills(state[o], fills[o], fetch.rows, Size) = state[o]
        /\ FillsAfter(state[o], fills[o], fetch.rows) = fills[o]
    BY <1>4 DEF AfterFills, FillsAfter
  <2>2. state' = state /\ fills' = fills
    BY <1>3, <2>1 DEF TypeOK
  <2>3. QED  BY <1>1, <1>2, <2>2
<1>5. CASE state[o] \in Fillable /\ ~(fetch.rows \subseteq fills[o])
  <2> DEFINE S == fills[o] \cup fetch.rows
  <2>1. S \in SUBSET Life!Done(o) /\ fills[o] \subseteq S /\ S # fills[o]
    BY <1>1, <1>2, <1>5
  <2>2. /\ fills' = [fills EXCEPT ![o] = S]
        /\ state' = [state EXCEPT ![o] =
                      IF S = AllTrades(o) THEN "filled" ELSE "partially_filled"]
    <3>1. S \in SUBSET AllTrades(o)
      BY <1>1, TradesType DEF AllTrades
    <3>2. Cardinality(S) < Size <=> S # AllTrades(o)
      BY <1>1, <3>1, AllTradesCounted
    <3>3. QED  BY <1>3, <1>5, <3>2 DEF AfterFills, FillsAfter
  <2>3. state[o] \in {"submitted", "accepted", "partially_filled", "canceled"}
    BY <1>5 DEF Fillable
  <2>4. Life!Fill(o)
    BY <1>1, <1>2, <2>1, <2>2, <2>3 DEF Life!Fill, fateBar, AllTrades
  <2>5. QED  BY <1>1, <2>4
<1>6. QED  BY <1>4, <1>5

(* Dhan's book moves as an order can.                                      *)
LEMMA MoveRefines ==
  ASSUME TypeOK, Facts, NEW o \in Ours, BookMoves(o)
  PROVE  Life!Happen(o)
<1>1. PICK s \in MayBecome[book[o]] :
        /\ s \in BookStates \ {"none"}
        /\ book' = [book EXCEPT ![o] = s]
        /\ \E n \in TradedAt(o, s) : traded' = [traded EXCEPT ![o] = n]
        /\ UNCHANGED <<state, fills>>
  <2>1. PICK s \in MayBecome[book[o]] :
          /\ book' = [book EXCEPT ![o] = s]
          /\ \E n \in TradedAt(o, s) : traded' = [traded EXCEPT ![o] = n]
    BY DEF BookMoves
  <2>2. s \in BookStates \ {"none"}
    BY <2>1, MayBecomeType DEF TypeOK
  <2>3. QED  BY <2>1, <2>2 DEF BookMoves, engine
<1>2. PICK n \in TradedAt(o, s) : traded' = [traded EXCEPT ![o] = n]
  BY <1>1
<1>3. /\ Size \in Nat \ {0} /\ traded[o] \in 0 .. Size /\ book[o] \in BookStates
      /\ VenueInv(o) /\ post[o] # "unsent"
  BY OrdersAssumption DEF TypeOK, Facts, BookMoves
<1>4. n \in traded[o] .. Size
  BY <1>1, <1>2, <1>3, TradedAtType
<1>5. state[o] # "initialized"
  BY <1>3 DEF VenueInv
<1>6. book[o] \in {"none", "TRANSIT", "PENDING", "PART_TRADED"}
  BY <1>1, <1>3 DEF MayBecome, BookStates
<1>7. fateBar[o] \in {"none", "working"}
  BY <1>6 DEF fateBar, Fate
<1>8. fateBar' = [fateBar EXCEPT ![o] = Fate[s]]
  BY <1>1 DEF fateBar, TypeOK
<1>9. Fate[s] \in IF n = Size THEN {"filled"}
                  ELSE IF n = 0 THEN {"working"} \cup Life!Endings
                  ELSE {"working", "canceled", "expired"}
  <2>1. CASE s = "TRADED"
    BY <1>2, <2>1 DEF TradedAt, Fate
  <2>2. CASE s = "PART_TRADED"
    <3>1. n # 0 /\ n # Size
      BY <1>2, <1>3, <2>2 DEF TradedAt
    <3>2. QED  BY <2>2, <3>1 DEF Fate
  <2>3. CASE s \notin {"TRADED", "PART_TRADED"}
    <3>1. n = traded[o] /\ n # Size
      BY <1>2, <1>3, <1>6, <2>3 DEF TradedAt, VenueInv
    <3>2. s \in {"TRANSIT", "PENDING", "REJECTED"} => n = 0
      BY <1>1, <1>3, <1>6, <3>1 DEF VenueInv, MayBecome
    <3>3. s \in {"TRANSIT", "PENDING", "REJECTED", "CANCELLED", "EXPIRED"}
      BY <1>1, <2>3 DEF BookStates
    <3>4. QED  BY <3>1, <3>2, <3>3 DEF Fate, Life!Endings
  <2>4. QED  BY <2>1, <2>2, <2>3
<1>10. QED
  BY <1>1, <1>2, <1>4, <1>5, <1>7, <1>8, <1>9 DEF Life!Happen, fateBar

(* Every step of the stream is a step of an order's life, or a stutter.    *)
LEMMA StepRefines ==
  TypeOK /\ Facts /\ History /\ [Next]_vars
    => Life!Next \/ UNCHANGED <<fateBar, traded, state, fills>>
<1> SUFFICES ASSUME TypeOK, Facts, History, [Next]_vars
             PROVE  Life!Next \/ UNCHANGED <<fateBar, traded, state, fills>>
  OBVIOUS
<1>1. ASSUME NEW o \in Ours, Submit(o) \/ PostReturns(o) \/ TellEvent(o) \/ BookMoves(o)
      PROVE  Life!Next \/ UNCHANGED <<fateBar, traded, state, fills>>
  <2>1. \/ Life!Submit(o) \/ Life!Accept(o) \/ Life!End(o) \/ Life!Happen(o)
        \/ UNCHANGED <<fateBar, traded, state, fills>>
    BY <1>1, SubmissionRefines, EventRefines, MoveRefines
  <2>2. QED  BY <2>1 DEF Life!Next
<1>2. CASE TellFills
  BY <1>2, FillsRefine DEF Life!Next
<1>3. CASE UNCHANGED <<book, traded, post, state, fills>>
  BY <1>3 DEF fateBar
<1>4. QED  BY <1>1, <1>2, <1>3, OtherSteps

(* No order has a life to begin with.                                      *)
LEMMA InitRefines == Init => Life!Init /\ History
BY DEF Init, Life!Init, History, Unread, Fate

(* The stream implements OrderLife, for every order, missed or not: a      *)
(* verdict or a fill the engine hears is so at Dhan by then                *)
(* (execution.py:934-1018).                                                *)
THEOREM StreamKeepsTheLife == Spec => LifeKept
<1>1. TypeOK /\ Facts /\ History /\ [Next]_vars => [Life!Next]_Life!vars
  BY StepRefines DEF Life!vars, fateBar
<1>2. TypeOK /\ Facts /\ History /\ [Next]_vars => (TypeOK /\ Facts /\ History)'
  BY NextType, NextFacts, NextHistory
<1>3. Init => TypeOK /\ Facts /\ History
  BY InitType, InitFacts, InitRefines
<1>4. QED
  BY <1>1, <1>2, <1>3, InitRefines, PTL DEF Spec, LifeKept, Life!Spec
=============================================================================
