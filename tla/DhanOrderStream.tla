---------------------------- MODULE DhanOrderStream ----------------------------
(***************************************************************************)
(* The order-update stream of DhanExecutionClient: the task that holds the *)
(* socket (_run_order_update_stream), what a frame does to the engine      *)
(* (_handle_order_update, _emit_fills_for), and its life under _connect    *)
(* and _disconnect.                                                        *)
(*                                                                         *)
(* A frame is read, and its handler awaited to the end, before the next    *)
(* one; a fill frame is only a signal to GET the order's trades, so the    *)
(* frames behind it wait for that answer.  Meanwhile the coroutine that    *)
(* placed the order may return and emit OrderAccepted.                     *)
(*                                                                         *)
(* External: Dhan's book and its socket, the network.                      *)
(***************************************************************************)
EXTENDS EngineOrder, Sequences

CONSTANTS
  Ours,            \* the orders of this engine
  Correlation,     \* Correlation[o]: the correlationId Dhan has for o
  Size,            \* trades that fill an order
  Noise,           \* frames that are no update of an order of ours
  Closings,        \* how a socket may end: "clean", "error"
  MaxInbox         \* bound: frames unread while Dhan has more to say

ASSUME OrdersAssumption ==
  /\ Correlation \in [Ours -> STRING]
  /\ \A o, p \in Ours : Correlation[o] = Correlation[p] => o = p
  /\ Size \in Nat \ {0}

ASSUME FaultsAssumption ==
  /\ Noise \subseteq {"heartbeat", "notJson", "unmapped", "stranger", "keyless"}
  /\ Closings \subseteq {"clean", "error"}

VARIABLES
  book,        \* Dhan's status of each order; "none" before it is placed
  traded,      \* the number of its trades
  post,        \* the coroutine that places each order
  http,        \* _http is not None
  starting,    \* _connect awaits the instrument provider
  task,        \* the stream's coroutine: where it is suspended
  backoff,     \* its local of that name
  connected,   \* order_updates_connected
  line,        \* the socket, as the network has it
  inbox,       \* frames received and not yet read
  fetch,       \* the GET of the handler under way
  state,       \* the engine's state of each of our orders
  fills,       \* the trade ids it has
  missed       \* history: our orders of which a frame was never heard, or never used

venue  == <<book, traded>>
client == <<http, starting>>
stream == <<task, backoff, connected>>
socket == <<line, inbox>>
engine == <<post, state, fills>>
vars   == <<book, traded, post, http, starting, task, backoff, connected,
            line, inbox, fetch, state, fills, missed>>

BookStates == {"none", "TRANSIT", "PENDING", "PART_TRADED",
               "TRADED", "CANCELLED", "REJECTED", "EXPIRED"}

Update(o, status) == [kind |-> "order", order |-> o, status |-> status,
                      correlation |-> Correlation[o]]
Frames == {Update(o, s) : o \in Ours, s \in BookStates \ {"none"}}
            \cup [kind : Noise]

\* The trades Dhan lists for order o; a trade id is the exchange's.
Trades(o) == {o} \X (1 .. traded[o])
TradeIds  == Ours \X (1 .. Size)

NoFetch == [answer |-> "none"]
Fetches == [order : Ours, of : Ours, rows : SUBSET TradeIds,
            answer : {"waiting", "failed", "unbuildable", "trades"}]

TypeOK ==
  /\ book \in [Ours -> BookStates]
  /\ traded \in [Ours -> 0 .. Size]
  /\ post \in [Ours -> {"unsent", "posting", "returned"}]
  /\ http \in BOOLEAN
  /\ starting \in BOOLEAN
  /\ task \in {"none", "connecting", "reading", "fetching", "sleeping"}
  /\ backoff \in 1 .. 30
  /\ connected \in BOOLEAN
  /\ line \in {"none", "open"} \cup Closings
  /\ inbox \in Seq(Frames)
  /\ fetch \in Fetches \cup {NoFetch}
  /\ state \in [Ours -> OrderStates]
  /\ fills \in [Ours -> SUBSET TradeIds]
  /\ missed \subseteq Ours

Init ==
  /\ book = [o \in Ours |-> "none"]
  /\ traded = [o \in Ours |-> 0]
  /\ post = [o \in Ours |-> "unsent"]
  /\ http = FALSE
  /\ starting = FALSE
  /\ task = "none"
  /\ backoff = 1
  /\ connected = FALSE
  /\ line = "none"
  /\ inbox = <<>>
  /\ fetch = NoFetch
  /\ state = [o \in Ours |-> "initialized"]
  /\ fills = [o \in Ours |-> {}]
  /\ missed = {}

-------------------------------------------------------------------------------
\* The submission, of which only what meets the stream is kept (the rest is
\* DhanSubmission): SUBMITTED before the await, ACCEPTED when the answer names
\* an order -- which it can do long after Dhan has acted.
Submit(o) ==
  /\ post[o] = "unsent" /\ http
  /\ post' = [post EXCEPT ![o] = "posting"]
  /\ state' = [state EXCEPT ![o] = After(@, "submitted")]
  /\ UNCHANGED <<venue, client, stream, socket, fetch, fills, missed>>

PostReturns(o) ==
  /\ post[o] = "posting" /\ book[o] # "none"
  /\ post' = [post EXCEPT ![o] = "returned"]
  /\ state' = [state EXCEPT ![o] = After(@, "accepted")]
  /\ UNCHANGED <<venue, client, stream, socket, fetch, fills, missed>>

-------------------------------------------------------------------------------
\* _connect makes the client and awaits the instrument provider; only then is
\* the task created -- whatever _disconnect has done in between.  Bound: no
\* second stream beside one that a disconnection in between has left behind.
Connect ==
  /\ ~http /\ ~starting /\ task = "none"
  /\ http' = TRUE
  /\ starting' = TRUE
  /\ UNCHANGED <<venue, engine, stream, socket, fetch, missed>>

ProviderLoads ==
  /\ starting
  /\ starting' = FALSE
  /\ task' = "connecting"
  /\ backoff' = 1
  /\ UNCHANGED <<venue, engine, http, connected, socket, fetch, missed>>

ProviderFails ==
  /\ starting
  /\ starting' = FALSE
  /\ UNCHANGED <<venue, engine, http, stream, socket, fetch, missed>>

\* What goes down with the socket: the frames unread, and the update in hand.
Subjects(frames) ==
  {o \in Ours : \E i \in DOMAIN frames :
                  frames[i].kind = "order" /\ frames[i].order = o}
InHand == IF fetch = NoFetch THEN {} ELSE {fetch.order}

DropSocket ==
  /\ line' = "none"
  /\ inbox' = <<>>
  /\ fetch' = NoFetch
  /\ missed' = missed \cup Subjects(inbox) \cup InHand

\* _disconnect: the task is cancelled, wherever it is, and the client closed.
Disconnect ==
  /\ http
  /\ http' = FALSE
  /\ task' = "none"
  /\ connected' = (connected /\ task = "none")
  /\ DropSocket
  /\ UNCHANGED <<venue, engine, starting, backoff>>

-------------------------------------------------------------------------------
\* _run_order_update_stream.  The socket opens and the login is sent: the flag
\* is set and the pause reset before Dhan has said anything.
Open ==
  /\ task = "connecting"
  /\ task' = "reading"
  /\ connected' = TRUE
  /\ backoff' = 1
  /\ line' = "open"
  /\ UNCHANGED <<venue, engine, client, inbox, fetch, missed>>

\* Mutant: the task does not survive the exception.
StreamLostForGood == task' = "none" /\ connected' = FALSE

\* `except Exception`: _on_stream_lost, and then the pause.
StreamLost == task' = "sleeping" /\ connected' = FALSE

Refused ==
  /\ task = "connecting"
  /\ StreamLost
  /\ UNCHANGED <<venue, engine, client, backoff, socket, fetch, missed>>

\* Mutant: the pause grows without end.
WakeUncapped ==
  /\ task = "sleeping"
  /\ task' = "connecting"
  /\ backoff' = 2 * backoff
  /\ UNCHANGED <<venue, engine, client, connected, socket, fetch, missed>>

Wake ==
  /\ task = "sleeping"
  /\ task' = "connecting"
  /\ backoff' = IF 2 * backoff < 30 THEN 2 * backoff ELSE 30
  /\ UNCHANGED <<venue, engine, client, connected, socket, fetch, missed>>

\* Once the frames received have been read, an error raises out of `async for`;
\* a clean close ends the loop, and `while True` goes round without
\* _on_stream_lost and without the pause.
SocketEndSeen ==
  /\ task = "reading" /\ inbox = <<>> /\ line \in {"clean", "error"}
  /\ IF line = "error" THEN StreamLost
     ELSE task' = "connecting" /\ UNCHANGED connected
  /\ line' = "none"
  /\ UNCHANGED <<venue, engine, client, backoff, inbox, fetch, missed>>

-------------------------------------------------------------------------------
\* _handle_order_update, on the frame at the head of the inbox.
Reading == task = "reading" /\ inbox # <<>>
Frame   == Head(inbox)

\* Mutant: the correlationId is taken for a client order id.
OursByCast(frame) ==
  IF frame.kind = "order" THEN {o \in Ours : o = frame.correlation} ELSE {}

\* client_order_id_for: one of ours, by recomputation, or nobody's.
OursNamedBy(frame) ==
  IF frame.kind = "order" THEN {o \in Ours : Correlation[o] = frame.correlation}
  ELSE {}

FillSignals == {"PART_TRADED", "TRADED"}
EventOf == [PENDING |-> "accepted", CANCELLED |-> "canceled",
            REJECTED |-> "rejected", EXPIRED |-> "expired"]

\* Text that is not JSON, heartbeats, statuses without a mapping, and orders of
\* the same account that were placed elsewhere: their correlationId is not ours.
Skip ==
  /\ Reading /\ Frame.kind # "keyless" /\ OursNamedBy(Frame) = {}
  /\ inbox' = Tail(inbox)
  /\ UNCHANGED <<venue, engine, client, stream, line, fetch, missed>>

\* A TRANSIT update has no event.
TellEvent(o) ==
  /\ Reading /\ o \in OursNamedBy(Frame) /\ Frame.status \notin FillSignals
  /\ state' = IF Frame.status \in DOMAIN EventOf
              THEN [state EXCEPT ![o] = After(@, EventOf[Frame.status])] ELSE state
  /\ inbox' = Tail(inbox)
  /\ UNCHANGED <<venue, client, stream, post, line, fetch, fills, missed>>

\* _emit_fills_for up to its await: the trades of the order the FRAME names.
\* Its early return, of an order whose instrument is not in the cache, is left
\* out: Submit would have denied such an order (_refusal_for), so it meets only
\* orders of an earlier process, which Ours does not have.
AskForTrades(o) ==
  /\ Reading /\ o \in OursNamedBy(Frame) /\ Frame.status \in FillSignals
  /\ http
  /\ task' = "fetching"
  /\ fetch' = [order |-> o, of |-> Frame.order, answer |-> "waiting", rows |-> {}]
  /\ inbox' = Tail(inbox)
  /\ UNCHANGED <<venue, engine, client, backoff, connected, line, missed>>

\* Mutant: the whole trade book is read for one order's.
TellFillsOfTheDay ==
  /\ task = "fetching" /\ fetch.answer = "trades"
  /\ LET o == fetch.order  rows == UNION {Trades(p) : p \in Ours} IN
     /\ state' = [state EXCEPT ![o] = AfterFills(@, fills[o], rows, Size)]
     /\ fills' = [fills EXCEPT ![o] = FillsAfter(state[o], @, rows)]
  /\ task' = "reading"
  /\ fetch' = NoFetch
  /\ UNCHANGED <<venue, post, client, backoff, connected, socket, missed>>

\* Every row becomes a fill, each time: the engine knows those it has by id.
TellFills ==
  /\ task = "fetching" /\ fetch.answer = "trades"
  /\ LET o == fetch.order IN
     /\ state' = [state EXCEPT ![o] = AfterFills(@, fills[o], fetch.rows, Size)]
     /\ fills' = [fills EXCEPT ![o] = FillsAfter(state[o], @, fetch.rows)]
  /\ task' = "reading"
  /\ fetch' = NoFetch
  /\ UNCHANGED <<venue, post, client, backoff, connected, socket, missed>>

\* `except DhanError`: no fill is invented.
GiveUpFills ==
  /\ task = "fetching" /\ fetch.answer = "failed"
  /\ task' = "reading"
  /\ fetch' = NoFetch
  /\ missed' = missed \cup InHand
  /\ UNCHANGED <<venue, engine, client, backoff, connected, socket>>

\* What leaves the handler, and with it the loop and the socket: the KeyError of
\* data["OrderNo"], a GET without a client, a row fill_report cannot build.
HandlerRaises ==
  /\ \/ Reading /\ Frame.kind = "keyless"
     \/ /\ Reading /\ OursNamedBy(Frame) # {} /\ Frame.status \in FillSignals
        /\ ~http
     \/ task = "fetching" /\ fetch.answer = "unbuildable"
  /\ StreamLost
  /\ DropSocket
  /\ UNCHANGED <<venue, engine, client, backoff>>

Handle == \/ Skip
          \/ \E o \in Ours : TellEvent(o) \/ AskForTrades(o)
          \/ TellFills
          \/ GiveUpFills
          \/ HandlerRaises

-------------------------------------------------------------------------------
\* External: Dhan's book moves, and the stream says so if it is up.
MayBecome ==
  [none        |-> {"TRANSIT"},
   TRANSIT     |-> {"PENDING", "REJECTED"},
   PENDING     |-> {"PART_TRADED", "TRADED", "CANCELLED", "REJECTED", "EXPIRED"},
   PART_TRADED |-> {"PART_TRADED", "TRADED", "CANCELLED", "EXPIRED"},
   TRADED      |-> {}, CANCELLED |-> {}, REJECTED |-> {}, EXPIRED |-> {}]

TradedAt(o, status) == IF status = "PART_TRADED" THEN traded[o] + 1 .. Size - 1
                       ELSE IF status = "TRADED" THEN {Size}
                       ELSE {traded[o]}

BookMoves(o) ==
  /\ post[o] # "unsent"
  /\ Len(inbox) < MaxInbox
  /\ \E status \in MayBecome[book[o]] :
       /\ book' = [book EXCEPT ![o] = status]
       /\ \E n \in TradedAt(o, status) : traded' = [traded EXCEPT ![o] = n]
       /\ IF line = "open"
          THEN inbox' = Append(inbox, Update(o, status)) /\ UNCHANGED missed
          ELSE missed' = missed \cup (Ours \cap {o}) /\ UNCHANGED inbox
  /\ UNCHANGED <<engine, client, stream, line, fetch>>

SendNoise ==
  /\ line = "open" /\ Len(inbox) < MaxInbox
  /\ \E n \in Noise : inbox' = Append(inbox, [kind |-> n])
  /\ UNCHANGED <<venue, engine, client, stream, line, fetch, missed>>

\* The socket ends, and the last frames may be lost with it.
SocketEnds ==
  /\ line = "open"
  /\ line' \in Closings
  /\ \E n \in 0 .. Len(inbox) :
       /\ inbox' = SubSeq(inbox, 1, n)
       /\ missed' = missed \cup Subjects(SubSeq(inbox, n + 1, Len(inbox)))
  /\ UNCHANGED <<venue, engine, client, stream, fetch>>

\* GET /v2/trades/{id}: Dhan reads its book at some moment of the call.
TradesAnswered ==
  /\ fetch.answer = "waiting"
  /\ fetch' \in {[fetch EXCEPT !.answer = "failed"],
                 [fetch EXCEPT !.answer = "unbuildable"],
                 [fetch EXCEPT !.answer = "trades", !.rows = Trades(fetch.of)]}
  /\ UNCHANGED <<venue, engine, client, stream, socket, missed>>

Next == \/ \E o \in Ours : Submit(o) \/ PostReturns(o)
        \/ Connect \/ ProviderLoads \/ ProviderFails \/ Disconnect
        \/ Open \/ Refused \/ Wake \/ SocketEndSeen
        \/ Handle
        \/ \E o \in Ours : BookMoves(o)
        \/ SendNoise \/ SocketEnds \/ TradesAnswered

Spec == Init /\ [][Next]_vars

\* The event loop runs what is ready; httpx bounds a GET; a pause ends; and
\* Dhan, asked again and again, some day accepts a connection.
FairSpec ==
  /\ Spec
  /\ WF_vars(Handle) /\ WF_vars(SocketEndSeen) /\ WF_vars(Wake)
  /\ WF_vars(TradesAnswered)
  /\ SF_vars(Open)

-------------------------------------------------------------------------------
\* When the reader has caught up, the engine agrees with Dhan on every order of
\* which no frame was missed: the status, and every trade -- whatever the
\* order in which the POST's answer, the frames and the trades were read.
Agreed ==
  [none        |-> {"initialized", "submitted"},
   TRANSIT     |-> {"submitted", "accepted"},
   PENDING     |-> {"accepted"},
   PART_TRADED |-> {"partially_filled"},
   TRADED      |-> {"filled"},
   CANCELLED   |-> {"canceled"},
   REJECTED    |-> {"rejected"},
   EXPIRED     |-> {"expired"}]

CaughtUp ==
  task = "reading" /\ inbox = <<>> =>
    \A o \in Ours \ missed : state[o] \in Agreed[book[o]] /\ fills[o] = Trades(o)

\* A fill the engine has is a trade of that very order: none is invented from a
\* frame, counted twice, or taken from a stranger or another order
\* (execution.py:928-932).
FillsAreTrades == \A o \in Ours : fills[o] \subseteq Trades(o)

\* How an order stands at Dhan, in the words of OrderLife.
Fate == [none |-> "none", TRANSIT |-> "working", PENDING |-> "working",
         PART_TRADED |-> "working", TRADED |-> "filled", CANCELLED |-> "canceled",
         REJECTED |-> "rejected", EXPIRED |-> "expired"]

Life == INSTANCE OrderLife WITH
  Orders <- Ours,
  truth  <- [o \in Ours |-> Fate[book[o]]],
  done   <- traded,
  told   <- state

\* Of no order, missed or not, is the engine told what is not so at Dhan: an
\* ending, or a fill, that a late, lost, repeated or overtaken frame, a failed
\* look-up or a reconnection made up (execution.py:934-1018).
LifeKept == Life!Spec

\* "The task must survive anything" (execution.py:1062): whatever a frame, the
\* network or Dhan did to it, the stream comes back, until it is disconnected.
StreamComesBack ==
  task # "none" ~> task = "reading" \/ ~http

\* "When the stream drops, the client ... marks itself disconnected"
\* (docs/execution.md:245).
DropLowersTheFlag == connected => line # "none"

\* "One bad frame must not end the stream" (execution.py:937): the socket goes
\* only when the other side ended it or the client disconnects.
OneBadFrameEndsNothing ==
  [][line = "open" /\ http' => line' # "none"]_vars
===============================================================================
