# Verification of the Dhan adapter of nautilus-trader-india

TLA+ models of the parts of this package that place, change, watch and report
orders at Dhan, and of what they read instruments, prices and costs from; the TLC
configurations that check them; and TLAPS proofs of every safety and action property
those runs check. Paths such as `execution.py:259` are under
`src/nautilus_india/dhan/` unless they say otherwise.

To repeat a check: `tlc -config DhanSubmission.cfg MCDhanSubmission.tla`; to
repeat a proof: `tlapm DhanSubmission_proofs.tla`. `PROJECT.json` lists the runs
with their properties, the mutants that break each, the lines each definition
models, the hazards and the findings.

## 1. The system

The package is one asyncio process inside a NautilusTrader node. The engine
calls coroutines of the execution client; each suspends at the await of one HTTP
call; nothing locks anything. Concurrency is therefore the interleaving of
coroutines at their awaits, with each other, with the order-update task, with
Dhan's book, and with requests that outlive the call that sent them.

| Component (source) | State it keeps | Operations | What must hold |
| --- | --- | --- | --- |
| Errors and HTTP client (`errors.py`, `http.py`) | none | `classify`, `get`, `_write` | a refusal is read exactly when the body states one; a write without a readable answer is ambiguous, never a refusal |
| Order submission (`execution.py` `_submit_order`, `_submit_order_list`, `submit_forever_order`) | `_http`, `is_degraded_by_ip`, the engine's orders | refuse, announce, POST, four endings | the engine is never told what the exchange can contradict; a denied order was never sent |
| Cancel and modify (`_cancel_order`, `_cancel_all_orders`, `_modify_order`) | the engine's record of terms | DELETE, PUT, sweep | no live order is reported canceled; a rejection is final; the engine knows the terms in force |
| Order-update stream (`_run_order_update_stream`, `_handle_order_update`, `_emit_fills_for`, `order_updates.py`) | `order_updates_connected`, the task, `backoff` | connect, read, fetch trades, lose, reconnect | fills are trades and are counted once; what was not missed ends up agreed; the task survives |
| Reconciliation (`generate_*`, `_reports_from`, `orders.py`) | none | three GETs; one look-up | complete or raised; the books disagree in one direction only; reports name the right order |
| Super and forever orders (`super_orders.py`, `forever_orders.py`) | none | submit, cancel and modify a leg, reports | one answer covers all legs; a leg's status is not its parent's |
| Payloads and quantities (`orders.py`, `constants.py`) | none | payload builders, `correlation_id`, `units`/`lots` | what cannot be expressed is refused, ids map back |
| Instrument provider (`providers.py`, `parsing.py`) | instruments and two id maps, never cleared | load, look up both ways | an order comes back under its own instrument; a load that returned offers what the file lists, and nothing that has expired |
| Market-data decoding (`binary.py`) | the read offset of one frame, four counters | decode | no packet is invented, none lost silently |
| Data client, packets, credentials, factories, config (`data.py`, `ws.py`, `auth.py`, `factories.py`, `config.py`) | none | pure builders and checks | both live switches are needed to send |
| Costs, margin, calendar, lots, symbology (`../core/*.py`) | none | pure functions | the fills of an order pay one flat brokerage; a strike that cannot be written has no symbol |

How they interact. The engine calls the client and the client answers with
events; the client asks the provider for ids and instruments and the HTTP client
for answers, which `classify` turns into a payload or one of five exception
classes. The stream's task and the submitting coroutine tell the engine about
the same order in either order. The engine reconciles from the reports, which
are read while the exchange goes on trading.

Hard behaviours: an answer that is lost while the request is not; a request that
arrives after its caller stopped waiting; the IP refusal read by one submission
while others wait; a stream frame overtaking the POST's answer; trades that
happen between a fill frame and the GET it causes, or between the three reads of
a mass status; a socket that ends without an error; PUTs that overlap; a restart
between a POST and its answer; an order known under an id it was not sent under;
a security id that the exchange gives to another contract while the provider still
has the old one; a load that raises half-way; a frame cut anywhere.
The places where these bite are the `hazards` of `PROJECT.json`.

## 2. Modules

| Module | Models | Uses |
| --- | --- | --- |
| `DhanErrors` | `errors.py` and the reading half of `http.py`: `Answer(isWrite, response)` | |
| `OrderOutcome` | the abstract promise: what may be said of a submission, and when | |
| `DhanSubmission` | the three submitting coroutines, with Dhan, the network and a restart | `DhanErrors`, refines `OrderOutcome` |
| `OrderLife` | the abstract promise: what the engine may hear of an order, and when | |
| `EngineOrder` | external: which event the engine admits in which state | |
| `DhanOrderStream` | the stream's task, its handler, `_connect`/`_disconnect`, Dhan's book and socket | `EngineOrder`, refines `OrderLife` |
| `DhanCancelModify` | cancel, cancel-all and modify | `DhanErrors` |
| `DhanReports` | mass status, single-order look-up, attribution of rows | |
| `DhanComposites` | super and forever orders at Dhan: cancel and modify a leg, both books' reports | `DhanErrors` |
| `DhanPayloads` | what the payload builders refuse, ordinary, super and forever; constant-level | |
| `DhanBrackets` | the orders inside a bracket, and when its exits fire | `DhanSubmission`, `DhanPayloads` |
| `DhanScrip` | one row of the scrip master: parsed, named and built into an instrument; constant-level | |
| `DhanProvider` | `load_all_async` and the maps it fills, against a master that changes and a clock | `DhanScrip` |
| `PartialSums` | where a packet begins, what is filled or charged so far: sums of the first n terms | |
| `DhanDecoder` | the packet loop of both binary sockets; constant-level | `PartialSums` |
| `IndianCosts` | the cost of a fill and the commissions of an order; constant-level | `PartialSums` |
| `DhanReaders` | one system of the provider and of the three readers that keep no state, and the properties of the readers | `DhanErrors`, `DhanDecoder`, `IndianCosts`, `DhanProvider` |
| `MC...` | the constants of the runs | the module they name; `MCDhanSubmission`: `DhanBrackets`; `MCDhanReaders` also `MCDhanProvider` |
| `..._proofs` | the theorems about the module they name; `DhanSubmission_proofs` also those about `DhanBrackets` | that module |
| `Recursion_proofs` | induction over the naturals, and what it gives of `PartialSums` | `PartialSums` |

Definitions whose comment begins "Mutant" are plausible bugs of the definition
they precede; nothing in a specification uses them.

### DhanErrors
A JSON body is tagged object, array or scalar. A dict is a function whose DOMAIN
is the set of its keys; of a text only what the code tells apart is kept (empty,
an IP phrase, a rate-limit code, any other). `FailureInObject`,
`FailureInElement` and `FailureInArray` are the three `_failure_in*` helpers,
`Raise` is `_raise` with its order of tests, `Answer` adds what `_write` and
`get` do with a transport error or a body that is not JSON.

### DhanSubmission
`Deny`, `Submit` and the four `Return...` actions are a coroutine cut at its only
await. `Refused` collects the early returns before it, the degrade flag among them; `Submit` emits
OrderSubmitted for every leg and puts one request on the wire. `Response` is how
the await can end: by httpx's error at any moment, or by the reply that has
arrived. `wire`, `venue` and `reply` separate what was sent, what Dhan did and
what came back, so a timed-out request may still be placed. `Restart` kills
every suspended coroutine and leaves the request alone: nothing is announced or sent
again, which `TypeOK` says as at most two events of an order over all processes.
`Armed` is `config.submission_refusal`.

### OrderOutcome
Two functions: what can be true of an order at the exchange, and what the engine
was told. An order is announced before its fate is known, its fate settles once,
and a verdict is given only when it has. The orders that one request places (the
sets in `Together`) are announced, settled and judged in one step: a bracket is
never half told. `DhanSubmission` implements it under
`truth <- Truth(CommandOf(o))`, `told <- ` the last event.

### OrderLife
An order at Dhan (`truth`, and how many trades are `done`) and at the engine (`told`,
`fills`), with no socket between them. The engine may hear of anything late or never;
it may not hear of an ending that is not in the book or of a fill that is no trade,
and an order that has ended does not come back. `CaughtUp` speaks of the orders the
reader has heard all about; this speaks of every order, robbed of its frames or not.

### DhanOrderStream and EngineOrder
It implements `OrderLife` under `truth <- Fate[book[o]]`, `done <- traded`,
`told <- state`.
`task` says where the coroutine is suspended; `line` and `inbox` are the socket
and the frames received and unread. A handler runs to its end before the next
frame, except at its GET (`fetch`), during which everything else may move. The
GET reads Dhan's book at some moment of the call. `missed` is a history variable:
the orders of which a frame was lost with a socket or given up. `Connect` and
`ProviderLoads` are `_connect` before and after its await, with `_disconnect`
possible between them. `Ours` are the orders this process submitted: of those the
cache has the instrument, or `_refusal_for` had denied them.

### DhanCancelModify
A command is idle, waiting about one order (`at`) or ended; `todo` is what a
sweep has left. `known`, `status` and `terms` are the engine's record, `book` and
`inForce` Dhan's. `ToSend` fills in from the engine's record the terms a modify
does not name; `Updated` is what OrderUpdated makes of that record. `overlapped`
and `unsure` are history variables: orders with two PUTs out together, and
orders with a PUT that ended without an answer. `applied` is the history of the
requests Dhan acted upon. `Garbled` is what can stand in for Dhan's answer, chosen
by `GatewayFaults`: a text, which is ambiguous, or a JSON scalar, which is read as a
refusal (finding 1). The same constant is in `DhanComposites`.

### DhanReports
`mass` steps through `ReadingOrder`, one GET at a time, while `BookMoves` trades.
`before` is the history of the books when the read began. `Report` attributes a
row by recomputing the correlationId; `Unlisted` instruments are skipped as
`_reports_from` skips them. `LookUp` chooses the id it asks under when it starts
and `LookUpReturns` reads the book when it ends.

### DhanComposites
A strategy awaits these calls itself: `told` is what it learns, and no event
follows. `requests` and `replies` are the wire in its two directions; `leg` and
`resting` are Dhan's; `applied` and `unsure` are histories of the calls Dhan acted
upon and of those that ended without an answer. `ModifyPayload`
is the body per leg, `CancelPath` the legs a DELETE takes along, `Verdict` what
`except Ambiguous` makes of an answer. `reports` and `rows` are the last book
read, as reports and as Dhan gave it; reading it is one action, since the reports
are a function of that one snapshot. A row may come without its exits or without
their statuses, which are then the order's (`LegStatus`); a status without a mapping
makes either book raise. What a modify makes of the terms at Dhan is not kept: only
whether the request is refused for a term that is fixed.

### DhanPayloads
`OrderSendable`, `SuperSendable` and `ForeverSendable` collect the refusals of the
three `place_payload` functions, in one conjunct each: the words Dhan has for a
type, a product and a validity, the trigger, the segment, the window of an
after-market order, the second leg of an OCO, the exits of a bracket.
`MCDhanSubmission` gives its commands terms and computes `Buildable` from them, so
a bracket whose exits touch, or an OCO whose second leg lacks a trigger, is
refused by the code's rules and not by fiat. `DhanBrackets` adds what the rules are
for: `Placed` gives each bracket its orders, `BracketsAssumption` says that a
buildable one passed `SuperSendable`, and `TargetFires` and `StopFires` say at which
prices an exit would trade.

### DhanScrip and DhanProvider
`ParseRow`, `ToSymbol` and `Build` take one row of the master to an instrument;
each returns a singleton, or `{}` where the code returns None (the row is skipped)
or raises (the load ends). A strike counts half paise and a tick ten-thousandths,
so that a strike finer than a paisa and a tick finer than a paisa exist. A load is
`LoadAll` up to its one await, `Serve` or `DownloadFails`, and `LoadReturns`, in
which `LoadFile` takes `LoadRow` over the file in one action because the loop never
awaits. Rows are
put over what earlier loads left: the maps only grow. `slot` is the clock, with three
slots to an Indian day: before 05:30, while the date in UTC is still yesterday's; until
the close at 15:30, at which a contract of that day expires; and after it. `OrderAddress` and `InstrumentFor` are
what `orders.py` and `execution.py` make of the maps.

### DhanDecoder
A frame is the packets Dhan wrote, the bytes of it that arrived, and what a header
would read like where none was written. `Frame` is the loop as a recursive
function of the offset, for both sockets: they differ in the length of a header and
in `PACKET_SIZE`. `Turn` is one turn of it and `Stops` the two ways it breaks off.
`Stride` is the rule that a known packet is as long as its code
says, whatever its header says, and only an unknown one is skipped by its header.

### IndianCosts
Money is in millionths of a rupee and rates are whole numbers, so nothing is
rounded. `LegCost` is `CostModel.leg_cost` part by part, `Commission` what
`get_commission` gives back on the later fills of an order, `RatesOn` the dated
table, `Charged` the sum over an order, or `{}` where `UnknownCostRatesError` is
raised.

## 3. What the runs check

| Run | Instance | Shows | States |
| --- | --- | --- | --- |
| `readers` | responses: every dict over the eight keys the code reads, arrays of up to 2 elements, text, no answer, read and write; frames of up to 3 packets of either socket, whole or cut; orders of up to 3 fills over two periods and a gap; two loads of any file of up to 2 of 9 hard rows of one underlying, over three days | a response means what it says; the packets read are those that were written; slices of an order pay the flat brokerage once; an order comes back under its own instrument; a load offers what the file lists | 192 k |
| `provider_expired` | one load of one row, over three days | **violated**: a load offers a contract that has expired | |
| `submission` | an order, a short bracket, a list that is no bracket, a long bracket whose exits touch, an OCO without a trigger; 2 processes; text and id-less answers | verdicts are never contradicted, histories are legal, denied means never sent, exits on the wire are apart, no restart sends again, every await ends, `OrderOutcome` is implemented | 75 k |
| `submission_scalar` | as above, with a JSON scalar as an answer | **violated**: rejected, and working | |
| `stream` | two orders (one under a hashed id), 2 trades each, a stranger's frame and an unreadable one, both ways of closing, 1 unread frame | `OrderLife` is implemented, agreement once caught up, the stream comes back | 524 k |
| `stream_flag` | one order | **violated**: the flag stays up after a clean close | |
| `stream_bad_frame` | one order | **violated**: one frame ends the socket | |
| `cancel_modify` | two orders, one with a trigger; 2 of 4 commands: a cancel, a sweep, two modifies naming different terms; text for an answer | canceled is dead, a rejection is final, the settled terms agree, a sweep reaches every order it set out to cancel | 52 k |
| `modify_terms` | a modify of the trigger, one of the price | **violated**: an unnamed term changes | |
| `reports` | two orders of ours and one of the account, two instruments, one of them unlisted; any read can fail | a delivered status is complete and explains itself; reports are attributed; a look-up by the very id finds the order | 764 k |
| `composites` | one super order, two forever orders (one unlisted); 2 of 7 calls: cancel all, the target, a leg that is none, a forever order; move all, the target, the stop; text for an answer, rows without exits or statuses | a call's ending is true, legs end as asked, exits move after the fill, every leg is reported or the call raises | 349 k |
| `lookup_long` | one order under a hashed id | **violated**: the look-up never finds it | |

Why the bounds are enough. The coroutines are symmetric in their orders and each
handles one order at a time, so an interaction needs two of them: two
submissions (one reads the refusal the other has not met), a cancel and a sweep
on one order, two modifies. A third adds no new meeting. Two trades fill an
order, so a partial fill exists; in `reports` one trade does, since the gap there
is between two books and not within an order, and `Size = 2` is what
`lookup_long` uses. One unread frame (`MaxInbox = 1`) beside the one being
handled is enough for a frame to queue behind a GET and for a queue to be lost.
Two processes are one restart, which can fall at every await; a command has one
life, so a second restart meets nothing new. `DhanErrors` reads no array element
after the first failure, so two elements give both orders. In `composites`
every property relates one call to the fills or to one other call, so two calls
(`MaxCalls = 2`) of any kinds meet in every way, as two commands (`MaxCommands = 2`)
do in `cancel_modify`, where a sweep and a cancel or a modify are on one order; the unmapped status `CLOSED` and
the unlisted order are the two ways a row can fail to become a report.

In `readers`, two rows (`MaxRows`) are enough for one to follow another of its
name, of its id or of a symbol that cannot be written, and two loads (`MaxLoads`)
for one to follow another file; rows of different underlyings share neither name nor
id, so a file holds those of one. Eight slots (`MaxSlot = 7`), to the middle of the
third day, are long enough for a
contract to be loaded, to die, and for a later one to take its id over, with a
load on either side of each midnight; an id is given away only after its contract
has been dead for a whole day, and that is the assumption `IdsAreReusedLate` of
`DhanProvider`: no code checks it. Three packets (`MaxPackets`) put one behind a misread one with one
between; three fills (`MaxFills`) tell a rule for the first fill from one for the
last. The parts of this run do not touch, so their states add up.

The theorems of section 5 remove the bounds altogether, liveness apart.

Deadlock is checked in the submission, the stream and the composites' runs. The
other runs switch it off: their commands are issued once and the system stops
when all are answered.

Fairness. `WF(Return(c))`: httpx is configured with a timeout (`http.py:40`), so
an await ends; the timeouts are per operation, and that Dhan does not send a byte
every nine seconds for ever is part of the assumption. In the stream the event
loop runs what is ready (`WF` on the handler, on the end of the socket and on the
pause, which is a bounded sleep) and a GET ends. `SF(Open)` says that Dhan, asked
over and over, accepts a connection one day; without it no client reconnects. No
fairness is assumed of Dhan's book, of replies or of what the engine hears.

## 4. Findings

1. `submission_scalar`: a POST answered by JSON that is neither object nor array
   is reported as OrderRejected (`execution.py:283`, from `errors.py:144-147`),
   although the order may be working. `execution.py:9-10` says an unreadable
   answer to a write is ambiguous. The same body for an answer to a DELETE or PUT is
   reported as a cancel or modify REJECTED (`execution.py:368-377`, `470-472`), and
   raises out of the calls on super and forever orders (`execution.py:778`, `796`,
   `897`), although Dhan may have acted. The passing runs leave `"scalar"` out of
   `GatewayFaults`; with it in that set, TLC refutes `RejectedDidNothing` in
   `DhanCancelModify.cfg` and `CallsEndTruly` in `DhanComposites.cfg`, and of these
   two runs nothing else.
2. `stream_flag`: a clean close leaves `order_updates_connected` up
   (`execution.py:1049`); `docs/execution.md:245` says a drop lowers it.
3. `stream_bad_frame`: a frame without OrderNo raises KeyError out of the handler
   (`execution.py:942`) and takes the socket with it; the docstring three lines
   above says it never raises.
4. `modify_terms`: OrderUpdated carries `trigger_price=None`
   (`execution.py:480`), so the next modify puts the earlier trigger back.
5. `lookup_long`: the external look-up asks for the raw client order id
   (`execution.py:558`), but ids over 25 characters were sent as a hash;
   `docs/DHAN_API_NOTES.md:61-65` says the look-up still finds the order.
6. `provider_expired`: a load compares whole days and the date in UTC
   (`providers.py:142`, `149`), so from the close at 15:30 of a contract's last day
   until 05:30 of the next it offers a contract that has expired.
   `providers.py:3-5` and `tests/dhan/test_providers.py:35-43` say that expired ones
   are not offered, and `../core/instruments.py:51-52` that midnight is too late.

### Divergences without a run

Met while modelling; the model follows the code, and no run is spent on them.

- A strike finer than a paisa raises `SymbolFormatError` (`../core/symbology.py:70`)
  out of the whole load, and leaves the maps half of this file and half of the
  last; the docstring of `parse_row` (`parsing.py:114-117`) has a row that is not
  understood skipped so that the others load. `LoadedAsListed` says only that such
  a load does not pass for one that returned.
- `truncated` is described as "frames that ended mid-packet"
  (`docs/market-data.md:102`). It also counts a frame ended by an unknown packet no
  longer than its header, and does not count a cut inside a header.
- `length_mismatches` "settles whether message_length includes the header"
  (`docs/market-data.md:101`), but either convention passes uncounted.
- A later fill of an order gives back the flat brokerage and not the GST charged on
  it (`../core/fees.py:157`); `SlicesPayBrokerageOnce` states exactly that
  much.
- A move of a super order's entry sends the terms the caller names
  (`super_orders.py:178-186`); the comment there says "it states all of it". A
  `trailingJump` that is not named is left out, which of the stop's move the comment
  at `193-195` says cancels the trail.
- Only the first order of an OCO is announced; its second leg rests at Dhan by the
  same request (`execution.py:845`).
- The books of super and forever orders take the correlationId for the client order
  id (`super_orders.py:254`), which it is not when the id was hashed.

## 5. What is proved

Every invariant and every action property of the runs, for every value of the
constants that satisfies the named assumptions of the module -- some under a
proviso that the table names. Seven modules hold the
theorems, `Recursion_proofs` the lemmas on induction that two of them need:

| Theorem | Statement |
| --- | --- |
| `TypeCorrect` (submission, cancel and modify, stream, reports, composites) | the type invariant |
| **Submission** | |
| `InvariantHolds` | the inductive invariant `IInv`, from which `TypeCorrect` follows here |
| `RejectedOrderNeverWorks` | a rejected order is not, and will not be, at the exchange -- if no JSON scalar is ever the answer (finding 1) |
| `AcceptedOrderIsPlaced`, `DeniedOrderNeverSent`, `EveryHistoryIsLegal` | as the runs check them |
| `ExitsOfSentBracketsAreApart` | `ExitsAreApart`: both exits of a bracket that was sent close what its entry opens, and no price fires both |
| `ClientKeepsThePromise` | `DhanSubmission` implements `OrderOutcome` (same proviso as for `RejectedOrderNeverWorks`) |
| **Cancel and modify** | |
| `InvariantHolds` | the inductive invariant `IInv` |
| `CanceledOrderIsDead` | an order the engine holds for canceled is canceled at Dhan |
| `RejectionIsFinal` | a rejected cancel or modify never took effect and never will (same proviso) |
| `TermsAgreeOnceSettled` | with one PUT at a time and none unanswered, the engine's quantity and price are Dhan's |
| **Stream** | |
| `StreamInvariant` | the inductive invariant `IInv` |
| `EveryFillIsATrade` | every fill the engine has is a trade of that order |
| `StreamKeepsTheLife` | `LifeKept`: `DhanOrderStream` implements `OrderLife` |
| `ReaderAgreesWithDhan` | `CaughtUp`: with nothing unread, status and fills of an order of which no frame was missed are Dhan's |
| **Reports** | |
| `GatheredInOrder` | the inductive invariant `Inv` of a mass status |
| `DeliveredIsComplete` | `CompleteOrRaised`: what was in the books is in the reports, or the call raises |
| `EveryFilledUnitIsReported`, `PositionsHoldTheFills` | the books disagree in one direction only |
| `ReportsNameTheirOrder` | `ReportsAreAttributed` |
| `LookUpFindsPlainIds` | `LookUpFindsIt`, if orders travel under their own id: the hash is all that defeats it (finding 5) |
| **Composites** | |
| `CallsInvariant` | the inductive invariant `CallInv` |
| `EveryCallEndsTruly` | `CallsEndTruly` (same proviso) |
| `LegsEndAsAsked` | `CancelledAsAsked` |
| `NoLegIsLost` | `EveryLegIsReported` |
| `ExitsCanBeMoved` | `ExitsMoveAfterTheFill`, the action property about `modify_payload` |
| **Instrument provider** | |
| `MapsStaySound` | the inductive invariant `ProviderInv` |
| `InstrumentsAreWhole` | `TypeOK` of the provider |
| `OrdersComeBack` | `OrdersComeBackAsTheirOwn`, if ids are reused late |
| `LoadsOfferWhatIsListed` | `LoadedAsListed`, from any file |
| **Readers** | |
| `RefusalsAreStated`, `AddressRefusalsAreTold` | what a response is read as, for any body, with an array of any length |
| `DecodersReadWhatWasSent`, `LossesAreCounted` | both properties of the frame loop, for frames of any length, cut anywhere |
| `SlicesAreChargedAsOne` | `SlicesPayBrokerageOnce`, for any number of fills, any rates and prices |
| `ReadersLeaveTheProvider` | `ReadersSpec => Spec`: what is proved of the provider holds in the run `readers`, where it runs beside the readers |

Submission. The safety properties speak of what was told and what Dhan did; no
step reads both, so they are not inductive. `RequestInv` supplies the link: a
request has no effect before it arrives, an acknowledgement on its way back means
placed, a refusal means declined. `VerdictInv` says the history of a command's
legs is one of five and what each implies. A step of one command leaves the other
commands' part alone (`FrameCommand`), so each action has one lemma about its own
command. The refinement maps every coroutine step to Deny, Send, Accept or
Reject, arrivals to Settle, and everything else to a stutter.

Cancel and modify. `RejectedDidNothing` follows from `RejectionInv`, its part of the
invariant that does not mind what stands in for an answer; it needs that a request is
sent once and acted upon once (`RequestInv`), which needs that a sweep does not return to an
order and that a cancel stays with its own (`TargetInv`). `CanceledIsDead` needs
that an acknowledgement in flight is about an order that is dead by now.
`TermsInv` tells apart the phases of the only PUT of an order: not out, on its
way, acknowledged, refused; only `overlapped` and `unsure` orders escape it, and
those cannot be promised anything: nothing in the client serialises PUTs.

Stream. `CaughtUp` speaks of an empty inbox, so the invariant has to say what every
unread frame will still do. `Facts` holds of every order: a GET is out exactly while
the reader waits for one, Dhan's book and trades go together, and the engine's
fills are trades in keeping with its state. `Heard` holds of an order of which no
frame was missed: its unread frames are the way its book has gone, the last of them
where it is now (`WayInv`); whatever is unread, the engine is in a state in which it
admits what the frame will tell it (`UnreadInv`); and what is read is known
(`ReadInv`). A lost socket adds to `missed` the orders of the frames it takes, so
that the others' promise survives it.
The refinement of `OrderLife` is about every order, so it cannot use `Heard`. It needs
only that an unread frame is something its book has been through (`History`), whatever
became of the frames around it: no ending is followed by anything, so the ending a
frame tells is the one in the book, and a fill is told from a list of trades. Frames and
repeated lists that the engine does not admit are stutters.

Reports. Dhan's three books only grow, so what a later read sees is no smaller than
what an earlier one saw. `Inv` says this between the books when the status began,
the answer in hand and what is gathered; the order of the reads (orders, trades,
positions) is the whole of the reason why no filled unit lacks its fill and no fill
its position, and either other order of two of them is a mutant TLC refutes.

Composites. `CallsEndTruly` needs that a request is acted upon once and that an
answer on its way tells which (`RequestInv`), and that only a refusal of Dhan's, or a
JSON scalar, raises (`ScalarVerdict`, `EndingInv`); `CancelledAsAsked` is inductive once a
traded leg is known to stay traded; `EveryLegIsReported` rests on `VenueOrderId`
being one to one and on one row per order.

Brackets. Whatever is on the wire was buildable when it was announced
(`OnlyBuildableAreSent`, one case per action that writes `wire`); the gap between
the exits is then arithmetic on `SuperSendable`. A long and a short bracket are
separate cases.

Instrument provider. `OrdersComeBackAsTheirOwn` speaks of two maps and of the clock,
and is not inductive: nothing in it says why the address of a live contract should
not be taken over by the next row. `Sound` says which row each id stands for, and
that the row was listed by today (`Bears`), and that the address of an id is its own,
or has been taken over and then the contract is dead (`Routed`). A row that takes an
address over is alive by the date of the load, which is today or yesterday;
`IdsAreReusedLate` then makes the loser the dead one (`TakenFromTheDead`). The date
in UTC is at most a day behind, and "dead for a whole day" is exactly what that lag
costs. `LoadedAsListed` is a loop invariant (`Offers`): of the first n rows each is
held by an id or its contract is listed again further on, because a symbol leaves
out nothing that tells two contracts apart (`OneNameOneContract`). Each turn of the
loop has one lemma per property, and `FileIsLoadedWell` is the induction over rows.

Readers. The bodies are cases. The decoder's loop moves forward (`LoopGoesForward`),
so its recursion is well defined, and from a packet that arrived whole it reads that
packet and goes on to where the next one starts (`LoopAtPacket`), because the stride
of a known packet is its length whatever its header says; the packets read are thus
an enumeration of those that were written (`WholePacketsAreRead`). What a loop stops
at is counted (`LoopCounts`, `NoneIsPassedOver`). The charges of an order are a sum
whose terms differ from the sum of turnovers by the flat parts (`OrderCharged`).

Induction. The prover cannot use the library's induction theorems, which take an
operator as a parameter. `Recursion_proofs` gets induction over `0 .. N` as a fact
about sets from the well-foundedness of strict inclusion between finite sets
(`LeastMember`, `UpwardInduction`, `DownwardInduction`). A recursive function is a
CHOOSE, of which nothing is known until some function satisfies its equation; so
`PartialSumsDef`, `FrameLoop` and `LoadFileLoop` first build one, by that induction,
and then read the equation off.

Assumed: only what the ASSUMEs of the modules name (which sets are disjoint or
finite, that distinct orders of ours have distinct correlationIds, what faults
exist; what a body, a frame and a row of the master can look like; that a packet
Dhan writes of a known code is as long as the code says; that a readable tick is a
whole number of ten-thousandths of a rupee; that ids are reused late). What the
properties say of Dhan is the external actions of each module: that a request is
acted upon at most once, that an answer follows what was done, that books and trades
grow, that a contract is in no file before it is listed.

Only model-checked: the liveness properties (`EveryPostEnds`, `StreamComesBack`,
`SweepsReachAll`), since TLAPS reasons neither about ENABLED nor about liveness
under fairness.

## 6. What is not modelled

In the modelled parts: wording and logging; orders or instruments missing from
the cache in cancel and modify; payload refusals there; an account's holdings and
balances; a row that cannot be read is a read that fails. In
`DhanSubmission` slicing is one order, as the client treats it, and a forever
order's legs are the one the code announces. In `DhanOrderStream` a second stream
started over a first is cut off by a bound in `Connect`, and an order of an earlier
process, of which the instrument may be missing from the cache (`execution.py:989`),
is none of `Ours`. In `DhanComposites` the
client order id of a report, prices, quantities and terms, legs rejected or expired and
stream frames about a leg are left out. `DhanPayloads` leaves out an exit without a
price, which raises something else than a refusal. In `DhanProvider` a master is a
file of few rows, and what an instrument carries besides multiplier, tick and
segment is left out; in `DhanDecoder` the fields behind a header and the rounding of
a float32; in `IndianCosts` the rounding to the paisa and `exercise_cost`, which
nothing calls.

Not at all: `data.py` and `ws.py`, which have no connect, subscribe or receive
operation yet and are converters over bytes; `auth.py`, one comparison of times that
nothing calls; `margin.py`, a sum of given percentages; `calendar.py` and the lot
table of `lots.py`, pure tables of dates; constructors and defaults of
`factories.py` and `config.py` but for the two live switches; examples and tests.
`PROJECT.json` lists them with the reason.

External, modelled from how the code uses them: Dhan's order service, book,
socket and trade list; the network; the engine's record of an order and the
events it admits (`EngineOrder`).

## 7. What would come next

1. Stream frames about a leg of a super order, composed with `EngineOrder`: a
   leg's frame reaches the leg's order and no other (`execution.py:957`). The second
   leg of an OCO and the ids of both books' reports, once it is said what the engine
   should be told of them.
2. The market-data client, when it has operations: subscriptions across lost
   sockets, composed with `DhanProvider` and `DhanDecoder`.
