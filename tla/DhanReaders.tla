----------------------------- MODULE DhanReaders -----------------------------
(***************************************************************************)
(* What the client is given to read.  Either the provider runs, loading    *)
(* Dhan's master (DhanProvider); or one thing is read by a reader that     *)
(* keeps no state: a response (DhanErrors), a binary frame (DhanDecoder),  *)
(* the fills of an order (IndianCosts).  The initial state picks which;    *)
(* the properties compare what was read with what was there.  The parts do *)
(* not touch: the states are their sum.                                    *)
(***************************************************************************)
EXTENDS DhanErrors, DhanDecoder, IndianCosts, DhanProvider, FiniteSets

CONSTANTS Responses,  \* what an exchange may end with
          Frames,     \* the frames either socket may bring: [socket, frame]
          Periods,    \* the table of rates
          Orders      \* orders and their fills: [side, fills, multiplier]

\* A body is a scalar, a dict, or an array of dicts and scalars.
IsElement(element) ==
  \/ element = Scalar
  \/ element.shape = "object" /\ element = Object(element.fields)

IsBody(body) ==
  \/ IsElement(body)
  \/ /\ body.shape = "array" /\ body = Array(body.items)
     /\ body.items \in Seq({body.items[i] : i \in DOMAIN body.items})
     /\ \A i \in DOMAIN body.items : IsElement(body.items[i])

ASSUME ResponsesAssumption ==
  \A response \in Responses :
    \/ response \in {HttpError, Text}
    \/ response.kind = "json" /\ response = Json(response.body) /\ IsBody(response.body)

\* No packet is shorter than its header, one of a known code is as long as the
\* code says, and no more bytes arrive than were written.
IsFrame(socket, frame) ==
  LET packets == frame.packets IN
  /\ socket \in {MarketFeed, Depth20}
  /\ packets \in Seq([code : Nat, size : Nat, declared : Nat])
  /\ \A i \in DOMAIN packets :
       /\ packets[i].size >= socket.header
       /\ packets[i].code \in DOMAIN socket.sizes =>
            packets[i].size = socket.sizes[packets[i].code]
  /\ frame.noise \in [code : Nat, declared : Nat]
  /\ frame.size \in 0 .. Written(packets)

ASSUME FramesAssumption == \A f \in Frames : IsFrame(f.socket, f.frame)

Rate == [from : Int, to : Int, sttSell : Nat, stampBuy : Nat, exchange : Nat,
         sebi : Nat, gst : Nat, brokerage : Nat]
Fill == [day : Int, price : Nat, lots : Nat \ {0}]

ASSUME OrdersAssumption ==
  /\ Periods \in Seq(Rate)
  /\ \A order \in Orders :
       /\ order.side \in {"BUY", "SELL"}
       /\ order.fills \in Seq(Fill) \ {<<>>}
       /\ order.multiplier \in Nat \ {0}

VARIABLES subject, result

Waiting == [outcome |-> "waiting"]
Master  == [kind |-> "master"]

Exchanged == {[kind |-> "exchange", isWrite |-> w, response |-> r] :
                w \in BOOLEAN, r \in Responses}
Framed    == {[kind |-> "frame", socket |-> f.socket, frame |-> f.frame] : f \in Frames}
Filled    == {[kind |-> "order", side |-> o.side, fills |-> o.fills,
               multiplier |-> o.multiplier] : o \in Orders}

ReadersInit ==
  /\ Init
  /\ subject \in {Master} \cup Exchanged \cup Framed \cup Filled
  /\ result = Waiting

\* The step of each reader: the return, or the raise, of its one operation.
ReadAnswer == /\ subject.kind = "exchange"
              /\ result' = Answer(subject.isWrite, subject.response)

ReadFrame == /\ subject.kind = "frame"
             /\ result' = Frame(subject.socket, subject.frame)

ChargeOrder ==
  /\ subject.kind = "order"
  /\ result' = [charged |-> Charged(Periods, subject.side, subject.fills,
                                    subject.multiplier)]

ReadersNext ==
  \/ subject = Master /\ Next /\ UNCHANGED <<subject, result>>
  \/ /\ result = Waiting
     /\ ReadAnswer \/ ReadFrame \/ ChargeOrder
     /\ UNCHANGED <<vars, subject>>

ReadersSpec == ReadersInit /\ [][ReadersNext]_<<vars, subject, result>>

Read(kind) == subject.kind = kind /\ result # Waiting

-------------------------------------------------------------------------------
\* What a body announces, stated over the dicts in it and not over the order
\* in which the code looks for it.
Announces(dict) == \/ "errorMessage" \in DOMAIN dict
                   \/ /\ "status" \in DOMAIN dict
                      /\ dict["status"] \notin SuccessWords

SaysFailure(body) ==
  \/ /\ body.shape = "object"
     /\ \/ Announces(body.fields)
        \/ DOMAIN body.fields \cap {"errorCode", "errorType"} # {}
  \/ /\ body.shape = "array"
     /\ \E i \in DOMAIN body.items : /\ body.items[i].shape = "object"
                                     /\ Announces(body.items[i].fields)

\* A refusal is reported exactly when the body says so, wherever in an array
\* it stands and whatever else the body carries: no success reads as a
\* rejection and no failure reaches the caller as data (errors.classify).
RefusedIffBodySaysSo ==
  Read("exchange") =>
    (result.outcome \in Definitive
       <=> subject.response.kind = "json" /\ SaysFailure(subject.response.body))

\* An address refusal stated in an object's own error message degrades the
\* client unless the same body is a rate limit (errors._raise's order): it is
\* never reported as a refusal of this one order.
IPRefusalIsNotAboutOneOrder ==
  /\ Read("exchange")
  /\ subject.response.kind = "json"
  /\ subject.response.body.shape = "object"
  /\ Get(subject.response.body.fields, "errorMessage") = "ip"
  => result.outcome \in {"ipNotWhitelisted", "rateLimited"}

\* Up to the first packet whose own length cannot be relied upon -- one of an
\* unknown code, unless it is longer than a header and counts it -- the packets
\* read are those that were written and arrived whole, in their order, whatever
\* the lengths of the known ones say; with no such packet there are no others
\* (binary.Decoder.frame, decode_depth20_frame).
DecodesWhatWasSent ==
  Read("frame") =>
    LET socket  == subject.socket
        packets == subject.frame.packets
        known(i)    == packets[i].code \in DOMAIN socket.sizes
        misleads(i) == /\ ~known(i)
                       /\ \/ packets[i].declared # packets[i].size
                          \/ packets[i].size <= socket.header
        safe   == {i \in DOMAIN packets : known(i)
                     /\ StartsAt(packets, i) + packets[i].size <= subject.frame.size
                     /\ \A j \in 1 .. i : ~misleads(j)}
        within == {i \in DOMAIN result.packets : i <= Cardinality(safe)}
    IN /\ Cardinality(within) = Cardinality(safe)
       /\ {result.packets[i].from : i \in within} = safe
       /\ \A i, j \in within : i < j => result.packets[i].from < result.packets[j].from
       /\ (\A i \in DOMAIN packets : ~misleads(i)) =>
            Len(result.packets) = Cardinality(safe)

\* A packet of the market feed whose header arrived and that is not among those
\* read is not lost in silence: the frame is counted as truncated or a code as
\* unknown (binary.Decoder's counters; the depth socket has none).
NothingLostUncounted ==
  Read("frame") /\ subject.socket = MarketFeed =>
    \A i \in DOMAIN subject.frame.packets :
      \/ StartsAt(subject.frame.packets, i) + subject.socket.header > subject.frame.size
      \/ \E j \in DOMAIN result.packets : result.packets[j].from = i
      \/ result.truncated + result.unknown > 0

\* An order filled in slices within one period costs what it would have cost in
\* one fill, and for each later slice the GST on the flat brokerage, which alone
\* is not given back; an order with a fill that no period covers is not priced
\* at all (fees.get_commission, CostModel._rates).
SlicesPayBrokerageOnce ==
  Read("order") =>
    LET fills     == subject.fills
        later     == Len(fills) - 1
        turnovers == [k \in DOMAIN fills |->
                        fills[k].price * (fills[k].lots * subject.multiplier)]
        covers(i, day) == Periods[i].from <= day /\ day <= Periods[i].to
        first(i, day)  == /\ covers(i, day)
                          /\ \A j \in DOMAIN Periods : j < i => ~covers(j, day)
        wholeAt(rates) == Total(LegCost(rates, subject.side,
                                        PartialSums(turnovers)[Len(fills)], 1))
    IN /\ result.charged = {} <=>
            \E k \in DOMAIN fills : \A i \in DOMAIN Periods : ~covers(i, fills[k].day)
       /\ \A i \in DOMAIN Periods :
            (\A k \in DOMAIN fills : first(i, fills[k].day)) =>
              result.charged = {wholeAt(Periods[i])
                                  + later * (Periods[i].gst * Periods[i].brokerage * 10000)}
===============================================================================
