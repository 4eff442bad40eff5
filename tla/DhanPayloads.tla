----------------------------- MODULE DhanPayloads -----------------------------
(***************************************************************************)
(* Which submissions can be put into a request at all: the refusals of the *)
(* place_payload functions of orders.py, super_orders.py and               *)
(* forever_orders.py.  "Building the payload IS the validation"            *)
(* (execution.py:320).                                                     *)
(* Constant-level operators only.                                          *)
(*                                                                         *)
(* An order is [type, side, tif, price, trigger, routable]; a price of 0   *)
(* is None; routable says that its segment has a name at Dhan.  A config   *)
(* is [product, afterMarket, amoTime].  Left out: what raises something    *)
(* else than Unsendable (an exit, or a second leg, without a price).       *)
(***************************************************************************)
EXTENDS Naturals

\* ORDER_TYPE and _VALIDITY: what has a word at Dhan.
OrderType == [LIMIT |-> "LIMIT", MARKET |-> "MARKET", STOP_LIMIT |-> "STOP_LOSS",
              STOP_MARKET |-> "STOP_LOSS_MARKET"]
Validity  == [GTC |-> "DAY", DAY |-> "DAY", IOC |-> "IOC"]

NeedsTrigger  == {"STOP_LOSS", "STOP_LOSS_MARKET"}
SuperTypes    == {"LIMIT", "MARKET"}
SuperProducts == {"CNC", "INTRADAY", "MARGIN", "MTF"}
ProductTypes  == SuperProducts \cup {"CO", "BO"}

AmoTimes      == {"PRE_OPEN", "OPEN", "OPEN_30", "OPEN_60"}

OrderSendable(order, config) ==
  /\ order.type \in DOMAIN OrderType
  /\ OrderType[order.type] \in NeedsTrigger => order.trigger # 0
  /\ order.routable
  /\ config.product \in ProductTypes
  /\ order.tif \in DOMAIN Validity
  /\ config.afterMarket => config.amoTime \in AmoTimes

\* What a forever order becomes once its trigger fires, and what can rest.
ForeverOrderType == [STOP_LIMIT |-> "LIMIT", LIMIT |-> "LIMIT",
                     STOP_MARKET |-> "MARKET", MARKET |-> "MARKET"]
ForeverProducts  == {"CNC", "MTF"}

\* secondLegs is {} for a SINGLE, a singleton for an OCO.
ForeverSendable(order, secondLegs, product) ==
  /\ order.type \in DOMAIN ForeverOrderType
  /\ \A leg \in {order} \cup secondLegs : leg.trigger # 0
  /\ order.routable
  /\ product \in ForeverProducts
  /\ order.tif \in DOMAIN Validity

Opposite(side) == IF side = "BUY" THEN "SELL" ELSE "BUY"

StopPrice(stop) == IF stop.trigger # 0 THEN stop.trigger ELSE stop.price

\* Mutant: exits at one price are let through.
SuperSendableAtOnePrice(entry, target, stop, product) ==
  /\ entry.type \in DOMAIN OrderType /\ OrderType[entry.type] \in SuperTypes
  /\ target.side = Opposite(entry.side) /\ stop.side = Opposite(entry.side)
  /\ entry.side = "BUY"  => target.price >= StopPrice(stop)
  /\ entry.side = "SELL" => target.price <= StopPrice(stop)
  /\ entry.routable
  /\ product \in SuperProducts

SuperSendable(entry, target, stop, product) ==
  /\ entry.type \in DOMAIN OrderType /\ OrderType[entry.type] \in SuperTypes
  /\ target.side = Opposite(entry.side) /\ stop.side = Opposite(entry.side)
  /\ entry.side = "BUY"  => target.price > StopPrice(stop)
  /\ entry.side = "SELL" => target.price < StopPrice(stop)
  /\ entry.routable
  /\ product \in SuperProducts
===============================================================================
