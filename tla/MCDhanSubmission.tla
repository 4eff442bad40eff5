--------------------------- MODULE MCDhanSubmission ---------------------------
(***************************************************************************)
(* Two commands that can be sent while the other waits, so that an address *)
(* refusal read by one meets the other at its await -- one of them a       *)
(* short bracket, whose legs share one request -- and three that must      *)
(* never be sent: a list that is not a bracket, a long bracket with both   *)
(* exits at one price, and a resting order whose second leg has no trigger.*)
(***************************************************************************)
EXTENDS DhanBrackets

CONSTANTS entry, target, stop, single, loose, entry2, target2, stop2, oco

MCCommands == {"single", "bracket", "basket", "pinched", "resting"}
MCOrders   == {entry, target, stop, single, loose, entry2, target2, stop2,
               oco}
MCLegs     == [c \in MCCommands |->
                 CASE c = "single"  -> {single}
                   [] c = "bracket" -> {entry, target, stop}
                   [] c = "basket"  -> {loose}
                   [] c = "pinched" -> {entry2, target2, stop2}
                   [] c = "resting" -> {oco}]
MCKind     == [c \in MCCommands |-> IF c = "single" THEN "order"
                                   ELSE IF c = "resting" THEN "forever" ELSE "list"]
MCIsBracket == {"bracket", "pinched"}

\* The orders themselves, and the payloads that can be built of them.
Terms(type, side, price, trigger) ==
  [type |-> type, side |-> side, tif |-> "GTC", price |-> price, trigger |-> trigger,
   routable |-> TRUE]

MCPlaced == [c \in MCIsBracket |->
  [entry |-> Terms("LIMIT", IF c = "pinched" THEN "BUY" ELSE "SELL", 2, 0),
   target |-> IF c = "pinched" THEN Terms("LIMIT", "SELL", 3, 0)
              ELSE Terms("LIMIT", "BUY", 1, 0),
   stop |-> IF c = "pinched" THEN Terms("STOP_MARKET", "SELL", 0, 3)
            ELSE Terms("LIMIT", "BUY", 3, 0),
   product |-> "INTRADAY"]]

MCBuildable ==
  {c \in MCCommands :
     IF c \in MCIsBracket
     THEN SuperSendable(MCPlaced[c].entry, MCPlaced[c].target, MCPlaced[c].stop,
                        MCPlaced[c].product)
     ELSE IF c = "resting"
     THEN ForeverSendable(Terms("STOP_LIMIT", "SELL", 3, 3),
                          {Terms("LIMIT", "SELL", 1, 0)}, "CNC")
     ELSE OrderSendable(Terms("LIMIT", "BUY", 2, 0),
                        [product |-> "INTRADAY", afterMarket |-> TRUE, amoTime |-> "OPEN"])}
===============================================================================
