----------------------------- MODULE DhanBrackets -----------------------------
(***************************************************************************)
(* The orders inside a bracket: what the refusal of a super order          *)
(* (super_orders.place_payload) guarantees of the one request that         *)
(* DhanSubmission sends for its three legs.                                *)
(***************************************************************************)
EXTENDS DhanSubmission, DhanPayloads

CONSTANTS Placed,    \* the entry, target, stop and product of each bracket
          MaxPrice   \* bound on the prices the market may reach

Order == [type : STRING, side : {"BUY", "SELL"}, tif : STRING, price : Nat,
          trigger : Nat, routable : BOOLEAN]

\* "Building the payload IS the validation" (execution.py:320).
ASSUME BracketsAssumption ==
  /\ MaxPrice \in Nat
  /\ Placed \in [IsBracket -> [entry : Order, target : Order, stop : Order,
                               product : STRING]]
  /\ \A c \in IsBracket \cap Buildable :
       SuperSendable(Placed[c].entry, Placed[c].target, Placed[c].stop, Placed[c].product)

\* An exit that sells fires as a profit from its price upwards, as a stop from
\* its price downwards; one that buys, the other way round.
TargetFires(bracket, market) ==
  IF bracket.target.side = "SELL" THEN market >= bracket.target.price
                                  ELSE market <= bracket.target.price
StopFires(bracket, market) ==
  IF bracket.stop.side = "SELL" THEN market <= StopPrice(bracket.stop)
                                ELSE market >= StopPrice(bracket.stop)

\* "On the same side they double the position instead of closing it", and
\* "Inverted, one leg fires the moment the entry fills and closes a position
\* that was just opened" (super_orders.py:111-133): of a bracket that was ever
\* sent both exits close what its entry opens, and no price of the market fires
\* both.
ExitsAreApart ==
  \A c \in IsBracket : wire[c] # "none" =>
    /\ {Placed[c].target.side, Placed[c].stop.side} = {Opposite(Placed[c].entry.side)}
    /\ \A market \in 0 .. MaxPrice :
         ~(TargetFires(Placed[c], market) /\ StopFires(Placed[c], market))
===============================================================================
