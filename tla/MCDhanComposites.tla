---------------------------- MODULE MCDhanComposites ----------------------------
(***************************************************************************)
(* One super order and two forever orders, one of an instrument the scrip  *)
(* master lacks; cancels of the whole and of one exit, and of a leg that   *)
(* does not exist; moves of the whole and of both exits -- the target's    *)
(* names a term of the entry too, and the stop's leaves out the trail.     *)
(***************************************************************************)
EXTENDS DhanComposites

MCOf == [c \in Calls |-> IF c = "dropForever" THEN "forever" ELSE "super"]
MCLegOf == [c \in Calls \ {"dropForever"} |->
              IF c \in {"dropAll", "moveAll"} THEN "ENTRY_LEG"
              ELSE IF c = "dropMiddle" THEN "MIDDLE_LEG"
              ELSE IF c = "moveStop" THEN "STOP_LOSS_LEG" ELSE "TARGET_LEG"]
MCNamed == [m \in Modifies |-> IF m = "moveAll" THEN [entry |-> 3, stopLossPrice |-> 3]
                               ELSE IF m = "moveTarget" THEN [entry |-> 2, targetPrice |-> 2]
                               ELSE [stopLossPrice |-> 2]]
===============================================================================
