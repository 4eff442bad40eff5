--------------------------- MODULE MCDhanCancelModify ---------------------------
(***************************************************************************)
(* Two orders, one of them with a trigger.  A cancel and a sweep that may  *)
(* meet on the same order, and two modifies of one order that name         *)
(* different terms and may follow each other or overlap.                   *)
(***************************************************************************)
EXTENDS DhanCancelModify

MCTarget == [c \in Cancels \cup Modifies |-> "stop"]

MCNamed == [m \in Modifies |->
              IF m = "trail" THEN [t \in {"trigger"} |-> 2]
              ELSE IF m = "reprice" THEN [t \in {"price"} |-> 2]
              ELSE [t \in {"quantity"} |-> 2]]

MCInitialTerms ==
  [o \in Orders |->
     [t \in Terms |-> IF o = "stop" \/ t # "trigger" THEN 1 ELSE 0]]
===============================================================================
