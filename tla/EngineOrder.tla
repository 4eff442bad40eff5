------------------------------ MODULE EngineOrder ------------------------------
(***************************************************************************)
(* External: what the Nautilus engine makes of the events the client emits *)
(* for one order.  An event that the order's state does not admit is       *)
(* logged and dropped, and so is a fill whose trade id the order already   *)
(* has.  A fill may follow a cancel: exchanges do that.                    *)
(***************************************************************************)
EXTENDS Naturals, FiniteSets

OrderStates == {"initialized", "submitted", "accepted", "partially_filled",
                "filled", "canceled", "rejected", "expired"}

\* The states in which each event is admitted.
Admits ==
  [submitted |-> {"initialized"},
   accepted  |-> {"submitted"},
   rejected  |-> {"submitted", "accepted"},
   canceled  |-> {"submitted", "accepted", "partially_filled"},
   expired   |-> {"accepted", "partially_filled"}]

Fillable == {"submitted", "accepted", "partially_filled", "canceled"}

After(state, event) == IF state \in Admits[event] THEN event ELSE state

\* trades: the ids reported; known: those the order already has; size: how
\* many complete the order.
AfterFills(state, known, trades, size) ==
  IF state \notin Fillable \/ trades \subseteq known THEN state
  ELSE IF Cardinality(known \cup trades) < size THEN "partially_filled"
  ELSE "filled"

FillsAfter(state, known, trades) ==
  IF state \in Fillable THEN known \cup trades ELSE known
===============================================================================
