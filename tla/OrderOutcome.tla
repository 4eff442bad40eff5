------------------------------ MODULE OrderOutcome ------------------------------
(***************************************************************************)
(* What the execution client promises the engine about a submission, with  *)
(* nothing about HTTP in it: the three outcomes of the header of           *)
(* dhan/execution.py.                                                      *)
(*                                                                         *)
(* truth[o] is what can be the case at the exchange, told[o] what the      *)
(* engine has been told.  The client may stay silent for ever; what it may *)
(* never do is assert something the exchange can still contradict.         *)
(***************************************************************************)
CONSTANTS Orders,
          Together   \* the sets of orders that are placed by one request

VARIABLES truth,     \* "unsent", "possible", "working" or "never"
          told       \* "nothing", "denied", "submitted", "accepted", "rejected"

vars == <<truth, told>>

Init == /\ truth = [o \in Orders |-> "unsent"]
        /\ told = [o \in Orders |-> "nothing"]

Set(f, S, v) == [x \in DOMAIN f |-> IF x \in S THEN v ELSE f[x]]

\* S is one order, or the legs of one bracket: they share their fate.
Deny(S) == /\ \A o \in S : truth[o] = "unsent" /\ told[o] = "nothing"
           /\ told' = Set(told, S, "denied")
           /\ UNCHANGED truth

\* SUBMITTED promises an attempt; the request may never leave the process.
Send(S) == /\ \A o \in S : truth[o] = "unsent" /\ told[o] = "nothing"
           /\ \E v \in {"possible", "never"} : truth' = Set(truth, S, v)
           /\ told' = Set(told, S, "submitted")

Settle(S) == /\ \A o \in S : truth[o] = "possible"
             /\ \E v \in {"working", "never"} : truth' = Set(truth, S, v)
             /\ UNCHANGED told

Accept(S) == /\ \A o \in S : truth[o] = "working" /\ told[o] = "submitted"
             /\ told' = Set(told, S, "accepted")
             /\ UNCHANGED truth

Reject(S) == /\ \A o \in S : truth[o] = "never" /\ told[o] = "submitted"
             /\ told' = Set(told, S, "rejected")
             /\ UNCHANGED truth

Next == \E S \in Together :
          Deny(S) \/ Send(S) \/ Settle(S) \/ Accept(S) \/ Reject(S)

Spec == Init /\ [][Next]_vars
===============================================================================
