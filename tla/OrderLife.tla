------------------------------- MODULE OrderLife -------------------------------
(***************************************************************************)
(* What the order-update stream promises the engine about every order,     *)
(* heard of or not, with no socket, frame or GET in it: the engine may     *)
(* learn late or never, but it is never told what is not so at Dhan, never *)
(* given a fill that is no trade of the order, and an order that has ended *)
(* does not come back, but for the fills that a cancel may overtake.       *)
(***************************************************************************)
EXTENDS Naturals

CONSTANTS Orders,
          Size       \* trades that fill an order

VARIABLES truth,     \* "none", "working", or how the order ended at Dhan
          done,      \* the number of its trades
          told,      \* the state in which the engine has it
          fills      \* the trades the engine has

vars == <<truth, done, told, fills>>

Endings == {"canceled", "rejected", "expired"}
Done(o) == {o} \X (1 .. done[o])

Init == /\ truth = [o \in Orders |-> "none"]
        /\ done = [o \in Orders |-> 0]
        /\ told = [o \in Orders |-> "initialized"]
        /\ fills = [o \in Orders |-> {}]

Submit(o) == /\ told[o] = "initialized"
             /\ told' = [told EXCEPT ![o] = "submitted"]
             /\ UNCHANGED <<truth, done, fills>>

\* Dhan acts only upon what was submitted; what has ended there has ended.
Happen(o) == /\ told[o] # "initialized" /\ truth[o] \in {"none", "working"}
             /\ \E n \in done[o] .. Size :
                  /\ done' = [done EXCEPT ![o] = n]
                  /\ \E t \in IF n = Size THEN {"filled"}
                              ELSE IF n = 0 THEN {"working"} \cup Endings
                              ELSE {"working", "canceled", "expired"} :
                       truth' = [truth EXCEPT ![o] = t]
             /\ UNCHANGED <<told, fills>>

Accept(o) == /\ told[o] = "submitted" /\ truth[o] # "none"
             /\ told' = [told EXCEPT ![o] = "accepted"]
             /\ UNCHANGED <<truth, done, fills>>

End(o) == /\ told[o] \in {"submitted", "accepted", "partially_filled"}
          /\ truth[o] \in Endings
          /\ told' = [told EXCEPT ![o] = truth[o]]
          /\ UNCHANGED <<truth, done, fills>>

Fill(o) == /\ told[o] \in {"submitted", "accepted", "partially_filled", "canceled"}
           /\ \E S \in SUBSET Done(o) :
                /\ fills[o] \subseteq S /\ S # fills[o]
                /\ fills' = [fills EXCEPT ![o] = S]
                /\ told' = [told EXCEPT ![o] =
                             IF S = {o} \X (1 .. Size) THEN "filled"
                             ELSE "partially_filled"]
           /\ UNCHANGED <<truth, done>>

Next == \E o \in Orders :
          Submit(o) \/ Happen(o) \/ Accept(o) \/ End(o) \/ Fill(o)

Spec == Init /\ [][Next]_vars
===============================================================================
