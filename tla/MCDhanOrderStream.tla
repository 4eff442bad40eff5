-------------------------- MODULE MCDhanOrderStream --------------------------
(***************************************************************************)
(* Two orders: one whose id is too long for Dhan and travels as a hash,    *)
(* and one that travels under its own id.                                  *)
(***************************************************************************)
EXTENDS DhanOrderStream

MCCorrelation == [o \in Ours |-> IF o = "O-20260101-000000-001-000-1"
                                 THEN "5e1f0c" ELSE o]
===============================================================================
