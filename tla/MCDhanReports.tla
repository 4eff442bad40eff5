----------------------------- MODULE MCDhanReports -----------------------------
(***************************************************************************)
(* Two orders of ours, one sent under its own id and one under a hash, and *)
(* one placed from Dhan's app under an id Dhan made.  The position in      *)
(* "nifty" adds up the trades of two orders; "bank" can be missing from    *)
(* the scrip master.                                                       *)
(***************************************************************************)
EXTENDS DhanReports

MCCorrelation == [o \in Orders |-> IF o = "long" THEN "hash of long"
                                   ELSE IF o = "short" THEN "short" ELSE "made by Dhan"]
MCInstrumentOf == [o \in Orders |-> IF o = "long" THEN "bank" ELSE "nifty"]
===============================================================================
