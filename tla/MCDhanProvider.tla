---------------------------- MODULE MCDhanProvider ----------------------------
(***************************************************************************)
(* A master of rows that are hard: a contract whose id a later one takes   *)
(* over, an equity in two series, an index without a tick, a currency      *)
(* future with a tick of Rs 0.0025, a commodity without a feed segment,    *)
(* options with a strike finer than a paisa or none at all.  Every file of *)
(* up to MaxRows of them of one underlying, in any order.                  *)
(***************************************************************************)
EXTENDS DhanProvider

CONSTANT MaxRows

Row(instrument, exch, segment, sec, underlying) ==
  [instrument |-> instrument, exch |-> exch, segment |-> segment, sec |-> sec,
   underlying |-> underlying, expiry |-> NoDay, strike |-> 0, right |-> "",
   lot |-> 1, tick |-> 50000, listed |-> 0]

Option(sec, expiry, strike, listed) ==
  [Row("OPTIDX", "NSE", "D", sec, "NIFTY") EXCEPT
     !.expiry = expiry, !.strike = strike, !.right = "CE", !.lot = 65, !.listed = listed]

MCRows ==
  {Option("7", 0, 200, 0),                       \* dead after the first day
   Option("7", 3, 200, 2),                       \* takes its id over
   Option("8", 3, 201, 0),                       \* finer than a paisa
   Option("9", 3, 0, 0),                         \* no strike
   Row("EQUITY", "NSE", "E", "3", "INFY"),       \* two series of one share
   Row("EQUITY", "NSE", "E", "4", "INFY"),
   [Row("INDEX", "NSE", "I", "13", "NIFTY") EXCEPT !.lot = 0, !.tick = 0],
   [Row("FUTCUR", "NSE", "C", "5", "USDINR") EXCEPT
      !.expiry = 1, !.lot = 1000, !.tick = 2500],
   [Row("FUTCOM", "NSE", "M", "6", "GOLD") EXCEPT !.expiry = 3, !.lot = 100]}

\* Rows that have nothing to do with one another share no file.
MCFiles == UNION {{f \in [1 .. n -> MCRows] :
                     \A i, j \in 1 .. n : i # j => /\ f[i] # f[j]
                                                   /\ f[i].underlying = f[j].underlying} :
                    n \in 1 .. MaxRows}

MCFilterSets == {[underlyings |-> {}, classes |-> {}],
                 [underlyings |-> {"NIFTY"}, classes |-> {"option", "future"}]}
===============================================================================
