----------------------------- MODULE IndianCosts -----------------------------
(***************************************************************************)
(* What a fill costs: CostModel and IndianOptionFeeModel of core/fees.py.  *)
(* Constant-level operators only.  Rates are whole numbers -- those on     *)
(* turnover in ten-thousandths, GST in hundredths -- and a cost is in      *)
(* millionths of a rupee, before it is rounded to the paisa.               *)
(*                                                                         *)
(* Periods is the table of rates: a sequence of [from, to, sttSell,        *)
(* stampBuy, exchange, sebi, gst, brokerage].  A fill is [day, price,      *)
(* lots].                                                                  *)
(***************************************************************************)
EXTENDS PartialSums

PerMillion(turnover, tenThousandths) == turnover * tenThousandths * 100

\* CostModel._rates: the first period that covers a day; {} is
\* UnknownCostRatesError.
RatesOn(periods, day) ==
  LET covering == {i \in DOMAIN periods : periods[i].from <= day /\ day <= periods[i].to} IN
  {periods[i] : i \in {j \in covering : \A k \in covering : j <= k}}

LegCost(rates, side, price, units) ==
  LET turnover  == price * units
      brokerage == rates.brokerage * 1000000
      exchange  == PerMillion(turnover, rates.exchange)
  IN [stt       |-> IF side = "SELL" THEN PerMillion(turnover, rates.sttSell) ELSE 0,
      stamp     |-> IF side = "BUY" THEN PerMillion(turnover, rates.stampBuy) ELSE 0,
      brokerage |-> brokerage,
      exchange  |-> exchange,
      sebi      |-> PerMillion(turnover, rates.sebi),
      gst       |-> (rates.gst * (brokerage + exchange)) \div 100]

Total(c) == c.stt + c.brokerage + c.exchange + c.sebi + c.stamp + c.gst

\* Mutant: every fill of an order pays the flat brokerage.
CommissionEachSlice(rates, side, fill, filledBefore, multiplier) ==
  Total(LegCost(rates, side, fill.price, fill.lots * multiplier))

\* get_commission: the later fills of an order give the flat brokerage back.
Commission(rates, side, fill, filledBefore, multiplier) ==
  LET cost == LegCost(rates, side, fill.price, fill.lots * multiplier)
  IN Total(cost) - (IF filledBefore > 0 THEN cost.brokerage ELSE 0)

\* Lots filled by the first n fills of an order.
FilledBy(fills, n) == PartialSums([k \in DOMAIN fills |-> fills[k].lots])[n]

\* The whole order, each fill at the rates of its own day; {} when a day of it
\* is covered by no period.
Charged(periods, side, fills, multiplier) ==
  LET rates(k)    == RatesOn(periods, fills[k].day)
      commissions == [k \in DOMAIN fills |->
                        Commission(CHOOSE r \in rates(k) : TRUE, side, fills[k],
                                   FilledBy(fills, k - 1), multiplier)]
  IN IF \E k \in DOMAIN fills : rates(k) = {} THEN {}
     ELSE {PartialSums(commissions)[Len(fills)]}
===============================================================================
