------------------------------ MODULE DhanScrip ------------------------------
(***************************************************************************)
(* One row of Dhan's scrip master and the instrument built from it:        *)
(* dhan/parsing.py, core/symbology.py, core/instruments.py and the segment *)
(* tables of dhan/providers.py.  Constant-level operators only; an         *)
(* operator that may find nothing, or raise, returns {} or a singleton.    *)
(*                                                                         *)
(* A raw row is [instrument, exch, segment, sec, underlying, expiry,       *)
(* strike, right, lot, tick, listed].  Expiries are days, NoDay for a null *)
(* or a text that is no date.  A strike counts half paise, so that one     *)
(* finer than a paisa exists; 0 and -1 are the column's sentinels and its  *)
(* unreadable texts.  A tick counts ten-thousandths of the column's unit,  *)
(* which is the paisa.  A lot or a tick of -1 cannot be read.  "listed" is *)
(* the day from which the exchange lists the contract; no code reads it.   *)
(***************************************************************************)
EXTENDS Integers

NoDay == -99
None  == 0                       \* of a strike
Blank == ""                      \* of a text

\* dhan/parsing.py's INSTRUMENT_CLASS and EXCHANGE_BY_ID.
InstrumentClass ==
  [EQUITY |-> "equity", INDEX |-> "index",
   FUTIDX |-> "future", FUTSTK |-> "future", FUTCUR |-> "future", FUTCOM |-> "future",
   OPTIDX |-> "option", OPTSTK |-> "option", OPTCUR |-> "option", OPTFUT |-> "option"]
Exchanges == {"NSE", "BSE", "MCX"}
Rights    == {"CE", "PE"}
Cash      == {"equity", "index"}

RawRow == [instrument : STRING, exch : STRING, segment : STRING, sec : STRING,
           underlying : STRING, expiry : Int, strike : Int, right : STRING,
           lot : Int, tick : Int, listed : Int]

PaisePerRupee == 100
IndexTick     == 100              \* Rs 0.01, in ten-thousandths of a rupee

TickSizeRupees(raw) == raw \div PaisePerRupee
ParseStrike(raw)    == IF raw > 0 THEN raw ELSE None
OrElseDefault(n, default) == IF n = 0 THEN default ELSE n

\* Mutant: the strike's sentinels are read as strikes.
UnderstoodStrikeless(class, expiry, strike, right) ==
  /\ class \in {"option", "future"} => expiry # NoDay
  /\ class = "option" => right \in Rights

\* What a row of each class must say to be a contract at all.
Understood(class, expiry, strike, right) ==
  /\ class \in {"option", "future"} => expiry # NoDay
  /\ class = "option" => strike # None /\ right \in Rights

\* A row as a ScripRow; {} for one "we do not understand".
ParseRow(row) ==
  IF \/ row.instrument \notin DOMAIN InstrumentClass \/ row.exch \notin Exchanges
     \/ row.sec = Blank \/ row.underlying = Blank
  THEN {}
  ELSE LET class  == InstrumentClass[row.instrument]
           strike == ParseStrike(row.strike)
           lot    == IF class = "index" THEN OrElseDefault(row.lot, 1) ELSE row.lot
           rupees == IF row.tick < 0 THEN row.tick ELSE TickSizeRupees(row.tick)
           tick   == IF class = "index" THEN OrElseDefault(rupees, IndexTick) ELSE rupees
       IN IF \/ ~Understood(class, row.expiry, strike, row.right)
             \/ lot <= 0 \/ tick <= 0
          THEN {}
          ELSE {[key |-> [underlying |-> row.underlying, class |-> class,
                          expiry |-> IF class \in Cash THEN NoDay ELSE row.expiry,
                          strike |-> IF class = "option" THEN strike ELSE None,
                          right  |-> IF class = "option" THEN row.right ELSE Blank],
                 exchange |-> row.exch, segment |-> row.segment,
                 securityId |-> row.sec, lot |-> lot, tick |-> tick]}

-------------------------------------------------------------------------------
\* core/symbology.py.

MaxPaise == 999999999             \* nine digits

\* Paise of a strike; {} where SymbolFormatError is raised.
StrikeToPaise(strike) ==
  IF strike % 2 # 0 \/ strike \div 2 > MaxPaise THEN {} ELSE {strike \div 2}

\* A cash name, or a name, a date and (for an option) a strike and a right.
ToSymbol(key) ==
  IF key.class \in Cash THEN {<<key.underlying>>}
  ELSE IF key.class = "future" THEN {<<key.underlying, key.expiry>>}
  ELSE {<<key.underlying, key.expiry, paise, key.right>> :
          paise \in StrikeToPaise(key.strike)}

ToInstrumentId(scrip) == {<<symbol, scrip.exchange>> : symbol \in ToSymbol(scrip.key)}

-------------------------------------------------------------------------------
\* dhan/providers.py: what the binary feed and the order API call a segment.

FeedSegments == {<<"NSE", "E", 1>>, <<"NSE", "D", 2>>, <<"NSE", "C", 3>>,
                 <<"NSE", "I", 0>>, <<"BSE", "E", 4>>, <<"BSE", "C", 7>>,
                 <<"BSE", "D", 8>>, <<"BSE", "I", 0>>, <<"MCX", "M", 5>>}
UnknownSegmentCode == -1

SegmentCodeFor(scrip) ==
  {s[3] : s \in {t \in FeedSegments : t[1] = scrip.exchange /\ t[2] = scrip.segment}}

\* The decimals a price needs, from its own tick (in ten-thousandths).
PricePrecisionFor(tick) ==
  IF tick % 100 = 0 THEN 2 ELSE IF tick % 10 = 0 THEN 3 ELSE 4

Grain(precision) == IF precision = 2 THEN 100 ELSE IF precision = 3 THEN 10 ELSE 1

\* The instrument that core/instruments.py builds, with the master's values
\* put over its defaults: one contract is one lot, the lot is the multiplier.
Build(scrip, id) ==
  LET precision == PricePrecisionFor(scrip.tick) IN
  [id |-> id, key |-> scrip.key,
   multiplier |-> IF scrip.key.class \in Cash THEN 1 ELSE scrip.lot,
   increment  |-> (scrip.tick \div Grain(precision)) * Grain(precision),
   code       |-> IF SegmentCodeFor(scrip) = {} THEN UnknownSegmentCode
                  ELSE CHOOSE c \in SegmentCodeFor(scrip) : TRUE]
===============================================================================
