------------------------- MODULE DhanProvider_proofs -------------------------
(***************************************************************************)
(* Proofs about DhanProvider: what a load leaves in the instruments and in *)
(* the two maps, from any master Dhan may serve, whatever was there before.*)
(***************************************************************************)
EXTENDS DhanProvider, Recursion_proofs

-------------------------------------------------------------------------------
\* One row of the master.

Classes == {"equity", "index", "future", "option"}

(* A row is one contract or none, and a contract has what its class needs.   *)
LEMMA ParsedRow ==
  ASSUME NEW row \in RawRow, NEW scrip \in ParseRow(row)
  PROVE  /\ ParseRow(row) = {scrip}
         /\ scrip.securityId = row.sec /\ scrip.exchange = row.exch
         /\ scrip.key = [underlying |-> scrip.key.underlying, class |-> scrip.key.class,
                         expiry |-> scrip.key.expiry, strike |-> scrip.key.strike,
                         right |-> scrip.key.right]
         /\ scrip.key.class \in Classes
         /\ scrip.key.expiry \in Int
         /\ scrip.lot \in Nat \ {0} /\ scrip.tick \in Nat \ {0}
         /\ IF scrip.key.class \in Cash THEN scrip.key.expiry = NoDay
            ELSE scrip.key.expiry # NoDay /\ scrip.lot = row.lot
         /\ IF scrip.key.class = "option"
            THEN scrip.key.strike \in Nat \ {0} /\ scrip.key.right \in Rights
            ELSE scrip.key.strike = None /\ scrip.key.right = Blank
         /\ scrip.key.class # "index" => row.tick >= 0 /\ scrip.tick = row.tick \div 100
<1> DEFINE class  == InstrumentClass[row.instrument]
           strike == ParseStrike(row.strike)
           lot    == IF class = "index" THEN OrElseDefault(row.lot, 1) ELSE row.lot
           rupees == IF row.tick < 0 THEN row.tick ELSE TickSizeRupees(row.tick)
           tick   == IF class = "index" THEN OrElseDefault(rupees, IndexTick) ELSE rupees
           expiry == IF class \in Cash THEN NoDay ELSE row.expiry
           key    == [underlying |-> row.underlying, class |-> class, expiry |-> expiry,
                      strike |-> IF class = "option" THEN strike ELSE None,
                      right  |-> IF class = "option" THEN row.right ELSE Blank]
<1>1. /\ row.expiry \in Int /\ row.strike \in Int /\ row.lot \in Int /\ row.tick \in Int
  BY DEF RawRow
<1>2. /\ row.instrument \in DOMAIN InstrumentClass
      /\ Understood(class, row.expiry, strike, row.right)
      /\ ~ (lot <= 0) /\ ~ (tick <= 0)
      /\ ParseRow(row) = {[key |-> key, exchange |-> row.exch, segment |-> row.segment,
                           securityId |-> row.sec, lot |-> lot, tick |-> tick]}
  BY DEF ParseRow
<1>3. class \in Classes
  BY <1>2 DEF InstrumentClass, Classes
<1>4. scrip = [key |-> key, exchange |-> row.exch, segment |-> row.segment,
               securityId |-> row.sec, lot |-> lot, tick |-> tick]
  BY <1>2
<1>5. rupees \in Int /\ (row.tick < 0 => rupees < 0)
      /\ (row.tick >= 0 => rupees = row.tick \div 100)
  BY <1>1 DEF TickSizeRupees, PaisePerRupee
<1>6. lot \in Int /\ tick \in Int  BY <1>1, <1>5 DEF OrElseDefault, IndexTick
<1>7. strike \in Nat /\ (strike # None => strike > 0)  BY <1>1 DEF ParseStrike, None
<1>8. /\ class \in {"option", "future"} => row.expiry # NoDay
      /\ class = "option" => strike # None /\ row.right \in Rights
  BY <1>2 DEF Understood
<1>9. class # "index" => row.tick >= 0 /\ tick = row.tick \div 100
  BY <1>1, <1>2, <1>5
<1>10. class \notin Cash => class # "index" /\ class \in {"option", "future"}
  BY <1>3 DEF Cash, Classes
<1> HIDE DEF class, strike, rupees, tick, lot
<1>11. /\ key.class = class /\ key.expiry = expiry /\ key.underlying = row.underlying
       /\ key.strike = (IF class = "option" THEN strike ELSE None)
       /\ key.right = (IF class = "option" THEN row.right ELSE Blank)
  OBVIOUS
<1>12. scrip.key = key /\ scrip.lot = lot /\ scrip.tick = tick
       /\ scrip.securityId = row.sec /\ scrip.exchange = row.exch
  BY <1>4
<1>13. ParseRow(row) = {scrip}  BY <1>2, <1>4
<1>14. expiry \in Int  BY <1>1 DEF NoDay
<1>15. lot \in Nat \ {0} /\ tick \in Nat \ {0}  BY <1>2, <1>6
<1>16. class \notin Cash => lot = row.lot  BY <1>10 DEF lot
<1>17. IF class \in Cash THEN expiry = NoDay ELSE expiry # NoDay  BY <1>8, <1>10
<1> HIDE DEF expiry
<1>18. key = [underlying |-> key.underlying, class |-> key.class, expiry |-> key.expiry,
              strike |-> key.strike, right |-> key.right]
  OBVIOUS
<1> HIDE DEF key
<1>19. QED
  BY <1>3, <1>7, <1>8, <1>9, <1>11, <1>12, <1>13, <1>14, <1>15, <1>16, <1>17, <1>18

(* A contract has one name or none.                                          *)
LEMMA NameIsOne ==
  ASSUME NEW scrip, NEW id \in ToInstrumentId(scrip)
  PROVE  ToInstrumentId(scrip) = {id}
<1>1. \A a, b \in StrikeToPaise(scrip.key.strike) : a = b  BY DEF StrikeToPaise
<1>2. \A a, b \in ToSymbol(scrip.key) : a = b
  <2>1. CASE scrip.key.class \in Cash  BY <2>1 DEF ToSymbol
  <2>2. CASE scrip.key.class \notin Cash /\ scrip.key.class = "future"
    BY <2>2 DEF ToSymbol
  <2>3. CASE scrip.key.class \notin Cash /\ scrip.key.class # "future"
    BY <1>1, <2>3 DEF ToSymbol
  <2>4. QED  BY <2>1, <2>2, <2>3
<1>3. \A a, b \in ToInstrumentId(scrip) : a = b  BY <1>2 DEF ToInstrumentId
<1>4. QED  BY <1>3

(* One name is one contract: what the symbol leaves out of a row is nothing  *)
(* that tells two contracts apart.                                           *)
LEMMA OneNameOneContract ==
  ASSUME NEW r \in RawRow, NEW s \in RawRow,
         NEW one \in ParseRow(r), NEW other \in ParseRow(s),
         NEW id \in ToInstrumentId(one), id \in ToInstrumentId(other)
  PROVE  other.exchange = one.exchange /\ Contract(other) = Contract(one)
<1> DEFINE k == one.key
           l == other.key
<1>1. /\ k = [underlying |-> k.underlying, class |-> k.class, expiry |-> k.expiry,
              strike |-> k.strike, right |-> k.right]
      /\ k.class \in Classes
      /\ k.class \in Cash => k.expiry = NoDay
      /\ IF k.class = "option" THEN k.strike \in Nat
         ELSE k.strike = None /\ k.right = Blank
  BY ParsedRow
<1>2. /\ l = [underlying |-> l.underlying, class |-> l.class, expiry |-> l.expiry,
              strike |-> l.strike, right |-> l.right]
      /\ l.class \in Classes
      /\ l.class \in Cash => l.expiry = NoDay
      /\ IF l.class = "option" THEN l.strike \in Nat
         ELSE l.strike = None /\ l.right = Blank
  BY ParsedRow
<1>3. PICK x \in ToSymbol(k) : id = <<x, one.exchange>>  BY DEF ToInstrumentId
<1>4. PICK y \in ToSymbol(l) : id = <<y, other.exchange>>  BY DEF ToInstrumentId
<1>5. x = y /\ one.exchange = other.exchange  BY <1>3, <1>4
<1> HIDE DEF k, l
<1>6. \/ k.class \in Cash /\ x = <<k.underlying>>
      \/ k.class = "future" /\ x = <<k.underlying, k.expiry>>
      \/ k.class = "option" /\ \E p \in StrikeToPaise(k.strike) :
                                 x = <<k.underlying, k.expiry, p, k.right>>
  BY <1>1, <1>3 DEF ToSymbol, Classes, Cash
<1>7. \/ l.class \in Cash /\ y = <<l.underlying>>
      \/ l.class = "future" /\ y = <<l.underlying, l.expiry>>
      \/ l.class = "option" /\ \E p \in StrikeToPaise(l.strike) :
                                 y = <<l.underlying, l.expiry, p, l.right>>
  BY <1>2, <1>4 DEF ToSymbol, Classes, Cash
<1> DEFINE Same == /\ k.underlying = l.underlying /\ k.expiry = l.expiry
                   /\ k.strike = l.strike /\ k.right = l.right
                   /\ k.class = l.class \/ (k.class \in Cash /\ l.class \in Cash)
                   /\ k.class \in Cash <=> l.class \in Cash
<1>8. Same
  <2>1. CASE k.class \in Cash /\ x = <<k.underlying>>
    <3>1. l.class \in Cash /\ k.underlying = l.underlying  BY <1>5, <1>7, <2>1
    <3>2. QED  BY <1>1, <1>2, <2>1, <3>1 DEF Cash
  <2>2. CASE k.class = "future" /\ x = <<k.underlying, k.expiry>>
    <3>1. l.class = "future" /\ k.underlying = l.underlying /\ k.expiry = l.expiry
      BY <1>5, <1>7, <2>2
    <3>2. QED  BY <1>1, <1>2, <2>2, <3>1 DEF Cash
  <2>3. CASE k.class = "option" /\ \E p \in StrikeToPaise(k.strike) :
                                     x = <<k.underlying, k.expiry, p, k.right>>
    <3>1. PICK p \in StrikeToPaise(k.strike) : x = <<k.underlying, k.expiry, p, k.right>>
      BY <2>3
    <3>2. /\ l.class = "option" /\ k.underlying = l.underlying /\ k.expiry = l.expiry
          /\ k.right = l.right /\ p \in StrikeToPaise(l.strike)
      BY <1>5, <1>7, <3>1
    <3>3. k.strike = l.strike
      <4>1. k.strike \in Nat /\ l.strike \in Nat  BY <1>1, <1>2, <2>3, <3>2
      <4>2. /\ k.strike % 2 = 0 /\ l.strike % 2 = 0
            /\ k.strike \div 2 = p /\ l.strike \div 2 = p
        BY <3>1, <3>2 DEF StrikeToPaise
      <4>3. QED  BY <4>1, <4>2
    <3>4. QED  BY <2>3, <3>2, <3>3 DEF Cash
  <2>4. QED  BY <1>6, <2>1, <2>2, <2>3
<1>9. Contract(one) = [k EXCEPT !.class = IF k.class \in Cash THEN "cash" ELSE k.class]
  BY DEF Contract, k
<1>10. Contract(other) = [l EXCEPT !.class = IF l.class \in Cash THEN "cash" ELSE l.class]
  BY DEF Contract, l
<1>11. Contract(one) = Contract(other)
  <2>1. Contract(one) = [underlying |-> k.underlying,
                         class |-> IF k.class \in Cash THEN "cash" ELSE k.class,
                         expiry |-> k.expiry, strike |-> k.strike, right |-> k.right]
    BY <1>1, <1>9
  <2>2. Contract(other) = [underlying |-> l.underlying,
                           class |-> IF l.class \in Cash THEN "cash" ELSE l.class,
                           expiry |-> l.expiry, strike |-> l.strike, right |-> l.right]
    BY <1>2, <1>10
  <2>3. (IF k.class \in Cash THEN "cash" ELSE k.class)
          = (IF l.class \in Cash THEN "cash" ELSE l.class)
    BY <1>8
  <2> HIDE DEF Same
  <2>4. QED  BY <1>8, <2>1, <2>2, <2>3 DEF Same
<1>12. QED  BY <1>5, <1>11

(* An instrument takes its name, its contract, its exact tick and its lot    *)
(* from the row; a segment the feed does not know leaves it without a code.  *)
LEMMA BuiltInstrument ==
  ASSUME NEW row \in RawRow, NEW scrip \in ParseRow(row), NEW id
  PROVE  LET built == Build(scrip, id) IN
         /\ built.id = id /\ built.key = scrip.key
         /\ built.multiplier = (IF scrip.key.class \in Cash THEN 1 ELSE scrip.lot)
         /\ built.increment = scrip.tick
         /\ SegmentCodeFor(scrip) = {} => built.code = UnknownSegmentCode
         /\ SegmentCodeFor(scrip) # {} => /\ built.code \in SegmentCodeFor(scrip)
                                          /\ built.code # UnknownSegmentCode
<1> DEFINE tick == scrip.tick
           grain == Grain(PricePrecisionFor(tick))
           codes == SegmentCodeFor(scrip)
<1>1. tick \in Nat \ {0}  BY ParsedRow
<1>2. (tick \div grain) * grain = tick
  <2> HIDE DEF tick
  <2>1. CASE tick % 100 = 0
    <3>1. grain = 100  BY <2>1 DEF PricePrecisionFor, Grain
    <3>2. QED  BY <1>1, <2>1, <3>1
  <2>2. CASE tick % 100 # 0 /\ tick % 10 = 0
    <3>1. grain = 10  BY <2>2 DEF PricePrecisionFor, Grain
    <3>2. QED  BY <1>1, <2>2, <3>1
  <2>3. CASE tick % 100 # 0 /\ tick % 10 # 0
    <3>1. grain = 1  BY <2>3 DEF PricePrecisionFor, Grain
    <3>2. QED  BY <1>1, <3>1
  <2>4. QED  BY <2>1, <2>2, <2>3
<1>3. \A c \in codes : c # UnknownSegmentCode
  <2>1. \A s \in FeedSegments : s[3] \in Nat  BY DEF FeedSegments
  <2>2. \A c \in codes : c \in Nat  BY <2>1 DEF SegmentCodeFor
  <2>3. UnknownSegmentCode \notin Nat  BY DEF UnknownSegmentCode
  <2>4. QED  BY <2>2, <2>3
<1>4. codes # {} => (CHOOSE c \in codes : TRUE) \in codes  OBVIOUS
<1>5. /\ Build(scrip, id).id = id /\ Build(scrip, id).key = scrip.key
      /\ Build(scrip, id).multiplier = (IF scrip.key.class \in Cash THEN 1 ELSE scrip.lot)
      /\ Build(scrip, id).increment = (tick \div grain) * grain
      /\ Build(scrip, id).code = IF codes = {} THEN UnknownSegmentCode
                                 ELSE CHOOSE c \in codes : TRUE
  <2> HIDE DEF codes
  <2> QED  BY DEF Build, codes
<1> HIDE DEF codes, grain
<1>6. QED  BY <1>2, <1>3, <1>4, <1>5 DEF codes

-------------------------------------------------------------------------------
\* The loop over the rows.

IsState(p) == p = [instruments |-> p.instruments, securityIds |-> p.securityIds,
                   bySecurity |-> p.bySecurity, raised |-> p.raised]

\* What the loop makes of one row: nothing, a raise, or one more contract.
Skips(p, q, wanted) == q = p /\ (p.raised \/ wanted = {})
Raises(p, q, wanted) ==
  /\ q = [p EXCEPT !.raised = TRUE]
  /\ \E scrip \in wanted : ToInstrumentId(scrip) = {}
Adds(p, q, wanted) ==
  /\ ~p.raised
  /\ \E scrip \in wanted : \E id \in ToInstrumentId(scrip) : q = Add(p, scrip, id)

(* One turn of the loop does one of these.                                   *)
LEMMA LoadRowCases ==
  ASSUME NEW p, NEW row \in RawRow, NEW today, NEW filters,
         NEW wanted, wanted = Wanted(row, today, filters)
  PROVE  LET q == LoadRow(p, row, today, filters)
         IN Skips(p, q, wanted) \/ Raises(p, q, wanted) \/ Adds(p, q, wanted)
<1> DEFINE ids == UNION {ToInstrumentId(scrip) : scrip \in wanted}
           q == LoadRow(p, row, today, filters)
<1>1. q = IF p.raised \/ wanted = {} THEN p
          ELSE IF ids = {} THEN [p EXCEPT !.raised = TRUE]
          ELSE Add(p, CHOOSE scrip \in wanted : TRUE, CHOOSE id \in ids : TRUE)
  BY DEF LoadRow
<1>2. \A scrip \in wanted : wanted = {scrip} /\ ids = ToInstrumentId(scrip)
  <2>1. SUFFICES ASSUME NEW scrip \in wanted
                 PROVE  wanted = {scrip} /\ ids = ToInstrumentId(scrip)
    OBVIOUS
  <2>2. scrip \in ParseRow(row)  BY DEF Wanted
  <2>3. ParseRow(row) = {scrip}  BY <2>2, ParsedRow
  <2>4. wanted = {scrip}  BY <2>3 DEF Wanted
  <2>5. QED  BY <2>4
<1>3. CASE p.raised \/ wanted = {}  BY <1>1, <1>3 DEF Skips
<1>4. CASE ~p.raised /\ wanted # {}
  <2>1. PICK scrip \in wanted : TRUE  BY <1>4
  <2>2. (CHOOSE s \in wanted : TRUE) = scrip
    <3>1. (CHOOSE s \in {scrip} : TRUE) = scrip  OBVIOUS
    <3>2. wanted = {scrip}  BY <1>2
    <3>3. QED  BY <3>1, <3>2
  <2>3. ids = ToInstrumentId(scrip)  BY <1>2
  <2> HIDE DEF ids, q
  <2>4. CASE ids = {}
    <3>1. q = [p EXCEPT !.raised = TRUE]  BY <1>1, <1>4, <2>4
    <3>2. QED  BY <2>3, <2>4, <3>1 DEF Raises, q
  <2>5. CASE ids # {}
    <3> DEFINE id == CHOOSE i \in ids : TRUE
    <3>1. id \in ToInstrumentId(scrip)  BY <2>3, <2>5
    <3>2. q = Add(p, scrip, id)  BY <1>1, <1>4, <2>2, <2>5
    <3> HIDE DEF id
    <3>3. QED  BY <1>4, <3>1, <3>2 DEF Adds, q
  <2>6. QED  BY <2>4, <2>5
<1>5. QED  BY <1>3, <1>4

\* What a contract added leaves in the three maps.
Wrote(p, q, scrip, id) ==
  /\ q.raised = p.raised
  /\ q.instruments = Put(p.instruments, id, Build(scrip, id))
  /\ q.securityIds = Put(p.securityIds, id, scrip.securityId)
  /\ SegmentCodeFor(scrip) = {} => q.bySecurity = p.bySecurity
  /\ SegmentCodeFor(scrip) # {} =>
       q.bySecurity = Put(p.bySecurity, <<scrip.securityId, Build(scrip, id).code>>, id)

(* One entry of each, and nothing else.                                      *)
LEMMA AddWrites ==
  ASSUME NEW p, IsState(p), NEW scrip, NEW id
  PROVE  IsState(Add(p, scrip, id)) /\ Wrote(p, Add(p, scrip, id), scrip, id)
<1> DEFINE i == Put(p.instruments, id, Build(scrip, id))
           s == Put(p.securityIds, id, scrip.securityId)
           b == IF SegmentCodeFor(scrip) = {} THEN p.bySecurity
                ELSE Put(p.bySecurity, <<scrip.securityId, Build(scrip, id).code>>, id)
           q == Add(p, scrip, id)
<1>1. q = [p EXCEPT !.instruments = i, !.securityIds = s, !.bySecurity = b]
  BY DEF Add, IsState
<1> HIDE DEF i, s, b, q
<1>2. q = [instruments |-> i, securityIds |-> s, bySecurity |-> b, raised |-> p.raised]
  BY <1>1 DEF IsState
<1>3. q.instruments = i /\ q.securityIds = s /\ q.bySecurity = b /\ q.raised = p.raised
  BY <1>2
<1>4. IsState(q)  BY <1>2 DEF IsState
<1>5. QED  BY <1>3, <1>4 DEF Wrote, i, s, b, q

(* The recursion of LoadFile is a loop over the rows.                        *)
LEMMA LoadFileLoop ==
  ASSUME NEW p, NEW file, Len(file) \in Nat, NEW today, NEW filters
  PROVE  \E after : /\ LoadFile(p, file, today, filters) = after[Len(file)]
                    /\ after[0] = p
                    /\ \A n \in 1 .. Len(file) :
                         after[n] = LoadRow(after[n - 1], file[n], today, filters)
<1> DEFINE N == Len(file)
           turn(q, n) == LoadRow(q, file[n], today, filters)
           Is(f) == f = [n \in 0 .. N |-> IF n = 0 THEN p ELSE turn(f[n - 1], n)]
           Obeys(g, m) == g[0] = p /\ \A n \in 1 .. m : g[n] = turn(g[n - 1], n)
           Exists(m) == \E g : Obeys(g, m)
           T == {m \in 0 .. N : Exists(m)}
<1>1. N \in Nat  OBVIOUS
<1> HIDE DEF N, turn
<1>2. 0 \in T
  <2> DEFINE g == [n \in {0} |-> p]
  <2>1. Obeys(g, 0)  OBVIOUS
  <2>2. Exists(0)
    <3> HIDE DEF g, Obeys
    <3> QED  BY <2>1
  <2>3. QED  BY <1>1, <2>2
<1>3. \A m \in 0 .. N - 1 : m \in T => m + 1 \in T
  <2>1. SUFFICES ASSUME NEW m \in 0 .. N - 1, m \in T PROVE m + 1 \in T  OBVIOUS
  <2>2. PICK g : Obeys(g, m)  BY <2>1
  <2> DEFINE h == [n \in 0 .. m + 1 |-> IF n <= m THEN g[n] ELSE turn(g[m], m + 1)]
  <2>3. h[0] = p  BY <1>1, <2>2
  <2>4. ASSUME NEW n \in 1 .. m + 1 PROVE h[n] = turn(h[n - 1], n)
    <3>1. n - 1 \in 0 .. m + 1 /\ n - 1 <= m /\ n \in 0 .. m + 1  BY <1>1
    <3>2. h[n - 1] = g[n - 1]  BY <3>1
    <3>3. CASE n <= m
      <4>1. h[n] = g[n] /\ n \in 1 .. m  BY <1>1, <3>1, <3>3
      <4>2. QED  BY <2>2, <3>2, <4>1
    <3>4. CASE ~ (n <= m)
      <4>1. n = m + 1 /\ n - 1 = m  BY <1>1, <3>4
      <4>2. h[n] = turn(g[m], n)  BY <3>1, <3>4, <4>1
      <4>3. QED  BY <3>2, <4>1, <4>2
    <3>5. QED  BY <3>3, <3>4
  <2>5. Obeys(h, m + 1)
    <3> HIDE DEF h
    <3> QED  BY <2>3, <2>4
  <2>6. Exists(m + 1)
    <3> HIDE DEF h, Obeys
    <3> QED  BY <2>5
  <2>7. m + 1 \in 0 .. N  BY <1>1
  <2>8. QED  BY <2>6, <2>7
<1>4. 0 .. N \subseteq T
  <2> HIDE DEF T
  <2> QED  BY <1>1, <1>2, <1>3, UpwardInduction
<1>5. PICK g : Obeys(g, N)
  <2>1. N \in T
    <3> HIDE DEF T
    <3> QED  BY <1>1, <1>4
  <2>2. QED  BY <2>1
<1>6. \E f : Is(f)
  <2> DEFINE f == [n \in 0 .. N |-> g[n]]
  <2>1. \A n \in 0 .. N : g[n] = IF n = 0 THEN p ELSE turn(f[n - 1], n)
    <3>1. SUFFICES ASSUME NEW n \in 0 .. N, n # 0 PROVE g[n] = turn(f[n - 1], n)
      BY <1>5
    <3>2. n \in 1 .. N /\ n - 1 \in 0 .. N  BY <1>1, <3>1
    <3>3. f[n - 1] = g[n - 1]  BY <3>2
    <3> HIDE DEF f
    <3>4. QED  BY <1>5, <3>2, <3>3
  <2>2. f = [n \in 0 .. N |-> IF n = 0 THEN p ELSE turn(f[n - 1], n)]  BY <2>1
  <2>3. Is(f)  BY <2>2
  <2>4. QED
    <3> HIDE DEF f, Is
    <3> QED  BY <2>3
<1> DEFINE after == CHOOSE f : Is(f)
<1>7. Is(after)
  <2> HIDE DEF Is
  <2> QED  BY <1>6
<1>8. LoadFile(p, file, today, filters) = after[N]
  BY Zenon DEF LoadFile, turn, N
<1>9. after = [n \in 0 .. N |-> IF n = 0 THEN p ELSE turn(after[n - 1], n)]  BY <1>7
<1> HIDE DEF after, Is
<1>10. after[0] = p  BY <1>1, <1>9
<1>11. \A n \in 1 .. N : after[n] = turn(after[n - 1], n)
  <2>1. \A n \in 1 .. N : n \in 0 .. N /\ n # 0  BY <1>1
  <2>2. QED  BY <1>9, <2>1
<1>12. QED  BY <1>8, <1>10, <1>11 DEF N, turn

-------------------------------------------------------------------------------
\* Soundness of the three maps, which every row keeps.

Gone(instrument, day) ==
  instrument.key.expiry # NoDay /\ instrument.key.expiry < day

\* The rows Dhan may serve, in whatever file.
MasterRows == UNION {{file[i] : i \in DOMAIN file} : file \in Files}

StandsFor(p, id, day, row, scrip) ==
  /\ row.listed <= day
  /\ id \in ToInstrumentId(scrip)
  /\ p.instruments[id] = Build(scrip, id)
  /\ p.securityIds[id] = scrip.securityId

\* An id stands for one row that the exchange had listed by that day.
Bears(p, id, day) ==
  \E row \in MasterRows : \E scrip \in ParseRow(row) : StandsFor(p, id, day, row, scrip)

\* Its frames are its own, or a later contract's once it is dead.
Routed(p, id, day) ==
  LET address == <<p.securityIds[id], p.instruments[id].code>> IN
  p.instruments[id].code # UnknownSegmentCode =>
    /\ address \in DOMAIN p.bySecurity
    /\ p.bySecurity[address] = id \/ Gone(p.instruments[id], day)

Sound(p, day) ==
  /\ DOMAIN p.securityIds = DOMAIN p.instruments
  /\ \A address \in DOMAIN p.bySecurity :
       p.bySecurity[address] \in DOMAIN p.instruments
  /\ \A id \in DOMAIN p.instruments : Bears(p, id, day) /\ Routed(p, id, day)

Listed(file, day) == \A i \in DOMAIN file : file[i].listed <= day

(* What is assumed of the files, said of their rows.                         *)
LEMMA RowsAreRaw ==
  ASSUME NEW row \in MasterRows
  PROVE  /\ row \in RawRow /\ row.listed \in Int
         /\ row.tick % PaisePerRupee = 0 \/ row.tick < 0
<1>1. PICK file \in Files : \E i \in DOMAIN file : row = file[i]  BY DEF MasterRows
<1>2. PICK i \in DOMAIN file : row = file[i]  BY <1>1
<1>3. row \in RawRow  BY <1>2, FilesAssumption
<1>4. QED  BY <1>2, <1>3, FilesAssumption DEF RawRow

LEMMA IdsOfRows ==
  ASSUME NEW one \in MasterRows, NEW other \in MasterRows,
         NEW r \in ParseRow(one), NEW s \in ParseRow(other),
         r.securityId = s.securityId, SegmentCodeFor(r) \cap SegmentCodeFor(s) # {},
         ToInstrumentId(r) # ToInstrumentId(s)
  PROVE  DeadBefore(r, other.listed) \/ DeadBefore(s, one.listed)
<1>1. PICK f \in Files : \E i \in DOMAIN f : one = f[i]  BY DEF MasterRows
<1>2. PICK i \in DOMAIN f : one = f[i]  BY <1>1
<1>3. PICK g \in Files : \E j \in DOMAIN g : other = g[j]  BY DEF MasterRows
<1>4. PICK j \in DOMAIN g : other = g[j]  BY <1>3
<1>5. QED  BY <1>2, <1>4, IdsAreReusedLate

(* A map's entry for another id stays, and what it stands for with it.       *)
LEMMA BearsDependsOnItsEntries ==
  ASSUME NEW p, NEW q, NEW id, NEW day,
         q.instruments[id] = p.instruments[id], q.securityIds[id] = p.securityIds[id],
         Bears(p, id, day)
  PROVE  Bears(q, id, day)
BY DEF Bears, StandsFor

(* Two live contracts never share the address of an order: a row that takes  *)
(* an address over takes it from a contract that is dead.                    *)
LEMMA TakenFromTheDead ==
  ASSUME NEW row \in MasterRows, NEW scrip \in ParseRow(row),
         NEW day \in Int, NEW today \in Int, today >= day - 1,
         row.listed <= day, Alive(scrip, today),
         NEW id \in ToInstrumentId(scrip),
         NEW p, NEW held, Bears(p, held, day), held # id,
         p.instruments[held].code # UnknownSegmentCode,
         SegmentCodeFor(scrip) # {},
         <<scrip.securityId, Build(scrip, id).code>>
           = <<p.securityIds[held], p.instruments[held].code>>
  PROVE  Gone(p.instruments[held], day)
<1>1. PICK other \in MasterRows : \E s \in ParseRow(other) : StandsFor(p, held, day, other, s)
  BY DEF Bears
<1>2. PICK s \in ParseRow(other) : StandsFor(p, held, day, other, s)  BY <1>1
<1>3. /\ other.listed <= day /\ held \in ToInstrumentId(s)
      /\ p.instruments[held] = Build(s, held) /\ p.securityIds[held] = s.securityId
  BY <1>2 DEF StandsFor
<1>4. /\ row \in RawRow /\ other \in RawRow
      /\ row.listed \in Int /\ other.listed \in Int
  BY RowsAreRaw
<1>5. scrip.key.expiry \in Int /\ s.key.expiry \in Int  BY <1>4, ParsedRow
<1>6. Build(scrip, id).code \in SegmentCodeFor(scrip)  BY <1>4, BuiltInstrument
<1>7. SegmentCodeFor(s) # {}  BY <1>3, <1>4, BuiltInstrument
<1>8. Build(s, held).code \in SegmentCodeFor(s) /\ Build(s, held).key = s.key
  BY <1>4, <1>7, BuiltInstrument
<1>9. scrip.securityId = s.securityId /\ SegmentCodeFor(scrip) \cap SegmentCodeFor(s) # {}
  BY <1>3, <1>6, <1>8
<1>10. ToInstrumentId(scrip) # ToInstrumentId(s)
  <2>1. ToInstrumentId(scrip) = {id} /\ ToInstrumentId(s) = {held}
    BY <1>3, NameIsOne
  <2>2. QED  BY <2>1
<1>11. DeadBefore(scrip, other.listed) \/ DeadBefore(s, row.listed)
  BY <1>9, <1>10, IdsOfRows
<1>12. ~DeadBefore(scrip, other.listed)
  <2>1. scrip.key.expiry = NoDay \/ scrip.key.expiry >= today  BY DEF Alive
  <2>2. QED  BY <1>3, <1>4, <1>5, <2>1 DEF DeadBefore
<1>13. s.key.expiry # NoDay /\ s.key.expiry < day
  BY <1>4, <1>5, <1>11, <1>12 DEF DeadBefore
<1>14. QED  BY <1>3, <1>8, <1>13 DEF Gone

(* A live contract added keeps the maps sound.                               *)
LEMMA AddKeepsSound ==
  ASSUME NEW p, IsState(p), NEW day \in Int, Sound(p, day),
         NEW row \in MasterRows, NEW scrip \in ParseRow(row), row.listed <= day,
         NEW today \in Int, today >= day - 1, Alive(scrip, today),
         NEW id \in ToInstrumentId(scrip)
  PROVE  Sound(Add(p, scrip, id), day)
<1> DEFINE q == Add(p, scrip, id)
           built == Build(scrip, id)
           address == <<scrip.securityId, built.code>>
           known == SegmentCodeFor(scrip) # {}
<1>1. /\ q.instruments = Put(p.instruments, id, built)
      /\ q.securityIds = Put(p.securityIds, id, scrip.securityId)
      /\ known => q.bySecurity = Put(p.bySecurity, address, id)
      /\ ~known => q.bySecurity = p.bySecurity
  <2>1. Wrote(p, q, scrip, id)  BY AddWrites
  <2>2. QED  BY <2>1 DEF Wrote
<1>2. /\ ~known => built.code = UnknownSegmentCode
      /\ known => built.code # UnknownSegmentCode
  BY RowsAreRaw, BuiltInstrument
<1> HIDE DEF q, built, known, address
<1>3. /\ DOMAIN q.instruments = {id} \cup DOMAIN p.instruments
      /\ q.instruments[id] = built
      /\ \A k \in DOMAIN p.instruments : k # id => q.instruments[k] = p.instruments[k]
  BY <1>1 DEF Put
<1>4. /\ DOMAIN q.securityIds = {id} \cup DOMAIN p.securityIds
      /\ q.securityIds[id] = scrip.securityId
      /\ \A k \in DOMAIN p.securityIds : k # id => q.securityIds[k] = p.securityIds[k]
  BY <1>1 DEF Put
<1>5. known => /\ DOMAIN q.bySecurity = {address} \cup DOMAIN p.bySecurity
               /\ q.bySecurity[address] = id
               /\ \A a \in DOMAIN p.bySecurity :
                    a # address => q.bySecurity[a] = p.bySecurity[a]
  BY <1>1 DEF Put
<1>6. DOMAIN q.securityIds = DOMAIN q.instruments  BY <1>3, <1>4 DEF Sound
<1>7. \A a \in DOMAIN q.bySecurity : q.bySecurity[a] \in DOMAIN q.instruments
  <2>1. CASE known  BY <1>3, <1>5, <2>1 DEF Sound
  <2>2. CASE ~known  BY <1>1, <1>3, <2>2 DEF Sound
  <2>3. QED  BY <2>1, <2>2
<1>8. Bears(q, id, day) /\ Routed(q, id, day)
  <2>1. Bears(q, id, day)  BY <1>3, <1>4 DEF Bears, StandsFor, built
  <2>2. Routed(q, id, day)  BY <1>2, <1>3, <1>4, <1>5 DEF Routed, address
  <2>3. QED  BY <2>1, <2>2
<1>9. ASSUME NEW k \in DOMAIN q.instruments, k # id
      PROVE  Bears(q, k, day) /\ Routed(q, k, day)
  <2>1. k \in DOMAIN p.instruments /\ k \in DOMAIN p.securityIds
    BY <1>3, <1>9 DEF Sound
  <2>2. Bears(p, k, day) /\ Routed(p, k, day)  BY <2>1 DEF Sound
  <2>3. q.instruments[k] = p.instruments[k] /\ q.securityIds[k] = p.securityIds[k]
    BY <1>3, <1>4, <1>9, <2>1
  <2>4. Bears(q, k, day)  BY <2>2, <2>3, BearsDependsOnItsEntries
  <2>5. Routed(q, k, day)
    <3> DEFINE own == <<p.securityIds[k], p.instruments[k].code>>
    <3>1. SUFFICES ASSUME p.instruments[k].code # UnknownSegmentCode
                   PROVE  /\ own \in DOMAIN q.bySecurity
                          /\ q.bySecurity[own] = k \/ Gone(p.instruments[k], day)
      BY <2>3 DEF Routed
    <3>2. own \in DOMAIN p.bySecurity /\
          (p.bySecurity[own] = k \/ Gone(p.instruments[k], day))
      BY <2>2, <3>1 DEF Routed
    <3>3. CASE known /\ own = address
      <4>1. Gone(p.instruments[k], day)
        BY <1>9, <2>2, <3>1, <3>3, TakenFromTheDead DEF known, address, built
      <4>2. QED  BY <1>5, <3>3, <4>1
    <3> HIDE DEF own
    <3>4. CASE known /\ own # address  BY <1>5, <3>2, <3>4
    <3>5. CASE ~known  BY <1>1, <3>2, <3>5
    <3>6. QED  BY <3>3, <3>4, <3>5
  <2>6. QED  BY <2>4, <2>5
<1>10. QED  BY <1>6, <1>7, <1>8, <1>9 DEF Sound, q

(* A later day changes nothing but who is dead.                              *)
LEMMA SoundLater ==
  ASSUME NEW p, NEW day \in Int, NEW later \in Int, day <= later, Sound(p, day)
  PROVE  Sound(p, later)
<1>1. ASSUME NEW id \in DOMAIN p.instruments
      PROVE  Bears(p, id, later) /\ Routed(p, id, later)
  <2>1. Bears(p, id, day) /\ Routed(p, id, day)  BY DEF Sound
  <2>2. PICK row \in MasterRows : \E scrip \in ParseRow(row) :
               StandsFor(p, id, day, row, scrip)
    BY <2>1 DEF Bears
  <2>3. PICK scrip \in ParseRow(row) : StandsFor(p, id, day, row, scrip)  BY <2>2
  <2>4. row \in RawRow /\ row.listed \in Int  BY RowsAreRaw
  <2>5. StandsFor(p, id, later, row, scrip)  BY <2>3, <2>4 DEF StandsFor
  <2>6. Bears(p, id, later)  BY <2>5 DEF Bears
  <2>7. p.instruments[id].key.expiry \in Int
    <3>1. scrip.key.expiry \in Int  BY <2>4, ParsedRow
    <3>2. Build(scrip, id).key = scrip.key  BY <2>4, BuiltInstrument
    <3>3. QED  BY <2>3, <3>1, <3>2 DEF StandsFor
  <2>8. Gone(p.instruments[id], day) => Gone(p.instruments[id], later)
    BY <2>7 DEF Gone
  <2>9. Routed(p, id, later)  BY <2>1, <2>8 DEF Routed
  <2>10. QED  BY <2>6, <2>9
<1>2. QED  BY <1>1 DEF Sound

(* Soundness is about the maps, not about whether a load raised.             *)
LEMMA SoundMaps ==
  ASSUME NEW p, NEW q, NEW day, Sound(p, day),
         q.instruments = p.instruments, q.securityIds = p.securityIds,
         q.bySecurity = p.bySecurity
  PROVE  Sound(q, day)
<1>1. ASSUME NEW id \in DOMAIN q.instruments
      PROVE  Bears(q, id, day) /\ Routed(q, id, day)
  <2>1. Bears(p, id, day) /\ Routed(p, id, day)  BY DEF Sound
  <2>2. Bears(q, id, day)  BY <2>1, BearsDependsOnItsEntries
  <2>3. Routed(q, id, day)  BY <2>1 DEF Routed
  <2>4. QED  BY <2>2, <2>3
<1>2. QED  BY <1>1 DEF Sound

-------------------------------------------------------------------------------
\* One turn of the loop, and all of them.

SameContract(scrip, other) ==
  other.exchange = scrip.exchange /\ Contract(other) = Contract(scrip)

\* One of the rows i + 1 .. n is of this contract.
ListedAgain(file, i, n, today, filters, scrip) ==
  \E j \in i + 1 .. n : \E s \in Wanted(file[j], today, filters) : SameContract(scrip, s)

\* An id holds the values of this row.
Holds(q, row, scrip, id) ==
  /\ id \in DOMAIN q.instruments /\ id \in DOMAIN q.securityIds
  /\ q.instruments[id].key = scrip.key
  /\ q.securityIds[id] = row.sec
  /\ scrip.key.class # "index" => q.instruments[id].increment * PaisePerRupee = row.tick
  /\ scrip.key.class \notin Cash => q.instruments[id].multiplier = row.lot

HeldBySome(q, row, scrip) == \E id \in ToInstrumentId(scrip) : Holds(q, row, scrip, id)

\* The first n rows are offered as they list their contracts.
Offers(q, file, n, today, filters) ==
  \A i \in 1 .. n : \A scrip \in Wanted(file[i], today, filters) :
    ListedAgain(file, i, n, today, filters, scrip) \/ HeldBySome(q, file[i], scrip)

(* A raise leaves the maps as they are.                                      *)
LEMMA RaiseKeepsMaps ==
  ASSUME NEW p, IsState(p), NEW wanted, NEW q, Raises(p, q, wanted)
  PROVE  /\ IsState(q) /\ q.raised
         /\ q.instruments = p.instruments /\ q.securityIds = p.securityIds
         /\ q.bySecurity = p.bySecurity
<1>1. q = [instruments |-> p.instruments, securityIds |-> p.securityIds,
           bySecurity |-> p.bySecurity, raised |-> TRUE]
  BY DEF Raises, IsState
<1>2. q.instruments = p.instruments /\ q.securityIds = p.securityIds
      /\ q.bySecurity = p.bySecurity /\ q.raised = TRUE
  BY <1>1
<1>3. IsState(q)  BY <1>1, <1>2 DEF IsState
<1>4. QED  BY <1>2, <1>3

(* A turn keeps the maps sound.                                              *)
LEMMA TurnKeepsSound ==
  ASSUME NEW p, IsState(p), NEW day \in Int, Sound(p, day),
         NEW row \in MasterRows, row.listed <= day,
         NEW today \in Int, today >= day - 1, NEW filters
  PROVE  /\ IsState(LoadRow(p, row, today, filters))
         /\ Sound(LoadRow(p, row, today, filters), day)
<1> DEFINE q == LoadRow(p, row, today, filters)
           wanted == Wanted(row, today, filters)
<1>1. row \in RawRow  BY RowsAreRaw
<1>2. Skips(p, q, wanted) \/ Raises(p, q, wanted) \/ Adds(p, q, wanted)
  BY <1>1, LoadRowCases
<1>3. \A scrip \in wanted : scrip \in ParseRow(row) /\ Alive(scrip, today)
  BY DEF Wanted
<1> HIDE DEF q, wanted
<1>4. CASE Skips(p, q, wanted)  BY <1>4 DEF Skips, q
<1>5. CASE Raises(p, q, wanted)  BY <1>5, RaiseKeepsMaps, SoundMaps DEF q
<1>6. CASE Adds(p, q, wanted)
  <2>1. PICK scrip \in wanted : \E id \in ToInstrumentId(scrip) : q = Add(p, scrip, id)
    BY <1>6 DEF Adds
  <2>2. PICK id \in ToInstrumentId(scrip) : q = Add(p, scrip, id)  BY <2>1
  <2>3. Sound(q, day)  BY <1>3, <2>2, AddKeepsSound
  <2>4. IsState(q)  BY <2>2, AddWrites
  <2>5. QED  BY <2>3, <2>4 DEF q
<1>7. QED  BY <1>2, <1>4, <1>5, <1>6

(* A row that is added is held as it lists its contract.                     *)
LEMMA AddedIsHeld ==
  ASSUME NEW p, IsState(p), NEW row \in MasterRows, NEW scrip \in ParseRow(row),
         NEW id \in ToInstrumentId(scrip)
  PROVE  Holds(Add(p, scrip, id), row, scrip, id)
<1> DEFINE q == Add(p, scrip, id)
           built == Build(scrip, id)
<1>1. /\ q.instruments = Put(p.instruments, id, built)
      /\ q.securityIds = Put(p.securityIds, id, scrip.securityId)
  <2>1. Wrote(p, q, scrip, id)  BY AddWrites
  <2>2. QED  BY <2>1 DEF Wrote
<1>2. row \in RawRow /\ (row.tick % PaisePerRupee = 0 \/ row.tick < 0) /\ row.tick \in Int
  BY RowsAreRaw DEF RawRow
<1>3. /\ scrip.securityId = row.sec
      /\ scrip.key.class # "index" => row.tick >= 0 /\ scrip.tick = row.tick \div 100
      /\ scrip.key.class \notin Cash => scrip.lot = row.lot
  BY <1>2, ParsedRow
<1>4. /\ built.key = scrip.key /\ built.increment = scrip.tick
      /\ built.multiplier = (IF scrip.key.class \in Cash THEN 1 ELSE scrip.lot)
  BY <1>2, BuiltInstrument
<1> HIDE DEF q, built
<1>5. id \in DOMAIN q.instruments /\ q.instruments[id] = built
      /\ id \in DOMAIN q.securityIds /\ q.securityIds[id] = scrip.securityId
  BY <1>1 DEF Put
<1>6. scrip.key.class # "index" => scrip.tick * PaisePerRupee = row.tick
  BY <1>2, <1>3 DEF PaisePerRupee
<1>7. QED  BY <1>3, <1>4, <1>5, <1>6 DEF Holds, q

(* A row that was held still is, unless its contract is listed again.        *)
LEMMA StillHeld ==
  ASSUME NEW p, IsState(p), NEW old \in RawRow, NEW was \in ParseRow(old),
         HeldBySome(p, old, was),
         NEW row \in RawRow, NEW scrip \in ParseRow(row), NEW id \in ToInstrumentId(scrip)
  PROVE  SameContract(was, scrip) \/ HeldBySome(Add(p, scrip, id), old, was)
<1> DEFINE q == Add(p, scrip, id)
<1>1. /\ q.instruments = Put(p.instruments, id, Build(scrip, id))
      /\ q.securityIds = Put(p.securityIds, id, scrip.securityId)
  <2>1. Wrote(p, q, scrip, id)  BY AddWrites
  <2>2. QED  BY <2>1 DEF Wrote
<1> HIDE DEF q
<1>2. PICK k \in ToInstrumentId(was) : Holds(p, old, was, k)  BY DEF HeldBySome
<1>3. CASE k = id  BY <1>2, <1>3, OneNameOneContract DEF SameContract
<1>4. CASE k # id
  <2>1. k \in DOMAIN q.instruments /\ q.instruments[k] = p.instruments[k]
    BY <1>1, <1>2, <1>4 DEF Put, Holds
  <2>2. k \in DOMAIN q.securityIds /\ q.securityIds[k] = p.securityIds[k]
    BY <1>1, <1>2, <1>4 DEF Put, Holds
  <2>3. QED  BY <1>2, <2>1, <2>2 DEF HeldBySome, Holds, q
<1>5. QED  BY <1>3, <1>4

(* A file's rows are rows that Dhan may serve.                               *)
LEMMA RowsOfFiles ==
  ASSUME NEW file \in Files
  PROVE  /\ Len(file) \in Nat /\ DOMAIN file = 1 .. Len(file)
         /\ \A i \in 1 .. Len(file) : file[i] \in MasterRows
<1>1. file \in Seq(RawRow)  BY FilesAssumption
<1>2. Len(file) \in Nat /\ DOMAIN file = 1 .. Len(file)  BY <1>1
<1>3. \A i \in DOMAIN file : file[i] \in MasterRows  BY DEF MasterRows
<1>4. QED  BY <1>2, <1>3

(* A turn leaves every row read so far offered as it lists its contract,     *)
(* unless it raises.                                                         *)
LEMMA TurnOffersItsRow ==
  ASSUME NEW p, IsState(p), NEW file \in Files, NEW m \in 1 .. Len(file),
         NEW today, NEW filters,
         p.raised \/ Offers(p, file, m - 1, today, filters),
         NEW q, q = LoadRow(p, file[m], today, filters)
  PROVE  q.raised \/ Offers(q, file, m, today, filters)
<1> DEFINE row == file[m]
           wanted(i) == Wanted(file[i], today, filters)
<1>1. /\ m - 1 \in Nat /\ m \in Nat /\ Len(file) \in Nat
      /\ \A i \in 1 .. m : i \in 1 .. Len(file)
      /\ \A i \in 1 .. m : i # m => i \in 1 .. m - 1
  BY RowsOfFiles
<1>2. \A i \in 1 .. m : file[i] \in MasterRows /\ file[i] \in RawRow
  BY <1>1, RowsOfFiles, RowsAreRaw
<1>3. m \in 1 .. m  BY <1>1
<1>4. Skips(p, q, wanted(m)) \/ Raises(p, q, wanted(m)) \/ Adds(p, q, wanted(m))
  BY <1>2, <1>3, LoadRowCases
<1>5. \A i \in 1 .. m : \A scrip \in wanted(i) : scrip \in ParseRow(file[i])
  BY DEF Wanted
<1> HIDE DEF wanted
<1>6. \A i \in 1 .. m - 1 : \A scrip :
        ListedAgain(file, i, m - 1, today, filters, scrip)
          => ListedAgain(file, i, m, today, filters, scrip)
  <2>1. \A i \in 1 .. m - 1 : i + 1 .. m - 1 \subseteq i + 1 .. m  BY <1>1
  <2>2. QED  BY <2>1 DEF ListedAgain
<1>7. CASE p.raised
  <2>1. q.raised  BY <1>4, <1>7, RaiseKeepsMaps DEF Skips, Adds
  <2>2. QED  BY <2>1
<1>8. CASE Raises(p, q, wanted(m))  BY <1>8, RaiseKeepsMaps
<1>9. CASE ~p.raised /\ Skips(p, q, wanted(m))
  <2>1. q = p /\ wanted(m) = {}  BY <1>9 DEF Skips
  <2>2. Offers(p, file, m - 1, today, filters)  BY <1>9
  <2>3. ASSUME NEW i \in 1 .. m, NEW scrip \in wanted(i)
        PROVE  \/ ListedAgain(file, i, m, today, filters, scrip)
               \/ HeldBySome(q, file[i], scrip)
    <3>1. i \in 1 .. m - 1  BY <1>1, <2>1
    <3>2. \/ ListedAgain(file, i, m - 1, today, filters, scrip)
          \/ HeldBySome(p, file[i], scrip)
      BY <2>2, <3>1 DEF Offers, wanted
    <3>3. QED  BY <1>6, <2>1, <3>1, <3>2
  <2>4. QED  BY <2>3 DEF Offers, wanted
<1>10. CASE ~p.raised /\ Adds(p, q, wanted(m))
  <2>1. PICK added \in wanted(m) : \E id \in ToInstrumentId(added) : q = Add(p, added, id)
    BY <1>10 DEF Adds
  <2>2. PICK id \in ToInstrumentId(added) : q = Add(p, added, id)  BY <2>1
  <2>3. Offers(p, file, m - 1, today, filters)  BY <1>10
  <2>4. added \in ParseRow(row)  BY <1>3, <1>5
  <2>5. ASSUME NEW i \in 1 .. m, NEW scrip \in wanted(i)
        PROVE  \/ ListedAgain(file, i, m, today, filters, scrip)
               \/ HeldBySome(q, file[i], scrip)
    <3>1. scrip \in ParseRow(file[i])  BY <1>5
    <3>2. CASE i = m
      <4>1. ParseRow(row) = {added}  BY <1>2, <1>3, <2>4, ParsedRow
      <4>2. scrip = added  BY <3>1, <3>2, <4>1
      <4>3. Holds(q, row, added, id)  BY <1>2, <1>3, <2>2, <2>4, AddedIsHeld
      <4>4. QED  BY <3>2, <4>2, <4>3 DEF HeldBySome
    <3>3. CASE i # m
      <4>1. i \in 1 .. m - 1  BY <1>1, <3>3
      <4>2. CASE ListedAgain(file, i, m - 1, today, filters, scrip)
        BY <1>6, <4>1, <4>2
      <4>3. CASE HeldBySome(p, file[i], scrip)
        <5>1. SameContract(scrip, added) \/ HeldBySome(Add(p, added, id), file[i], scrip)
          BY <1>2, <1>3, <2>4, <3>1, <4>3, StillHeld
        <5>2. CASE SameContract(scrip, added)
          <6>1. m \in i + 1 .. m  BY <1>1, <4>1
          <6>2. ListedAgain(file, i, m, today, filters, scrip)
            BY <5>2, <6>1 DEF ListedAgain, wanted
          <6>3. QED  BY <6>2
        <5>3. QED  BY <2>2, <5>1, <5>2
      <4>4. QED  BY <2>3, <4>1, <4>2, <4>3 DEF Offers, wanted
    <3>4. QED  BY <3>2, <3>3
  <2>6. QED  BY <2>5 DEF Offers, wanted
<1>11. QED  BY <1>4, <1>7, <1>8, <1>9, <1>10

\* What a load that began with p leaves.
LoadedWell(p, q, file, day, today, filters) ==
  /\ Sound(q, day)
  /\ q.raised \/ Offers(q, file, Len(file), today, filters)

(* The loop over a file's rows: whatever the maps held, they stay sound, and *)
(* get what the file lists.                                                  *)
LEMMA FileIsLoadedWell ==
  ASSUME NEW p, IsState(p), NEW day \in Int, Sound(p, day),
         NEW file \in Files, Listed(file, day),
         NEW today \in Int, today >= day - 1, NEW filters
  PROVE  LoadedWell(p, LoadFile(p, file, today, filters), file, day, today, filters)
<1>1. /\ Len(file) \in Nat /\ DOMAIN file = 1 .. Len(file)
      /\ \A i \in 1 .. Len(file) : file[i] \in MasterRows
  BY RowsOfFiles
<1>2. PICK after : /\ LoadFile(p, file, today, filters) = after[Len(file)]
                   /\ after[0] = p
                   /\ \A n \in 1 .. Len(file) :
                        after[n] = LoadRow(after[n - 1], file[n], today, filters)
  BY <1>1, LoadFileLoop
<1> DEFINE N == Len(file)
           Done(n) == /\ IsState(after[n]) /\ Sound(after[n], day)
                      /\ after[n].raised \/ Offers(after[n], file, n, today, filters)
           T == {n \in 0 .. N : Done(n)}
<1> HIDE DEF N
<1>3. N \in Nat  BY <1>1 DEF N
<1>4. 0 \in T
  <2>1. Offers(p, file, 0, today, filters)
    <3>1. 1 .. 0 = {}  OBVIOUS
    <3>2. QED  BY <3>1 DEF Offers
  <2>2. Done(0)  BY <1>2, <2>1
  <2>3. QED  BY <1>3, <2>2
<1>5. ASSUME NEW n \in 0 .. N - 1, n \in T PROVE n + 1 \in T
  <2> DEFINE m == n + 1
             was == after[n]
  <2>1. m \in 1 .. N /\ m \in 0 .. N /\ m - 1 = n  BY <1>3
  <2>2. Done(n)  BY <1>5
  <2> HIDE DEF m, Done
  <2>3. after[m] = LoadRow(was, file[m], today, filters)  BY <1>2, <2>1 DEF N
  <2>4. IsState(was) /\ Sound(was, day)
        /\ (was.raised \/ Offers(was, file, m - 1, today, filters))
    BY <2>1, <2>2 DEF Done
  <2> HIDE DEF was
  <2>5. file[m] \in MasterRows /\ file[m].listed <= day
    BY <1>1, <2>1 DEF Listed, N
  <2>6. IsState(after[m]) /\ Sound(after[m], day)  BY <2>3, <2>4, <2>5, TurnKeepsSound
  <2>7. after[m].raised \/ Offers(after[m], file, m, today, filters)
    BY <2>1, <2>3, <2>4, TurnOffersItsRow DEF N
  <2>8. Done(m)  BY <2>6, <2>7 DEF Done
  <2>9. QED  BY <2>1, <2>8 DEF m
<1>6. 0 .. N \subseteq T
  <2> HIDE DEF T
  <2> QED  BY <1>3, <1>4, <1>5, UpwardInduction
<1>7. Done(N)
  <2> HIDE DEF Done
  <2> QED  BY <1>3, <1>6
<1>8. QED  BY <1>2, <1>7 DEF LoadedWell, N

-------------------------------------------------------------------------------
\* The invariant of the provider.

Maps == [instruments |-> instruments, securityIds |-> securityIds,
         bySecurity |-> bySecurity, raised |-> FALSE]

Loads == {Idle}
         \cup [phase : {"requested"}, filters : FilterSets, ticked : BOOLEAN]
         \cup [phase : {"served"}, filters : FilterSets, ticked : BOOLEAN, file : Files]

LoadedWhole ==
  loaded => /\ last.slot \in 1 .. MaxSlot /\ last.file \in Files
            /\ Offers(Maps, last.file, Len(last.file), UtcDay(last.slot), last.filters)

\* Sound maps today are more than the properties say: which row each id stands
\* for is what keeps a reused security id from answering for a live contract.
ProviderInv ==
  /\ slot \in 1 .. MaxSlot /\ loads \in 0 .. MaxLoads /\ loaded \in BOOLEAN
  /\ load \in Loads
  /\ load.phase = "served" => Listed(load.file, IstDay(slot))
  /\ Sound(Maps, IstDay(slot))
  /\ LoadedWhole

(* A slot of the clock is a day in India, and in UTC that day or the one     *)
(* before.                                                                   *)
LEMMA Days ==
  ASSUME NEW s \in Nat
  PROVE  /\ IstDay(s) \in Int /\ UtcDay(s) \in Int
         /\ UtcDay(s) >= IstDay(s) - 1
         /\ IstDay(s) <= IstDay(s + 1)
BY DEF IstDay, UtcDay

(* The three maps are what a load begins with.                               *)
LEMMA MapsAreAState == IsState(Maps)
BY DEF IsState, Maps

(* A load that returns leaves sound maps, and what its file lists.           *)
LEMMA LoadReturnsWell ==
  ASSUME ProviderInv, LoadReturns
  PROVE  /\ Sound(Maps', IstDay(slot))
         /\ LoadedWhole'
         /\ loaded' \in BOOLEAN
<1> DEFINE after == LoadFile(Maps, load.file, UtcDay(slot), load.filters)
<1>1. load.file \in Files /\ Listed(load.file, IstDay(slot))
  BY DEF ProviderInv, LoadReturns, Loads, Idle
<1>2. slot \in Nat  BY DEF ProviderInv
<1>3. IstDay(slot) \in Int /\ UtcDay(slot) \in Int /\ UtcDay(slot) >= IstDay(slot) - 1
  BY <1>2, Days
<1>4. LoadedWell(Maps, after, load.file, IstDay(slot), UtcDay(slot), load.filters)
  BY <1>1, <1>3, FileIsLoadedWell, MapsAreAState DEF ProviderInv
<1>5. /\ instruments' = after.instruments /\ securityIds' = after.securityIds
      /\ bySecurity' = after.bySecurity /\ loaded' = ~after.raised
      /\ last' = [file |-> load.file, filters |-> load.filters, slot |-> slot]
  BY DEF LoadReturns, Maps
<1> HIDE DEF after
<1>6. /\ Maps'.instruments = after.instruments /\ Maps'.securityIds = after.securityIds
      /\ Maps'.bySecurity = after.bySecurity
  BY <1>5 DEF Maps
<1>7. Sound(Maps', IstDay(slot))
  <2>1. Sound(after, IstDay(slot))  BY <1>4 DEF LoadedWell
  <2>2. QED  BY <1>6, <2>1, SoundMaps
<1>8. LoadedWhole'
  <2>1. SUFFICES ASSUME loaded'
                 PROVE  /\ last'.slot \in 1 .. MaxSlot /\ last'.file \in Files
                        /\ Offers(Maps', last'.file, Len(last'.file), UtcDay(last'.slot),
                                  last'.filters)
    BY DEF LoadedWhole
  <2>2. last'.slot = slot /\ last'.file = load.file /\ last'.filters = load.filters
    BY <1>5
  <2>3. Offers(after, load.file, Len(load.file), UtcDay(slot), load.filters)
    BY <1>4, <1>5, <2>1 DEF LoadedWell
  <2>4. Offers(Maps', load.file, Len(load.file), UtcDay(slot), load.filters)
    BY <1>6, <2>3 DEF Offers, HeldBySome, Holds
  <2>5. QED  BY <1>1, <2>2, <2>4 DEF ProviderInv
<1>9. loaded' \in BOOLEAN  BY <1>5
<1>10. QED  BY <1>7, <1>8, <1>9

(* The invariant holds at first, and every step keeps it.                    *)
LEMMA ProviderInvInitially == Init => ProviderInv
<1>1. SUFFICES ASSUME Init PROVE ProviderInv  OBVIOUS
<1>2. MaxSlot \in Nat \ {0} /\ MaxLoads \in Nat  BY BoundsAssumption
<1>3. slot = 1 /\ load = Idle /\ loaded = FALSE /\ loads = 0  BY <1>1 DEF Init
<1>4. DOMAIN instruments = {} /\ DOMAIN securityIds = {} /\ DOMAIN bySecurity = {}
  BY <1>1 DEF Init
<1>5. Sound(Maps, IstDay(slot))  BY <1>4 DEF Sound, Maps
<1>6. load \in Loads /\ load.phase # "served"  BY <1>3 DEF Loads, Idle
<1>7. LoadedWhole /\ loaded \in BOOLEAN  BY <1>3 DEF LoadedWhole
<1>8. slot \in 1 .. MaxSlot /\ loads \in 0 .. MaxLoads  BY <1>2, <1>3
<1>9. QED  BY <1>5, <1>6, <1>7, <1>8 DEF ProviderInv

LEMMA ProviderInvStep == ProviderInv /\ [Next]_vars => ProviderInv'
<1>1. SUFFICES ASSUME ProviderInv, [Next]_vars PROVE ProviderInv'  OBVIOUS
<1>2. slot \in Nat /\ MaxSlot \in Nat /\ MaxLoads \in Nat
  BY <1>1, BoundsAssumption DEF ProviderInv
<1>3. IstDay(slot) \in Int /\ IstDay(slot + 1) \in Int /\ IstDay(slot) <= IstDay(slot + 1)
  BY <1>2, Days
<1> DEFINE MapsStay == /\ instruments' = instruments /\ securityIds' = securityIds
                       /\ bySecurity' = bySecurity
<1>4. ASSUME MapsStay PROVE Maps' = Maps  BY <1>4 DEF Maps
<1>5. ASSUME MapsStay, loaded' = loaded, last' = last PROVE LoadedWhole'
  BY <1>1, <1>4, <1>5 DEF LoadedWhole, ProviderInv
<1>6. CASE Tick
  <2>1. slot' = slot + 1 /\ slot' \in 1 .. MaxSlot /\ MapsStay
        /\ loaded' = loaded /\ loads' = loads /\ last' = last
    BY <1>1, <1>2, <1>6 DEF Tick, provider, ProviderInv
  <2>2. /\ load' \in Loads /\ load'.phase = load.phase
        /\ load.phase = "served" => load'.file = load.file
    <3>1. load' = IF load.phase = "idle" THEN load ELSE [load EXCEPT !.ticked = TRUE]
      BY <1>6 DEF Tick
    <3>2. CASE load = Idle  BY <3>1, <3>2 DEF Loads, Idle
    <3>3. CASE load \in [phase : {"requested"}, filters : FilterSets, ticked : BOOLEAN]
      <4>1. load' = [load EXCEPT !.ticked = TRUE]  BY <3>1, <3>3
      <4>2. QED  BY <3>3, <4>1 DEF Loads
    <3>4. CASE load \in [phase : {"served"}, filters : FilterSets, ticked : BOOLEAN,
                         file : Files]
      <4>1. load' = [load EXCEPT !.ticked = TRUE]  BY <3>1, <3>4
      <4>2. QED  BY <3>4, <4>1 DEF Loads
    <3>5. QED  BY <1>1, <3>2, <3>3, <3>4 DEF ProviderInv, Loads
  <2>3. load.phase = "served" => Listed(load.file, IstDay(slot'))
    <3>1. SUFFICES ASSUME load.phase = "served" PROVE Listed(load.file, IstDay(slot'))
      OBVIOUS
    <3>2. load.file \in Files  BY <1>1, <3>1 DEF ProviderInv, Loads, Idle
    <3>3. Listed(load.file, IstDay(slot))  BY <1>1, <3>1 DEF ProviderInv
    <3>4. \A i \in DOMAIN load.file : load.file[i].listed \in Int
      BY <3>2, RowsOfFiles, RowsAreRaw
    <3>5. QED  BY <1>3, <2>1, <3>3, <3>4 DEF Listed
  <2>4. Sound(Maps', IstDay(slot'))
    BY <1>1, <1>3, <1>4, <2>1, SoundLater DEF ProviderInv
  <2>5. LoadedWhole'  BY <1>5, <2>1
  <2>6. QED  BY <1>1, <2>1, <2>2, <2>3, <2>4, <2>5 DEF ProviderInv
<1>7. CASE \E filters \in FilterSets : LoadAll(filters)
  <2>1. slot' = slot /\ MapsStay /\ loaded' = loaded /\ last' = last
    BY <1>7 DEF LoadAll, provider
  <2>2. loads' \in 0 .. MaxLoads  BY <1>1, <1>2, <1>7 DEF LoadAll, ProviderInv
  <2>3. load' \in Loads /\ load'.phase # "served"  BY <1>7 DEF LoadAll, Loads
  <2>4. QED  BY <1>1, <1>4, <1>5, <2>1, <2>2, <2>3 DEF ProviderInv
<1>8. CASE \E file \in Files : Serve(file)
  <2>1. slot' = slot /\ loads' = loads /\ MapsStay /\ loaded' = loaded /\ last' = last
    BY <1>8 DEF Serve, provider
  <2>2. PICK file \in Files : Serve(file)  BY <1>8
  <2>3. load.filters \in FilterSets /\ load.ticked \in BOOLEAN
    BY <1>1, <2>2 DEF Serve, ProviderInv, Loads, Idle
  <2>4. load' \in Loads /\ load'.file = file  BY <2>2, <2>3 DEF Serve, Loads
  <2>5. Listed(load'.file, IstDay(slot'))  BY <2>1, <2>2, <2>4 DEF Serve, Listed
  <2>6. QED  BY <1>1, <1>4, <1>5, <2>1, <2>4, <2>5 DEF ProviderInv
<1>9. CASE LoadReturns
  <2>1. slot' = slot /\ loads' = loads /\ load' = Idle  BY <1>9 DEF LoadReturns
  <2>2. Sound(Maps', IstDay(slot)) /\ LoadedWhole' /\ loaded' \in BOOLEAN
    BY <1>1, <1>9, LoadReturnsWell
  <2>3. QED  BY <1>1, <2>1, <2>2 DEF ProviderInv, Loads, Idle
<1>10. CASE DownloadFails
  <2>1. slot' = slot /\ loads' = loads /\ load' = Idle /\ loaded' = FALSE /\ MapsStay
    BY <1>10 DEF DownloadFails, provider
  <2>2. QED  BY <1>1, <1>4, <2>1 DEF ProviderInv, Loads, Idle, LoadedWhole
<1>11. CASE UNCHANGED vars
  <2>1. slot' = slot /\ loads' = loads /\ load' = load /\ loaded' = loaded /\ last' = last
        /\ MapsStay
    BY <1>11 DEF vars, provider
  <2>2. QED  BY <1>1, <1>4, <1>5, <2>1 DEF ProviderInv
<1>12. QED  BY <1>1, <1>6, <1>7, <1>8, <1>9, <1>10, <1>11 DEF Next

(* Whatever Dhan serves and whenever, the maps are sound.                    *)
THEOREM MapsStaySound == Spec => []ProviderInv
BY ProviderInvInitially, ProviderInvStep, PTL DEF Spec

-------------------------------------------------------------------------------
\* The properties.

(* TypeOK: all three maps speak of the same ids, and every instrument is a   *)
(* whole contract (core/instruments.py's constructors, parse_row).           *)
THEOREM InstrumentsAreWhole == Spec => []TypeOK
<1>1. ProviderInv => TypeOK
  <2>1. SUFFICES ASSUME ProviderInv PROVE TypeOK  OBVIOUS
  <2>2. slot \in 0 .. MaxSlot /\ loads \in 0 .. MaxLoads /\ loaded \in BOOLEAN
    BY <2>1 DEF ProviderInv
  <2>3. load.phase \in {"idle", "requested", "served"}
    BY <2>1 DEF ProviderInv, Loads, Idle
  <2>4. /\ Maps.instruments = instruments /\ Maps.securityIds = securityIds
        /\ Maps.bySecurity = bySecurity
    BY DEF Maps
  <2>5. Sound(Maps, IstDay(slot))  BY <2>1 DEF ProviderInv
  <2>6. /\ DOMAIN securityIds = Offered
        /\ \A address \in DOMAIN bySecurity : bySecurity[address] \in Offered
    BY <2>4, <2>5 DEF Sound, Offered
  <2>7. ASSUME NEW id \in Offered
        PROVE  LET i == instruments[id] IN
               /\ i.id = id /\ i.multiplier > 0 /\ i.increment > 0
               /\ i.key.class \notin Cash => i.key.expiry # NoDay
               /\ i.key.class = "option" => i.key.strike > 0 /\ i.key.right \in Rights
    <3>1. Bears(Maps, id, IstDay(slot))  BY <2>4, <2>5 DEF Sound, Offered
    <3>2. PICK row \in MasterRows : \E scrip \in ParseRow(row) :
                 StandsFor(Maps, id, IstDay(slot), row, scrip)
      BY <3>1 DEF Bears
    <3>3. PICK scrip \in ParseRow(row) : StandsFor(Maps, id, IstDay(slot), row, scrip)
      BY <3>2
    <3>4. instruments[id] = Build(scrip, id)  BY <2>4, <3>3 DEF StandsFor
    <3>5. row \in RawRow  BY RowsAreRaw
    <3>6. /\ Build(scrip, id).id = id /\ Build(scrip, id).key = scrip.key
          /\ Build(scrip, id).multiplier
               = (IF scrip.key.class \in Cash THEN 1 ELSE scrip.lot)
          /\ Build(scrip, id).increment = scrip.tick
      BY <3>5, BuiltInstrument
    <3>7. /\ scrip.lot \in Nat \ {0} /\ scrip.tick \in Nat \ {0}
          /\ scrip.key.class \notin Cash => scrip.key.expiry # NoDay
          /\ scrip.key.class = "option" =>
               scrip.key.strike \in Nat \ {0} /\ scrip.key.right \in Rights
      BY <3>5, ParsedRow
    <3>8. QED  BY <3>4, <3>6, <3>7
  <2>8. QED  BY <2>2, <2>3, <2>6, <2>7 DEF TypeOK
<1>2. QED  BY <1>1, MapsStaySound, PTL

(* OrdersComeBackAsTheirOwn: what is reported of the address an order for a  *)
(* live instrument is sent to is reported of that instrument, although ids   *)
(* are used again and the maps are never cleared (providers.py:156-160).     *)
THEOREM OrdersComeBack == Spec => []OrdersComeBackAsTheirOwn
<1>1. ProviderInv => OrdersComeBackAsTheirOwn
  <2>1. SUFFICES ASSUME ProviderInv, NEW id \in Offered, ~Dead(id, IstDay(slot)),
                        NEW address \in OrderAddress(id)
                 PROVE  InstrumentFor(address) = {id}
    BY DEF OrdersComeBackAsTheirOwn
  <2>2. /\ Maps.instruments = instruments /\ Maps.securityIds = securityIds
        /\ Maps.bySecurity = bySecurity
    BY DEF Maps
  <2>3. Routed(Maps, id, IstDay(slot))
    BY <2>1, <2>2 DEF ProviderInv, Sound, Offered
  <2>4. /\ instruments[id].code # UnknownSegmentCode
        /\ address = <<securityIds[id], instruments[id].code>>
    BY <2>1 DEF OrderAddress
  <2>5. ~Gone(instruments[id], IstDay(slot))  BY <2>1 DEF Dead, Gone
  <2>6. address \in DOMAIN bySecurity /\ bySecurity[address] = id
    BY <2>2, <2>3, <2>4, <2>5 DEF Routed
  <2>7. QED  BY <2>6 DEF InstrumentFor
<1>2. QED  BY <1>1, MapsStaySound, PTL

\* LoadedAsListed of any maps and any file.
AsListed(p, file, today, filters) ==
  \A i \in DOMAIN file : \A scrip \in Wanted(file[i], today, filters) :
    \/ \E j \in DOMAIN file :
         /\ j > i
         /\ \E s \in Wanted(file[j], today, filters) : /\ s.exchange = scrip.exchange
                                                       /\ Contract(s) = Contract(scrip)
    \/ \E id \in ToInstrumentId(scrip) \cap DOMAIN p.instruments :
         /\ p.instruments[id].key = scrip.key
         /\ p.securityIds[id] = file[i].sec
         /\ scrip.key.class # "index" =>
              p.instruments[id].increment * PaisePerRupee = file[i].tick
         /\ scrip.key.class \notin Cash => p.instruments[id].multiplier = file[i].lot

(* It is what the loop leaves.                                               *)
LEMMA OfferedAsListed ==
  ASSUME NEW p, NEW file \in Files, NEW today, NEW filters,
         Offers(p, file, Len(file), today, filters)
  PROVE  AsListed(p, file, today, filters)
<1>1. Len(file) \in Nat /\ DOMAIN file = 1 .. Len(file)  BY RowsOfFiles
<1>2. SUFFICES ASSUME NEW i \in DOMAIN file,
                      NEW scrip \in Wanted(file[i], today, filters)
               PROVE  \/ \E j \in DOMAIN file :
                           j > i /\ \E s \in Wanted(file[j], today, filters) :
                                      SameContract(scrip, s)
                      \/ HeldBySome(p, file[i], scrip)
  BY DEF AsListed, SameContract, HeldBySome, Holds
<1>3. CASE HeldBySome(p, file[i], scrip)  BY <1>3
<1>4. CASE ListedAgain(file, i, Len(file), today, filters, scrip)
  <2>1. PICK j \in i + 1 .. Len(file) :
          \E s \in Wanted(file[j], today, filters) : SameContract(scrip, s)
    BY <1>4 DEF ListedAgain
  <2>2. j \in DOMAIN file /\ j > i  BY <1>1, <2>1
  <2>3. QED  BY <2>1, <2>2
<1>5. QED  BY <1>1, <1>3, <1>4 DEF Offers

(* LoadedAsListed: a load that returned offers every live contract of its    *)
(* file that was asked for with the id, the exact tick and the lot of one    *)
(* row, the last of that contract (providers.load_all_async).                *)
THEOREM LoadsOfferWhatIsListed == Spec => []LoadedAsListed
<1>1. ProviderInv => LoadedAsListed
  <2>1. SUFFICES ASSUME ProviderInv, loaded PROVE LoadedAsListed
    BY DEF LoadedAsListed
  <2>2. last.slot \in 1 .. MaxSlot /\ last.file \in Files
        /\ Offers(Maps, last.file, Len(last.file), UtcDay(last.slot), last.filters)
    BY <2>1 DEF ProviderInv, LoadedWhole
  <2>3. last.slot > 0  BY <2>2, BoundsAssumption
  <2>4. AsListed(Maps, last.file, UtcDay(last.slot), last.filters)
    BY <2>2, OfferedAsListed
  <2>5. Maps.instruments = instruments /\ Maps.securityIds = securityIds  BY DEF Maps
  <2>6. QED  BY <2>3, <2>4, <2>5, Zenon DEF LoadedAsListed, AsListed, Offered
<1>2. QED  BY <1>1, MapsStaySound, PTL
===============================================================================
