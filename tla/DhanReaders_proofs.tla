-------------------------- MODULE DhanReaders_proofs --------------------------
(***************************************************************************)
(* What the stateless readers make of anything they may be given: proofs   *)
(* about DhanErrors, DhanDecoder and IndianCosts, and of the invariants of *)
(* DhanReaders that speak of them.                                         *)
(***************************************************************************)
EXTENDS DhanReaders, Recursion_proofs, FunctionTheorems

-------------------------------------------------------------------------------
\* Responses.

(* What is raised for a failure is definitive, and never a transport error. *)
LEMMA RaiseIsDefinitive ==
  ASSUME NEW failure
  PROVE  Raise(failure) \in Definitive
BY DEF Raise, Definitive

(* An object is read as a failure exactly when it announces one or carries  *)
(* a code or a type of an error.                                            *)
LEMMA ObjectFails ==
  ASSUME NEW dict
  PROVE  FailureInObject(dict) # {}
           <=> Announces(dict) \/ DOMAIN dict \cap {"errorCode", "errorType"} # {}
<1>1. CASE DOMAIN dict \cap ErrorFields # {}
  BY <1>1 DEF FailureInObject, Announces, ErrorFields
<1>2. CASE DOMAIN dict \cap ErrorFields = {}
  BY <1>2 DEF FailureInObject, Announces, ErrorFields
<1>3. QED  BY <1>1, <1>2

(* An element of an array is read as a failure exactly when it is an object *)
(* that announces one.                                                      *)
LEMMA ElementFails ==
  ASSUME NEW element
  PROVE  FailureInElement(element) # {}
           <=> element.shape = "object" /\ Announces(element.fields)
BY DEF FailureInElement, Announces

(* An array is read as a failure exactly when one of its elements is: the   *)
(* first of the failing ones exists and speaks for it.                      *)
LEMMA ArrayFails ==
  ASSUME NEW items, DOMAIN items \subseteq Nat
  PROVE  FailureInArray(items) # {} <=> \E i \in DOMAIN items : FailureInElement(items[i]) # {}
<1> DEFINE failing == {i \in DOMAIN items : FailureInElement(items[i]) # {}}
           first == CHOOSE i \in failing : \A j \in failing : i <= j
<1>1. CASE failing = {}
  BY <1>1 DEF FailureInArray
<1>2. CASE failing # {}
  <2>1. \E i \in failing : \A j \in failing : i <= j  BY <1>2, LeastMember
  <2>2. first \in failing  BY <2>1
  <2>3. FailureInArray(items) = FailureInElement(items[first])
    BY <1>2 DEF FailureInArray
  <2>4. QED  BY <2>2, <2>3
<1>3. QED  BY <1>1, <1>2

(* A body is raised upon exactly when it says that it is a failure.         *)
LEMMA BodyFails ==
  ASSUME NEW body, IsBody(body), body.shape # "scalar"
  PROVE  FailureIn(body) # {} <=> SaysFailure(body)
<1>1. CASE body.shape = "array"
  <2>1. DOMAIN body.items \subseteq Nat  BY <1>1 DEF IsBody, IsElement, Scalar, Object
  <2>2. FailureIn(body) = FailureInArray(body.items)  BY <1>1 DEF FailureIn
  <2>3. FailureIn(body) # {}
          <=> \E i \in DOMAIN body.items :
                body.items[i].shape = "object" /\ Announces(body.items[i].fields)
    BY <2>1, <2>2, ArrayFails, ElementFails
  <2>4. QED  BY <1>1, <2>3 DEF SaysFailure
<1>2. CASE body.shape = "object"
  <2>1. FailureIn(body) = FailureInObject(body.fields)  BY <1>2 DEF FailureIn
  <2>2. QED  BY <1>2, <2>1, ObjectFails DEF SaysFailure
<1>3. body.shape \in {"array", "object"}
  BY DEF IsBody, IsElement, Scalar, Object, Array
<1>4. QED  BY <1>1, <1>2, <1>3

(* A body is read as a refusal exactly when it says so.                     *)
LEMMA ClassifyRefuses ==
  ASSUME NEW body, IsBody(body)
  PROVE  /\ Classify(body).outcome \in Definitive <=> SaysFailure(body)
         /\ Classify(body).outcome # "ambiguous"
<1>1. CASE body.shape = "scalar"
  <2>1. Classify(body).outcome = "transportError"  BY <1>1 DEF Classify, Raised
  <2>2. ~ SaysFailure(body)  BY <1>1 DEF SaysFailure
  <2>3. QED  BY <2>1, <2>2 DEF Definitive
<1>2. CASE body.shape # "scalar" /\ FailureIn(body) # {}
  <2> DEFINE failure == CHOOSE f \in FailureIn(body) : TRUE
  <2>1. Classify(body) = Raised(Raise(failure))  BY <1>2 DEF Classify
  <2>2. Raise(failure) \in Definitive  BY RaiseIsDefinitive
  <2>3. Classify(body).outcome = Raise(failure)  BY <2>1 DEF Raised
  <2>4. "ambiguous" \notin Definitive  BY DEF Definitive
  <2>5. SaysFailure(body)  BY <1>2, BodyFails
  <2>6. QED
    <3> HIDE DEF failure
    <3> QED  BY <2>2, <2>3, <2>4, <2>5
<1>3. CASE body.shape # "scalar" /\ FailureIn(body) = {}
  <2>1. Classify(body).outcome = "payload"  BY <1>3 DEF Classify, Payload
  <2>2. ~ SaysFailure(body)  BY <1>3, BodyFails
  <2>3. QED  BY <2>1, <2>2 DEF Definitive
<1>4. QED  BY <1>1, <1>2, <1>3

(* An address refusal in an object's own message is one, or a rate limit.   *)
LEMMA AddressRefusal ==
  ASSUME NEW dict, Get(dict, "errorMessage") = "ip"
  PROVE  Classify(Object(dict)).outcome \in {"ipNotWhitelisted", "rateLimited"}
<1>1. "errorMessage" \in DOMAIN dict /\ dict["errorMessage"] = "ip"  BY DEF Get
<1> DEFINE failure == Failure("ip", Get(dict, "errorCode"), Get(dict, "errorType"))
<1>2. FailureInObject(dict) = {failure}
  BY <1>1 DEF FailureInObject, ErrorFields, OrElse, Get
<1>3. FailureIn(Object(dict)) = {failure}  BY <1>2 DEF FailureIn, Object
<1>4. Classify(Object(dict)) = Raised(Raise(failure))
  <2> HIDE DEF failure
  <2>1. (CHOOSE f \in {failure} : TRUE) = failure  OBVIOUS
  <2>2. Object(dict).shape # "scalar"  BY DEF Object
  <2>3. QED  BY <1>3, <2>1, <2>2 DEF Classify
<1>5. failure.reason = "ip"  BY DEF Failure
<1>6. Raise(failure) \in {"ipNotWhitelisted", "rateLimited"}
  <2> HIDE DEF failure
  <2> QED  BY <1>5 DEF Raise
<1>7. QED  BY <1>4, <1>6 DEF Raised

-------------------------------------------------------------------------------
\* What a reader has returned is what it makes of its subject.

ReadInv ==
  /\ subject \in {Master} \cup Exchanged \cup Framed \cup Filled
  /\ Read("exchange") => result = Answer(subject.isWrite, subject.response)
  /\ Read("frame") => result = Frame(subject.socket, subject.frame)
  /\ Read("order") =>
       result = [charged |-> Charged(Periods, subject.side, subject.fills,
                                     subject.multiplier)]

(* No reader keeps state: what it returned is a function of its subject.    *)
THEOREM ReadersReturnWhatTheyRead == ReadersSpec => []ReadInv
<1>1. ReadersInit => ReadInv  BY DEF ReadersInit, ReadInv, Read
<1>2. ReadInv /\ [ReadersNext]_<<vars, subject, result>> => ReadInv'
  <2> SUFFICES ASSUME ReadInv, [ReadersNext]_<<vars, subject, result>> PROVE ReadInv'
    OBVIOUS
  <2>1. CASE subject' = subject /\ result' = result
    BY <2>1 DEF ReadInv, Read
  <2>2. CASE ReadAnswer /\ subject' = subject
    BY <2>2 DEF ReadInv, Read, ReadAnswer
  <2>3. CASE ReadFrame /\ subject' = subject
    BY <2>3 DEF ReadInv, Read, ReadFrame
  <2>4. CASE ChargeOrder /\ subject' = subject
    BY <2>4 DEF ReadInv, Read, ChargeOrder
  <2>5. QED  BY <2>1, <2>2, <2>3, <2>4 DEF ReadersNext
<1>3. QED  BY <1>1, <1>2, PTL DEF ReadersSpec

(* What was given to the HTTP client is an exchange of Responses.           *)
LEMMA ExchangeSubject ==
  ASSUME ReadInv, Read("exchange")
  PROVE  /\ subject.response \in Responses /\ subject.isWrite \in BOOLEAN
         /\ result = Answer(subject.isWrite, subject.response)
<1>1. subject \in Exchanged
  BY DEF ReadInv, Read, Master, Exchanged, Framed, Filled
<1>2. PICK w \in BOOLEAN, r \in Responses :
        subject = [kind |-> "exchange", isWrite |-> w, response |-> r]
  BY <1>1 DEF Exchanged
<1>3. subject.response = r /\ subject.isWrite = w  BY <1>2
<1>4. QED  BY <1>3 DEF ReadInv

(* RefusedIffBodySaysSo: no success reads as a rejection, and no failure     *)
(* reaches the caller as data, whatever Dhan answers (errors.classify).      *)
THEOREM RefusalsAreStated == ReadersSpec => []RefusedIffBodySaysSo
<1>1. ReadInv => RefusedIffBodySaysSo
  <2> SUFFICES ASSUME ReadInv, Read("exchange")
               PROVE  result.outcome \in Definitive
                        <=> subject.response.kind = "json"
                              /\ SaysFailure(subject.response.body)
    BY DEF RefusedIffBodySaysSo
  <2>1. subject.response \in Responses /\ result = Answer(subject.isWrite, subject.response)
    BY ExchangeSubject
  <2>2. CASE subject.response.kind = "json"
    <3>1. IsBody(subject.response.body)
      BY <2>1, <2>2, ResponsesAssumption DEF HttpError, Text
    <3>2. result = Classify(subject.response.body)  BY <2>1, <2>2 DEF Answer
    <3>3. QED  BY <2>2, <3>1, <3>2, ClassifyRefuses
  <2>3. CASE subject.response.kind # "json"
    BY <2>1, <2>3 DEF Answer, Raised, Definitive
  <2>4. QED  BY <2>2, <2>3
<1>2. QED  BY <1>1, ReadersReturnWhatTheyRead, PTL

(* IPRefusalIsNotAboutOneOrder: an address refusal degrades the client, or is *)
(* a rate limit; it never rejects the one order it answers (errors._raise).   *)
THEOREM AddressRefusalsAreTold == ReadersSpec => []IPRefusalIsNotAboutOneOrder
<1>1. ReadInv => IPRefusalIsNotAboutOneOrder
  <2> SUFFICES ASSUME ReadInv, Read("exchange"), subject.response.kind = "json",
                      subject.response.body.shape = "object",
                      Get(subject.response.body.fields, "errorMessage") = "ip"
               PROVE  result.outcome \in {"ipNotWhitelisted", "rateLimited"}
    BY DEF IPRefusalIsNotAboutOneOrder
  <2> DEFINE body == subject.response.body
  <2>1. subject.response \in Responses /\ result = Answer(subject.isWrite, subject.response)
    BY ExchangeSubject
  <2>2. IsBody(body)  BY <2>1, ResponsesAssumption DEF HttpError, Text
  <2>3. body = Object(body.fields)
    BY <2>2 DEF IsBody, IsElement, Scalar, Array
  <2>4. result = Classify(body)  BY <2>1 DEF Answer
  <2>5. QED
    <3> HIDE DEF body
    <3> QED  BY <2>3, <2>4, AddressRefusal DEF body
<1>2. QED  BY <1>1, ReadersReturnWhatTheyRead, PTL

-------------------------------------------------------------------------------
\* Costs.

(* The rates of a day are those of the first period that covers it; there    *)
(* are none exactly when no period does.                                     *)
LEMMA RatesOfFirstPeriod ==
  ASSUME NEW periods \in Seq(Rate), NEW day \in Int
  PROVE  /\ RatesOn(periods, day) = {}
              <=> \A i \in DOMAIN periods : ~ (periods[i].from <= day /\ day <= periods[i].to)
         /\ \A i \in DOMAIN periods :
              /\ periods[i].from <= day /\ day <= periods[i].to
              /\ \A j \in DOMAIN periods :
                   j < i => ~ (periods[j].from <= day /\ day <= periods[j].to)
              => RatesOn(periods, day) = {periods[i]}
<1> DEFINE covering == {i \in DOMAIN periods : periods[i].from <= day /\ day <= periods[i].to}
           least    == {j \in covering : \A k \in covering : j <= k}
<1>1. RatesOn(periods, day) = {periods[i] : i \in least}  BY DEF RatesOn
<1>2. covering \subseteq Nat  OBVIOUS
<1>3. least = {} <=> covering = {}
  <2> HIDE DEF covering
  <2> QED  BY <1>2, LeastMember
<1>4. ASSUME NEW i \in covering, \A j \in DOMAIN periods : j < i => j \notin covering
      PROVE  least = {i}
  <2>1. \A k \in covering : k \in DOMAIN periods /\ k \in Nat  BY <1>2
  <2> HIDE DEF covering
  <2>2. i \in least  BY <1>4, <2>1
  <2>3. \A k \in least : k <= i /\ i <= k  BY <1>4, <2>2
  <2>4. \A k \in least : k = i  BY <2>1, <2>3, <1>4
  <2>5. QED  BY <2>2, <2>4
<1>5. ASSUME NEW i \in DOMAIN periods, periods[i].from <= day, day <= periods[i].to,
             \A j \in DOMAIN periods :
               j < i => ~ (periods[j].from <= day /\ day <= periods[j].to)
      PROVE  RatesOn(periods, day) = {periods[i]}
  <2>1. least = {i}  BY <1>4, <1>5
  <2> HIDE DEF least
  <2>2. QED  BY <1>1, <2>1
<1>6. RatesOn(periods, day) = {} <=> covering = {}
  <2> HIDE DEF least, covering
  <2> QED  BY <1>1, <1>3
<1>7. QED  BY <1>5, <1>6

\* What a rupee of turnover costs, and what a fill costs besides.
PerTurnover(rates, side) ==
  100 * ((IF side = "SELL" THEN rates.sttSell ELSE 0) +
         (IF side = "BUY" THEN rates.stampBuy ELSE 0) + rates.exchange + rates.sebi)
    + rates.gst * rates.exchange
FlatGst(rates) == rates.gst * rates.brokerage * 10000
FlatFee(rates) == rates.brokerage * 1000000

(* A hundredth of the GST comes out whole: both of the amounts it is charged *)
(* on are whole hundreds.                                                    *)
LEMMA GstIsExact ==
  ASSUME NEW g \in Nat, NEW b \in Nat, NEW t \in Nat, NEW x \in Nat
  PROVE  (g * (b * 1000000 + t * x * 100)) \div 100 = g * b * 10000 + t * (g * x)
<1> DEFINE gb == g * b
           tx == t * x
           y == gb * 10000 + g * tx
<1>1. gb \in Nat /\ tx \in Nat /\ g * tx \in Nat /\ y \in Nat  OBVIOUS
<1>2. g * (b * 1000000 + tx * 100) = y * 100  OBVIOUS
<1>3. (y * 100) \div 100 = y
  <2> HIDE DEF y
  <2> QED  BY <1>1
<1>4. g * tx = t * (g * x)  OBVIOUS
<1>5. QED  BY <1>2, <1>3, <1>4

(* The cost of a fill is linear in its turnover, but for a flat part.        *)
LEMMA LegTotal ==
  ASSUME NEW rates \in Rate, NEW side \in {"BUY", "SELL"},
         NEW price \in Nat, NEW units \in Nat
  PROVE  Total(LegCost(rates, side, price, units))
           = (price * units) * PerTurnover(rates, side) + FlatGst(rates) + FlatFee(rates)
<1> DEFINE t == price * units
           stt == IF side = "SELL" THEN rates.sttSell ELSE 0
           stamp == IF side = "BUY" THEN rates.stampBuy ELSE 0
           gstx == rates.gst * rates.exchange
<1>1. t \in Nat /\ stt \in Nat /\ stamp \in Nat /\ gstx \in Nat
      /\ rates.gst \in Nat /\ rates.brokerage \in Nat /\ rates.exchange \in Nat
      /\ rates.sebi \in Nat
  BY DEF Rate
<1>2. (rates.gst * (rates.brokerage * 1000000 + t * rates.exchange * 100)) \div 100
        = rates.gst * rates.brokerage * 10000 + t * gstx
  <2> DEFINE g == rates.gst
             b == rates.brokerage
             x == rates.exchange
  <2> HIDE DEF t
  <2>1. g \in Nat /\ b \in Nat /\ x \in Nat /\ t \in Nat  BY <1>1
  <2> HIDE DEF g, b, x
  <2>2. (g * (b * 1000000 + t * x * 100)) \div 100 = g * b * 10000 + t * (g * x)
    BY <2>1, GstIsExact, SMT
  <2> QED  BY <2>2 DEF g, b, x
<1>3. Total(LegCost(rates, side, price, units))
        = t * stt * 100 + rates.brokerage * 1000000 + t * rates.exchange * 100
          + t * rates.sebi * 100 + t * stamp * 100
          + (rates.gst * (rates.brokerage * 1000000 + t * rates.exchange * 100)) \div 100
  <2> HIDE DEF t
  <2>1. (IF side = "SELL" THEN t * rates.sttSell * 100 ELSE 0) = t * stt * 100  BY <1>1
  <2>2. (IF side = "BUY" THEN t * rates.stampBuy * 100 ELSE 0) = t * stamp * 100  BY <1>1
  <2> HIDE DEF stt, stamp
  <2> QED  BY <2>1, <2>2 DEF Total, LegCost, PerMillion, t
<1>4. PerTurnover(rates, side) = 100 * (stt + stamp + rates.exchange + rates.sebi) + gstx
  BY DEF PerTurnover
<1>5. t * (100 * (stt + stamp + rates.exchange + rates.sebi) + gstx)
        = t * stt * 100 + t * stamp * 100 + t * rates.exchange * 100
          + t * rates.sebi * 100 + t * gstx
  <2> HIDE DEF t, stt, stamp, gstx
  <2> QED  BY <1>1
<1>6. QED
  <2> HIDE DEF t, stt, stamp, gstx
  <2> QED  BY <1>1, <1>2, <1>3, <1>4, <1>5 DEF FlatGst, FlatFee, t

(* A fill pays for its turnover and the GST on the brokerage; the brokerage  *)
(* itself only if nothing was filled before (get_commission).                *)
LEMMA CommissionOf ==
  ASSUME NEW rates \in Rate, NEW side \in {"BUY", "SELL"}, NEW fill \in Fill,
         NEW filledBefore \in Nat, NEW multiplier \in Nat \ {0}
  PROVE  Commission(rates, side, fill, filledBefore, multiplier)
           = (fill.price * (fill.lots * multiplier)) * PerTurnover(rates, side)
               + FlatGst(rates) + (IF filledBefore > 0 THEN 0 ELSE FlatFee(rates))
<1> DEFINE units == fill.lots * multiplier
           cost == LegCost(rates, side, fill.price, units)
           linear == (fill.price * units) * PerTurnover(rates, side)
<1>1. fill.price \in Nat /\ units \in Nat  BY DEF Fill
<1>2. rates.gst \in Nat /\ rates.brokerage \in Nat /\ rates.exchange \in Nat
      /\ rates.sebi \in Nat /\ rates.sttSell \in Nat /\ rates.stampBuy \in Nat
  BY DEF Rate
<1>3. FlatGst(rates) \in Int /\ FlatFee(rates) \in Int  BY <1>2, SMT DEF FlatGst, FlatFee
<1>4. PerTurnover(rates, side) \in Int  BY <1>2, SMT DEF PerTurnover
<1>5. linear \in Int  BY <1>1, <1>4
<1>6. Total(cost) = linear + FlatGst(rates) + FlatFee(rates)
  <2> HIDE DEF units
  <2> QED  BY <1>1, LegTotal
<1>7. cost.brokerage = FlatFee(rates)  BY SMT DEF LegCost, FlatFee
<1>8. Commission(rates, side, fill, filledBefore, multiplier)
        = Total(cost) - (IF filledBefore > 0 THEN cost.brokerage ELSE 0)
  BY DEF Commission
<1>9. QED
  <2> HIDE DEF cost, linear
  <2> QED  BY <1>3, <1>5, <1>6, <1>7, <1>8 DEF linear

(* Something is filled before every fill but the first.                      *)
LEMMA FilledBefore ==
  ASSUME NEW fills \in Seq(Fill)
  PROVE  \A n \in 0 .. Len(fills) :
           /\ FilledBy(fills, n) \in Nat
           /\ FilledBy(fills, n) > 0 <=> n > 0
<1> DEFINE lots == [k \in DOMAIN fills |-> fills[k].lots]
           N == Len(fills)
<1>1. lots \in Seq(Int) /\ Len(lots) = N /\ N \in Nat
      /\ \A k \in 1 .. N : lots[k] \in Nat \ {0}
  <2>1. N \in Nat /\ DOMAIN fills = 1 .. N /\ \A k \in 1 .. N : fills[k] \in Fill
    OBVIOUS
  <2>2. \A k \in 1 .. N : fills[k].lots \in Nat \ {0}  BY <2>1 DEF Fill
  <2> HIDE DEF N
  <2>3. lots = [k \in 1 .. N |-> fills[k].lots]  BY <2>1
  <2>4. QED  BY <2>1, <2>2, <2>3
<1> DEFINE F == PartialSums(lots)
           V == {n \in 0 .. N : F[n] \in Nat /\ (F[n] > 0 <=> n > 0)}
<1> HIDE DEF lots
<1>2. F[0] = 0 /\ \A n \in 1 .. N : F[n] = F[n - 1] + lots[n]
  BY <1>1, PartialSumsDef
<1> HIDE DEF F, N
<1>3. 0 \in V  BY <1>1, <1>2
<1>4. \A n \in 0 .. N - 1 : n \in V => n + 1 \in V
  <2>1. SUFFICES ASSUME NEW n \in 0 .. N - 1, F[n] \in Nat, F[n] > 0 <=> n > 0
                 PROVE  n + 1 \in V
    OBVIOUS
  <2>2. n + 1 \in 1 .. N /\ n + 1 - 1 = n  BY <1>1
  <2>3. F[n + 1] = F[n] + lots[n + 1] /\ lots[n + 1] \in Nat \ {0}  BY <1>1, <1>2, <2>2
  <2>4. QED  BY <2>1, <2>2, <2>3
<1>5. 0 .. N \subseteq V
  <2> HIDE DEF V
  <2> QED  BY <1>1, <1>3, <1>4, UpwardInduction
<1>6. \A n \in 0 .. N : FilledBy(fills, n) = F[n]  BY DEF FilledBy, F, lots
<1>7. QED  BY <1>5, <1>6 DEF N

Turnovers(fills, multiplier) ==
  [k \in DOMAIN fills |-> fills[k].price * (fills[k].lots * multiplier)]

\* What an order is to cost whose fills all have the same rates.
SameRates(periods, rates, side, fills, multiplier) ==
  /\ rates \in Rate /\ side \in {"BUY", "SELL"} /\ multiplier \in Nat \ {0}
  /\ fills \in Seq(Fill) /\ fills # <<>>
  /\ \A k \in DOMAIN fills : RatesOn(periods, fills[k].day) = {rates}
WholeCharge(rates, side, fills, multiplier) ==
  Total(LegCost(rates, side, PartialSums(Turnovers(fills, multiplier))[Len(fills)], 1))
    + (Len(fills) - 1) * (rates.gst * rates.brokerage * 10000)

(* An order of which every fill has the same rates is charged what one fill  *)
(* of its whole turnover would be, and the GST on the brokerage once more    *)
(* for each later fill.                                                      *)
LEMMA OrderCharged ==
  ASSUME NEW periods, NEW rates, NEW side, NEW fills, NEW multiplier,
         SameRates(periods, rates, side, fills, multiplier)
  PROVE  Charged(periods, side, fills, multiplier)
           = {WholeCharge(rates, side, fills, multiplier)}
<1> DEFINE N == Len(fills)
           P == PerTurnover(rates, side)
           G == FlatGst(rates)
           B == FlatFee(rates)
           commissions == [k \in DOMAIN fills |->
                             Commission(CHOOSE r \in RatesOn(periods, fills[k].day) : TRUE,
                                        side, fills[k], FilledBy(fills, k - 1), multiplier)]
           C == PartialSums(commissions)
           turnovers == Turnovers(fills, multiplier)
           S == PartialSums(turnovers)
<1>0. /\ rates \in Rate /\ side \in {"BUY", "SELL"} /\ multiplier \in Nat \ {0}
      /\ fills \in Seq(Fill) /\ fills # <<>>
      /\ \A k \in DOMAIN fills : RatesOn(periods, fills[k].day) = {rates}
  BY DEF SameRates
<1>1. N \in Nat \ {0} /\ DOMAIN fills = 1 .. N /\ \A k \in 1 .. N : fills[k] \in Fill
  BY <1>0
<1>2. rates.gst \in Nat /\ rates.brokerage \in Nat /\ rates.exchange \in Nat
      /\ rates.sebi \in Nat /\ rates.sttSell \in Nat /\ rates.stampBuy \in Nat
  BY <1>0 DEF Rate
<1> DEFINE Closed == \A a, b \in Nat : a * b \in Nat
<1>a. Closed  OBVIOUS
<1>3. P \in Nat /\ G \in Nat /\ B \in Nat
  <2>1. rates.gst * rates.exchange \in Nat /\ rates.gst * rates.brokerage \in Nat
    BY <1>2, <1>a
  <2> DEFINE gb == rates.gst * rates.brokerage
             gx == rates.gst * rates.exchange
             b  == rates.brokerage
             stt == IF side = "SELL" THEN rates.sttSell ELSE 0
             stamp == IF side = "BUY" THEN rates.stampBuy ELSE 0
  <2>2. gb \in Nat /\ gx \in Nat /\ b \in Nat /\ stt \in Nat /\ stamp \in Nat
    BY <1>2, <2>1
  <2>3. /\ G = gb * 10000
        /\ B = b * 1000000
        /\ P = 100 * (stt + stamp + rates.exchange + rates.sebi) + gx
    BY SMT DEF FlatGst, FlatFee, PerTurnover
  <2> HIDE DEF gb, gx, b, stt, stamp, G, B, P
  <2>4. G \in Nat /\ B \in Nat  BY <2>2, <2>3, SMT
  <2>5. P \in Nat  BY <1>2, <2>2, <2>3, SMT
  <2>6. QED  BY <2>4, <2>5
<1>4. \A k \in 1 .. N : turnovers[k] \in Nat
  <2>1. \A k \in 1 .. N : fills[k].price \in Nat /\ fills[k].lots \in Nat  BY <1>1 DEF Fill
  <2>2. \A a, b, c \in Nat : a * (b * c) \in Nat  OBVIOUS
  <2>3. QED  BY <1>0, <1>1, <2>1, <2>2 DEF Turnovers
<1>c. \A k \in 1 .. N : turnovers[k] = fills[k].price * (fills[k].lots * multiplier)
  BY <1>1 DEF Turnovers
<1>8. turnovers \in Seq(Int) /\ Len(turnovers) = N
  <2>1. turnovers = [k \in 1 .. N |-> turnovers[k]]  BY <1>1 DEF Turnovers
  <2> HIDE DEF turnovers
  <2>2. QED  BY <1>1, <1>4, <2>1
<1> HIDE DEF N, P, G, B, S, C, turnovers
<1>5. \A k \in 1 .. N :
        commissions[k] = turnovers[k] * P + G + (IF k > 1 THEN 0 ELSE B)
  <2>1. SUFFICES ASSUME NEW k \in 1 .. N
                 PROVE  commissions[k] = turnovers[k] * P + G + (IF k > 1 THEN 0 ELSE B)
    OBVIOUS
  <2>2. (CHOOSE r \in RatesOn(periods, fills[k].day) : TRUE) = rates
    <3>1. RatesOn(periods, fills[k].day) = {rates}  BY <1>0, <1>1
    <3>2. (CHOOSE r \in {rates} : TRUE) = rates  OBVIOUS
    <3>3. QED  BY <3>1, <3>2
  <2>3. commissions[k] = Commission(rates, side, fills[k], FilledBy(fills, k - 1), multiplier)
    BY <1>1, <2>2
  <2>4. FilledBy(fills, k - 1) \in Nat /\ (FilledBy(fills, k - 1) > 0 <=> k > 1)
    <3>1. k - 1 \in 0 .. Len(fills)  BY <1>1 DEF N
    <3>2. QED  BY <1>0, <3>1, FilledBefore
  <2>5. fills[k] \in Fill /\ turnovers[k] = fills[k].price * (fills[k].lots * multiplier)
    BY <1>1, <1>c
  <2>6. Commission(rates, side, fills[k], FilledBy(fills, k - 1), multiplier)
          = (fills[k].price * (fills[k].lots * multiplier)) * P + G
              + (IF FilledBy(fills, k - 1) > 0 THEN 0 ELSE B)
    BY <1>0, <2>4, <2>5, CommissionOf DEF P, G, B
  <2> HIDE DEF commissions
  <2>7. QED  BY <2>3, <2>4, <2>5, <2>6
<1>6. \A k \in 1 .. N : commissions[k] \in Int
  <2> HIDE DEF commissions
  <2>1. \A k \in 1 .. N : turnovers[k] * P \in Nat  BY <1>3, <1>4, <1>a
  <2>2. SUFFICES ASSUME NEW k \in 1 .. N PROVE commissions[k] \in Int  OBVIOUS
  <2> DEFINE tp == turnovers[k] * P
  <2>3. commissions[k] = tp + G + (IF k > 1 THEN 0 ELSE B)  BY <1>5
  <2>4. tp \in Nat  BY <2>1
  <2> HIDE DEF tp
  <2> QED  BY <1>3, <2>3, <2>4
<1>7. commissions \in Seq(Int) /\ Len(commissions) = N
  <2>1. commissions = [k \in 1 .. N |-> commissions[k]]  BY <1>1
  <2> HIDE DEF commissions
  <2>2. QED  BY <1>1, <1>6, <2>1
<1> HIDE DEF commissions
<1>b. C[0] = 0 /\ \A n \in 1 .. N : C[n] = C[n - 1] + commissions[n]
  BY <1>7, PartialSumsDef DEF C
<1>9. S[0] = 0 /\ \A n \in 1 .. N : S[n] = S[n - 1] + turnovers[n]
  BY <1>8, PartialSumsDef DEF S
<1> DEFINE V == {n \in 0 .. N : /\ S[n] \in Nat
                                /\ C[n] = S[n] * P + n * G + (IF n > 0 THEN B ELSE 0)}
<1>10. 0 \in V
  <2>1. S[0] * P = 0 /\ 0 * G = 0  BY <1>3, <1>9
  <2>2. QED  BY <1>1, <1>b, <1>9, <2>1
<1>11. \A n \in 0 .. N - 1 : n \in V => n + 1 \in V
  <2>1. SUFFICES ASSUME NEW n \in 0 .. N - 1, n \in V PROVE n + 1 \in V  OBVIOUS
  <2>2. n + 1 \in 1 .. N /\ n + 1 - 1 = n /\ n + 1 \in 0 .. N  BY <1>1
  <2>3. S[n] \in Nat /\ turnovers[n + 1] \in Nat
    <3>1. S[n] \in Nat  BY <2>1
    <3>2. QED  BY <1>4, <2>2, <3>1
  <2>4. S[n + 1] = S[n] + turnovers[n + 1]
    <3> DEFINE m == n + 1
    <3>1. m \in 1 .. N /\ m - 1 = n  BY <2>2
    <3> HIDE DEF m
    <3>2. S[m] = S[m - 1] + turnovers[m]  BY <1>9, <3>1, Zenon
    <3>3. S[m] = S[n] + turnovers[m]  BY <3>1, <3>2, Zenon
    <3>4. QED  BY <3>3, Zenon DEF m
  <2>5. C[n + 1] = C[n] + commissions[n + 1]
    <3>1. C[n + 1] = C[n + 1 - 1] + commissions[n + 1]  BY <1>b, <2>2
    <3>2. QED  BY <2>2, <3>1
  <2>6. (S[n] + turnovers[n + 1]) * P = S[n] * P + turnovers[n + 1] * P  BY <1>3, <2>3
  <2>7. (n + 1) * G = n * G + G  BY <1>3
  <2>8. commissions[n + 1] = turnovers[n + 1] * P + G + (IF n > 0 THEN 0 ELSE B)
    <3>1. n + 1 > 1 <=> n > 0  OBVIOUS
    <3>2. commissions[n + 1]
            = turnovers[n + 1] * P + G + (IF n + 1 > 1 THEN 0 ELSE B)
      BY <1>5, <2>2
    <3>3. QED  BY <3>1, <3>2
  <2>9. C[n] = S[n] * P + n * G + (IF n > 0 THEN B ELSE 0)  BY <2>1
  <2>10. /\ S[n] * P \in Int /\ turnovers[n + 1] * P \in Int /\ n * G \in Int
    BY <1>3, <2>3
  <2>11. C[n + 1] = S[n + 1] * P + (n + 1) * G + B
    BY <1>3, <2>4, <2>5, <2>6, <2>7, <2>8, <2>9, <2>10
  <2>12. QED  BY <2>2, <2>3, <2>4, <2>11
<1>12. 0 .. N \subseteq V
  <2> HIDE DEF V
  <2> QED  BY <1>1, <1>10, <1>11, UpwardInduction
<1>13. S[N] \in Nat /\ C[N] = S[N] * P + N * G + B  BY <1>1, <1>12
<1>14. Total(LegCost(rates, side, S[N], 1)) = S[N] * P + G + B
  <2> DEFINE t == S[N]
  <2>1. t \in Nat /\ 1 \in Nat /\ t * 1 = t  BY <1>13
  <2> HIDE DEF t
  <2>2. Total(LegCost(rates, side, t, 1)) = (t * 1) * P + G + B
    BY <1>0, <2>1, LegTotal DEF P, G, B
  <2>3. QED  BY <2>1, <2>2 DEF t
<1>15. C[N] = Total(LegCost(rates, side, S[N], 1)) + (N - 1) * G
  <2>1. N * G = G + (N - 1) * G  BY <1>1, <1>3
  <2>2. S[N] * P \in Int /\ (N - 1) * G \in Int  BY <1>1, <1>3, <1>13
  <2>3. QED  BY <1>3, <1>13, <1>14, <2>1, <2>2
<1>16. Charged(periods, side, fills, multiplier) = {C[N]}
  <2>1. ~ \E k \in DOMAIN fills : RatesOn(periods, fills[k].day) = {}  BY <1>0
  <2>2. QED  BY <2>1 DEF Charged, C, N, commissions
<1>17. QED  BY <1>15, <1>16 DEF G, N, S, turnovers, FlatGst, WholeCharge

(* What was given to the fee model is an order of Orders.                   *)
LEMMA OrderSubject ==
  ASSUME ReadInv, Read("order")
  PROVE  /\ subject.side \in {"BUY", "SELL"}
         /\ subject.fills \in Seq(Fill) /\ subject.fills # <<>>
         /\ subject.multiplier \in Nat \ {0}
         /\ result.charged = Charged(Periods, subject.side, subject.fills,
                                     subject.multiplier)
<1>1. subject \in Filled
  BY DEF ReadInv, Read, Master, Exchanged, Framed, Filled
<1>2. PICK o \in Orders :
        subject = [kind |-> "order", side |-> o.side, fills |-> o.fills,
                   multiplier |-> o.multiplier]
  BY <1>1 DEF Filled
<1>3. subject.side = o.side /\ subject.fills = o.fills /\ subject.multiplier = o.multiplier
  BY <1>2
<1>4. result = [charged |-> Charged(Periods, subject.side, subject.fills,
                                    subject.multiplier)]
  BY DEF ReadInv
<1>5. QED  BY <1>3, <1>4, OrdersAssumption

(* SlicesPayBrokerageOnce: an order filled in slices within one period costs *)
(* what it would have cost in one fill, and the GST on the flat brokerage    *)
(* once more for each later slice; an order with a fill no period covers is  *)
(* not priced (fees.get_commission, CostModel._rates).                       *)
THEOREM SlicesAreChargedAsOne == ReadersSpec => []SlicesPayBrokerageOnce
<1> DEFINE fills == subject.fills
           N == Len(fills)
           turnovers == [k \in DOMAIN fills |->
                           fills[k].price * (fills[k].lots * subject.multiplier)]
           covers(i, day) == Periods[i].from <= day /\ day <= Periods[i].to
           first(i, day) == /\ covers(i, day)
                            /\ \A j \in DOMAIN Periods : j < i => ~covers(j, day)
           wholeAt(rates) == Total(LegCost(rates, subject.side, PartialSums(turnovers)[N], 1))
<1>1. ASSUME ReadInv, Read("order")
      PROVE  /\ result.charged = {} <=>
                  \E k \in DOMAIN fills : \A i \in DOMAIN Periods : ~covers(i, fills[k].day)
             /\ \A i \in DOMAIN Periods :
                  (\A k \in DOMAIN fills : first(i, fills[k].day)) =>
                    result.charged = {wholeAt(Periods[i])
                                        + (N - 1) * (Periods[i].gst * Periods[i].brokerage * 10000)}
  <2>1. /\ subject.side \in {"BUY", "SELL"}
        /\ fills \in Seq(Fill) /\ fills # <<>>
        /\ subject.multiplier \in Nat \ {0}
        /\ result.charged = Charged(Periods, subject.side, fills, subject.multiplier)
    BY <1>1, OrderSubject
  <2>2. Periods \in Seq(Rate)  BY OrdersAssumption
  <2>3. \A k \in DOMAIN fills : fills[k].day \in Int
    <3>1. \A k \in DOMAIN fills : fills[k] \in Fill
      <4> HIDE DEF fills
      <4> QED  BY <2>1
    <3>2. QED  BY <3>1 DEF Fill
  <2>4. \A k \in DOMAIN fills :
          RatesOn(Periods, fills[k].day) = {}
            <=> \A i \in DOMAIN Periods : ~covers(i, fills[k].day)
    <3> HIDE DEF fills
    <3> QED  BY <2>2, <2>3, RatesOfFirstPeriod
  <2>5. result.charged = {} <=> \E k \in DOMAIN fills : RatesOn(Periods, fills[k].day) = {}
    BY <2>1, Zenon DEF Charged
  <2>6. ASSUME NEW i \in DOMAIN Periods, \A k \in DOMAIN fills : first(i, fills[k].day)
        PROVE  result.charged = {wholeAt(Periods[i])
                                   + (N - 1) * (Periods[i].gst * Periods[i].brokerage * 10000)}
    <3>1. Periods[i] \in Rate  BY <2>2
    <3>2. \A k \in DOMAIN fills : RatesOn(Periods, fills[k].day) = {Periods[i]}
      <4> HIDE DEF fills
      <4> QED  BY <2>2, <2>3, <2>6, RatesOfFirstPeriod
    <3>3. Charged(Periods, subject.side, fills, subject.multiplier)
            = {wholeAt(Periods[i])
                 + (N - 1) * (Periods[i].gst * Periods[i].brokerage * 10000)}
      <4> DEFINE rates == Periods[i]
                 side  == subject.side
                 times == subject.multiplier
      <4>1. SameRates(Periods, rates, side, fills, times)
        BY <2>1, <3>1, <3>2 DEF SameRates
      <4>2. turnovers = Turnovers(fills, times)  BY DEF Turnovers
      <4> HIDE DEF fills, turnovers, rates, side, times
      <4>3. Charged(Periods, side, fills, times) = {WholeCharge(rates, side, fills, times)}
        BY <4>1, OrderCharged
      <4>4. QED  BY <4>2, <4>3 DEF rates, side, times, WholeCharge
    <3>4. QED  BY <2>1, <3>3
  <2>7. result.charged = {} <=>
          \E k \in DOMAIN fills : \A i \in DOMAIN Periods : ~covers(i, fills[k].day)
    <3> HIDE DEF fills, covers
    <3> QED  BY <2>4, <2>5, Zenon
  <2>8. \A i \in DOMAIN Periods :
          (\A k \in DOMAIN fills : first(i, fills[k].day)) =>
            result.charged = {wholeAt(Periods[i])
                                + (N - 1) * (Periods[i].gst * Periods[i].brokerage * 10000)}
    <3> HIDE DEF fills, N, first, wholeAt
    <3> QED  BY <2>6, Zenon
  <2>9. QED
    <3> HIDE DEF fills, N, covers, first, wholeAt
    <3> QED  BY <2>7, <2>8
<1>2. ReadInv => SlicesPayBrokerageOnce
  BY <1>1, Zenon DEF SlicesPayBrokerageOnce
<1>3. QED  BY <1>2, ReadersReturnWhatTheyRead, PTL

-------------------------------------------------------------------------------
\* Frames.

(* Either socket has headers of some length and packets of known lengths.   *)
LEMMA SocketSizes ==
  ASSUME NEW socket \in {MarketFeed, Depth20}
  PROVE  /\ socket.header \in Nat \ {0}
         /\ \A c \in DOMAIN socket.sizes : socket.sizes[c] \in Nat \ {0}
<1>1. CASE socket = MarketFeed
  <2>1. socket.header = 8  BY <1>1 DEF MarketFeed
  <2>2. \A c \in DOMAIN socket.sizes : socket.sizes[c] \in {16, 50, 12, 162, 10}
    BY <1>1 DEF MarketFeed
  <2>3. QED  BY <2>1, <2>2
<1>2. CASE socket = Depth20
  <2>1. socket.header = 12  BY <1>2 DEF Depth20
  <2>2. \A c \in DOMAIN socket.sizes : socket.sizes[c] = 12 + 20 * 16  BY <1>2 DEF Depth20
  <2>3. QED  BY <2>1, <2>2
<1>3. QED  BY <1>1, <1>2

(* Packets begin one after the other, each where the one before it ends.    *)
LEMMA PacketStarts ==
  ASSUME NEW socket, NEW frame, IsFrame(socket, frame)
  PROVE  LET packets == frame.packets
             N == Len(packets)
         IN /\ N \in Nat
            /\ StartsAt(packets, 1) = 0
            /\ StartsAt(packets, N + 1) = Written(packets)
            /\ \A i \in 1 .. N + 1 : StartsAt(packets, i) \in Nat
            /\ \A i \in 1 .. N :
                 StartsAt(packets, i + 1) = StartsAt(packets, i) + packets[i].size
<1> DEFINE packets == frame.packets
           N == Len(packets)
           terms == Sizes(packets)
           S == PartialSums(terms)
<1>1. /\ packets \in Seq([code : Nat, size : Nat, declared : Nat])
      /\ socket \in {MarketFeed, Depth20}
  BY DEF IsFrame
<1>2. N \in Nat /\ DOMAIN packets = 1 .. N /\ \A i \in 1 .. N : packets[i].size \in Nat
  <2> DEFINE Packet == [code : Nat, size : Nat, declared : Nat]
  <2>1. \A p \in Packet : p.size \in Nat  OBVIOUS
  <2>2. packets \in Seq(Packet)  BY <1>1
  <2> HIDE DEF packets, Packet
  <2>3. QED  BY <2>1, <2>2
<1>3. \A i \in 1 .. N : terms[i] = packets[i].size  BY <1>2 DEF Sizes
<1>4. terms \in Seq(Int) /\ Len(terms) = N
  <2>1. terms = [i \in 1 .. N |-> packets[i].size]  BY <1>2 DEF Sizes
  <2> HIDE DEF packets, N, terms
  <2>2. QED  BY <1>2, <2>1
<1> HIDE DEF terms, N
<1>5. S[0] = 0 /\ \A n \in 1 .. N : S[n] = S[n - 1] + terms[n]
  BY <1>4, PartialSumsDef
<1> HIDE DEF S
<1> DEFINE T == {n \in 0 .. N : S[n] \in Nat}
<1>6. 0 \in T  BY <1>2, <1>5
<1>7. \A n \in 0 .. N - 1 : n \in T => n + 1 \in T
  <2>1. SUFFICES ASSUME NEW n \in 0 .. N - 1, S[n] \in Nat PROVE n + 1 \in T  OBVIOUS
  <2> DEFINE m == n + 1
  <2>2. m \in 1 .. N /\ m \in 0 .. N /\ m - 1 = n  BY <1>2
  <2> HIDE DEF m
  <2>3. S[m] = S[m - 1] + terms[m] /\ terms[m] \in Nat  BY <1>2, <1>3, <1>5, <2>2
  <2>4. S[m] \in Nat  BY <2>1, <2>2, <2>3
  <2>5. QED  BY <2>2, <2>4 DEF m
<1>8. 0 .. N \subseteq T
  <2> HIDE DEF T
  <2> QED  BY <1>2, <1>6, <1>7, UpwardInduction
<1>9. \A i : StartsAt(packets, i) = S[i - 1]  BY DEF StartsAt, S, terms
<1>10. Written(packets) = S[N]  BY DEF Written, S, terms, N
<1>11. \A i \in 1 .. N : StartsAt(packets, i + 1) = StartsAt(packets, i) + packets[i].size
  <2>1. SUFFICES ASSUME NEW i \in 1 .. N
                 PROVE  StartsAt(packets, i + 1) = StartsAt(packets, i) + packets[i].size
    OBVIOUS
  <2>2. i + 1 - 1 = i  OBVIOUS
  <2>3. StartsAt(packets, i + 1) = S[i]  BY <1>9, <2>2
  <2>4. QED  BY <1>3, <1>5, <1>9, <2>3
<1>12. \A i \in 1 .. N + 1 : StartsAt(packets, i) \in Nat
  <2>1. \A i \in 1 .. N + 1 : i - 1 \in 0 .. N  BY <1>2
  <2>2. QED  BY <1>8, <1>9, <2>1
<1>13. StartsAt(packets, 1) = 0
  <2>1. 1 - 1 = 0  OBVIOUS
  <2>2. QED  BY <1>5, <1>9, <2>1
<1>14. StartsAt(packets, N + 1) = S[N]
  <2> DEFINE m == N + 1
  <2>1. m - 1 = N  BY <1>2
  <2> HIDE DEF m
  <2>2. StartsAt(packets, m) = S[m - 1]  BY <1>9, Zenon
  <2>3. StartsAt(packets, m) = S[N]  BY <2>1, <2>2, Zenon
  <2>4. QED  BY <2>3, Zenon DEF m
<1>15. QED  BY <1>2, <1>10, <1>11, <1>12, <1>13, <1>14 DEF N

(* No two packets begin at one offset: each ends where, or before, a later   *)
(* one begins.                                                               *)
LEMMA PacketsDoNotOverlap ==
  ASSUME NEW socket, NEW frame, IsFrame(socket, frame),
         NEW i \in 1 .. Len(frame.packets), NEW j \in 1 .. Len(frame.packets) + 1, i < j
  PROVE  StartsAt(frame.packets, i) + frame.packets[i].size <= StartsAt(frame.packets, j)
<1> DEFINE packets == frame.packets
           N == Len(packets)
           start(k) == StartsAt(packets, k)
           size(k) == packets[k].size
<1>1. /\ N \in Nat
      /\ \A k \in 1 .. N + 1 : start(k) \in Nat
      /\ \A k \in 1 .. N : start(k + 1) = start(k) + size(k)
  BY PacketStarts
<1>2. \A k \in 1 .. N : size(k) \in Nat
  <2> DEFINE Packet == [code : Nat, size : Nat, declared : Nat]
  <2>1. \A p \in Packet : p.size \in Nat  OBVIOUS
  <2>2. packets \in Seq(Packet)  BY DEF IsFrame
  <2>3. \A k \in 1 .. N : packets[k] \in Packet
    <3> HIDE DEF packets, Packet
    <3> QED  BY <2>2
  <2>4. QED  BY <2>1, <2>3
<1>3. i \in 1 .. N /\ j \in 1 .. N + 1  OBVIOUS
<1> HIDE DEF packets, N, start, size
<1> DEFINE M == N - i
           T == {d \in 0 .. M : start(i) + size(i) <= start(i + 1 + d)}
<1>4. M \in Nat  BY <1>1, <1>3
<1>5. 0 \in T
  <2>1. i + 1 + 0 = i + 1  OBVIOUS
  <2>2. start(i + 1 + 0) = start(i) + size(i)  BY <1>1, <1>3, <2>1
  <2>3. start(i) + size(i) <= start(i + 1 + 0)  BY <1>1, <1>2, <1>3, <2>2
  <2>4. QED  BY <1>4, <2>3
<1>6. \A d \in 0 .. M - 1 : d \in T => d + 1 \in T
  <2>1. SUFFICES ASSUME NEW d \in 0 .. M - 1, d \in T PROVE d + 1 \in T  OBVIOUS
  <2> DEFINE k == i + 1 + d
  <2>2. k \in 1 .. N /\ k + 1 \in 1 .. N + 1 /\ i + 1 + (d + 1) = k + 1
    BY <1>1, <1>3, <1>4
  <2>3. start(i) + size(i) <= start(k)  BY <2>1
  <2> HIDE DEF k
  <2>4. start(k + 1) = start(k) + size(k)  BY <1>1, <2>2
  <2>5. start(i) + size(i) <= start(k + 1)  BY <1>1, <1>2, <1>3, <2>2, <2>3, <2>4
  <2>6. d + 1 \in 0 .. M  BY <1>4
  <2>7. start(i) + size(i) <= start(i + 1 + (d + 1))  BY <2>2, <2>5
  <2>8. QED  BY <2>6, <2>7
<1>7. 0 .. M \subseteq T
  <2> HIDE DEF T, M
  <2> QED  BY <1>4, <1>5, <1>6, UpwardInduction
<1> DEFINE e == j - (i + 1)
<1>8. e \in 0 .. M /\ i + 1 + e = j  BY <1>1, <1>3
<1>9. start(i) + size(i) <= start(i + 1 + e)
  <2> HIDE DEF e, M
  <2> QED  BY <1>7, <1>8
<1>10. start(i) + size(i) <= start(j)
  <2> HIDE DEF e
  <2> QED  BY <1>8, <1>9
<1>11. QED  BY <1>10 DEF start, size, packets

(* What is read where a packet begins is its header.                         *)
LEMMA HeaderOfPacket ==
  ASSUME NEW socket, NEW frame, IsFrame(socket, frame),
         NEW i \in 1 .. Len(frame.packets)
  PROVE  HeaderAt(frame, StartsAt(frame.packets, i))
           = [code |-> frame.packets[i].code, declared |-> frame.packets[i].declared,
              from |-> i]
<1> DEFINE packets == frame.packets
           N == Len(packets)
           start(k) == StartsAt(packets, k)
           here == {k \in DOMAIN packets : start(k) = start(i)}
<1>1. N \in Nat /\ \A k \in 1 .. N + 1 : start(k) \in Nat  BY PacketStarts
<1>2. DOMAIN packets = 1 .. N
  <2>1. packets \in Seq([code : Nat, size : Nat, declared : Nat])  BY DEF IsFrame
  <2> HIDE DEF packets
  <2>2. QED  BY <2>1
<1>3. \A k \in 1 .. N : packets[k].size \in Nat \ {0}
  <2> DEFINE Packet == [code : Nat, size : Nat, declared : Nat]
  <2>1. \A p \in Packet : p.size \in Nat  OBVIOUS
  <2>2. packets \in Seq(Packet) /\ socket \in {MarketFeed, Depth20}  BY DEF IsFrame
  <2>3. \A k \in 1 .. N : packets[k] \in Packet
    <3> HIDE DEF packets, Packet
    <3> QED  BY <2>2
  <2>4. \A k \in 1 .. N : packets[k].size >= socket.header  BY <1>2 DEF IsFrame
  <2>5. socket.header \in Nat \ {0}  BY <2>2, SocketSizes
  <2>6. \A k \in 1 .. N : packets[k].size \in Nat  BY <2>1, <2>3
  <2> HIDE DEF packets
  <2>7. QED  BY <2>4, <2>5, <2>6
<1>4. \A j, k \in 1 .. N : j < k => start(j) + packets[j].size <= start(k)
  BY <1>1, PacketsDoNotOverlap
<1>5. i \in 1 .. N  OBVIOUS
<1>6. \A k \in 1 .. N : start(k) = start(i) => k = i
  <2> HIDE DEF packets, N, start
  <2>1. SUFFICES ASSUME NEW k \in 1 .. N, start(k) = start(i), k # i PROVE FALSE
    OBVIOUS
  <2>2. start(k) \in Nat /\ start(i) \in Nat  BY <1>1, <1>5
  <2>3. CASE k < i  BY <1>3, <1>4, <1>5, <2>1, <2>2, <2>3
  <2>4. CASE i < k  BY <1>3, <1>4, <1>5, <2>1, <2>2, <2>4
  <2>5. QED  BY <1>1, <1>5, <2>1, <2>3, <2>4
<1>7. here = {i}
  <2> HIDE DEF packets, N, start
  <2> QED  BY <1>2, <1>5, <1>6
<1>8. (CHOOSE k \in here : TRUE) = i
  <2> HIDE DEF here
  <2>1. (CHOOSE k \in {i} : TRUE) = i  OBVIOUS
  <2>2. QED  BY <1>7, <2>1
<1>9. HeaderAt(frame, start(i))
        = IF here = {}
          THEN [code |-> frame.noise.code, declared |-> frame.noise.declared, from |-> 0]
          ELSE LET k == CHOOSE k \in here : TRUE
               IN [code |-> packets[k].code, declared |-> packets[k].declared, from |-> k]
  BY Zenon DEF HeaderAt
<1>10. here # {}  BY <1>7
<1>11. QED
  <2> HIDE DEF here
  <2> QED  BY <1>8, <1>9, <1>10

(* What is read as a header has the fields of one, wherever it is read.      *)
LEMMA HeaderIsRead ==
  ASSUME NEW socket, NEW frame, IsFrame(socket, frame), NEW offset
  PROVE  HeaderAt(frame, offset) \in [code : Nat, declared : Nat, from : Nat]
<1> DEFINE packets == frame.packets
           head == HeaderAt(frame, offset)
           here == {k \in DOMAIN packets : StartsAt(packets, k) = offset}
<1>1. frame.noise.declared \in Nat /\ frame.noise.code \in Nat  BY DEF IsFrame
<1>2. \A k \in DOMAIN packets :
        packets[k].declared \in Nat /\ packets[k].code \in Nat /\ k \in Nat
  <2> DEFINE Packet == [code : Nat, size : Nat, declared : Nat]
  <2>1. \A p \in Packet : p.declared \in Nat /\ p.code \in Nat  OBVIOUS
  <2>2. packets \in Seq(Packet)  BY DEF IsFrame
  <2>3. \A k \in DOMAIN packets : packets[k] \in Packet /\ k \in Nat
    <3> HIDE DEF packets, Packet
    <3> QED  BY <2>2
  <2>4. QED  BY <2>1, <2>3
<1>3. head = IF here = {}
             THEN [code |-> frame.noise.code, declared |-> frame.noise.declared, from |-> 0]
             ELSE LET k == CHOOSE k \in here : TRUE
                  IN [code |-> packets[k].code, declared |-> packets[k].declared, from |-> k]
  BY Zenon DEF HeaderAt
<1>4. here # {} => (CHOOSE k \in here : TRUE) \in here  OBVIOUS
<1>5. here \subseteq DOMAIN packets  OBVIOUS
<1> HIDE DEF head, here, packets
<1>6. CASE here = {}
  <2>1. head \in [code : Nat, declared : Nat, from : Nat]  BY <1>1, <1>3, <1>6
  <2>2. QED  BY <2>1 DEF head
<1>7. CASE here # {}
  <2> DEFINE k == CHOOSE k \in here : TRUE
  <2>1. k \in DOMAIN packets  BY <1>4, <1>5, <1>7
  <2>2. head = [code |-> packets[k].code, declared |-> packets[k].declared, from |-> k]
    BY <1>3, <1>7
  <2> HIDE DEF k
  <2>3. head \in [code : Nat, declared : Nat, from : Nat]  BY <1>2, <2>1, <2>2
  <2>4. QED  BY <2>3 DEF head
<1>8. QED  BY <1>6, <1>7

(* Whatever is read where none was written, a header says a length.          *)
LEMMA StrideIsLength ==
  ASSUME NEW socket, NEW frame, IsFrame(socket, frame), NEW offset
  PROVE  Stride(socket, HeaderAt(frame, offset)) \in Nat
<1> DEFINE head == HeaderAt(frame, offset)
<1>1. socket \in {MarketFeed, Depth20}  BY DEF IsFrame
<1>2. head.declared \in Nat  BY HeaderIsRead
<1>3. \A c \in DOMAIN socket.sizes : socket.sizes[c] \in Nat  BY <1>1, SocketSizes
<1> HIDE DEF head
<1>4. Stride(socket, head) \in Nat  BY <1>2, <1>3 DEF Stride
<1>5. QED  BY <1>4 DEF head

\* The body of the loop: what is made of the rest of a frame from an offset on,
\* given what "from" makes of the offsets behind it.
LoopBody(socket, frame, from, offset) ==
  LET stride == Stride(socket, HeaderAt(frame, offset)) IN
  IF offset + socket.header > frame.size THEN NothingSeen
  ELSE Turn(socket, frame, offset,
            IF Stops(socket, frame, offset) \/ stride <= 0 THEN CutShort
            ELSE from[offset + stride])

(* The body asks only about offsets behind its own.                          *)
LEMMA LoopGoesForward ==
  ASSUME NEW socket, NEW frame, IsFrame(socket, frame),
         NEW offset \in 0 .. frame.size, NEW f, NEW g,
         \A o \in offset + 1 .. frame.size : f[o] = g[o]
  PROVE  LoopBody(socket, frame, f, offset) = LoopBody(socket, frame, g, offset)
<1> DEFINE stride == Stride(socket, HeaderAt(frame, offset))
<1>1. stride \in Nat  BY StrideIsLength
<1>2. frame.size \in Nat
  <2>1. frame.size \in 0 .. Written(frame.packets)  BY DEF IsFrame
  <2>2. QED  BY <2>1
<1>3. CASE Stops(socket, frame, offset) \/ stride <= 0
  BY <1>3 DEF LoopBody
<1>4. CASE ~ (Stops(socket, frame, offset) \/ stride <= 0)
  <2>1. offset + stride <= frame.size
    <3>1. ~ (offset + stride > frame.size)  BY <1>4 DEF Stops
    <3> HIDE DEF stride
    <3>2. QED  BY <1>1, <1>2, <3>1
  <2>2. offset + stride \in offset + 1 .. frame.size
    <3>1. ~ (stride <= 0)  BY <1>4
    <3> HIDE DEF stride
    <3>2. QED  BY <1>1, <1>2, <2>1, <3>1
  <2>3. f[offset + stride] = g[offset + stride]
    <3> HIDE DEF stride
    <3> QED  BY <2>2
  <2>4. QED  BY <2>3 DEF LoopBody
<1>5. QED  BY <1>3, <1>4

(* The recursion of Frame is one: there is a function that obeys it.         *)
LEMMA FrameLoop ==
  ASSUME NEW socket, NEW frame, IsFrame(socket, frame)
  PROVE  \E from : /\ Frame(socket, frame) = from[0]
                   /\ \A o \in 0 .. frame.size : from[o] = LoopBody(socket, frame, from, o)
<1> DEFINE N == frame.size
           body(f, o) == LoopBody(socket, frame, f, o)
           Is(f) == f = [o \in 0 .. N |-> body(f, o)]
           Obeys(g, m) == \A o \in m .. N : g[o] = body(g, o)
           Exists(m) == \E g : Obeys(g, m)
           T == {m \in 0 .. N : Exists(m)}
<1>1. N \in Nat
  <2>1. frame.size \in 0 .. Written(frame.packets)  BY DEF IsFrame
  <2>2. QED  BY <2>1
<1>2. \A o \in 0 .. N : \A f, g : (\A x \in o + 1 .. N : f[x] = g[x]) => body(f, o) = body(g, o)
  BY LoopGoesForward
<1> HIDE DEF N, body
<1>3. N \in T
  <2> DEFINE g == [o \in N .. N |-> body(<<>>, o)]
  <2>1. \A o \in N .. N : o = N  BY <1>1
  <2>2. N + 1 .. N = {} /\ N \in N .. N /\ N \in 0 .. N  BY <1>1
  <2>3. body(g, N) = body(<<>>, N)  BY <1>2, <2>2
  <2>4. g[N] = body(<<>>, N)  BY <2>2
  <2>5. Obeys(g, N)
    <3> HIDE DEF g
    <3> QED  BY <2>1, <2>3, <2>4
  <2>6. Exists(N)  BY <2>5
  <2>7. QED  BY <2>2, <2>6
<1>4. \A m \in 0 .. N - 1 : m + 1 \in T => m \in T
  <2>1. SUFFICES ASSUME NEW m \in 0 .. N - 1, m + 1 \in T PROVE m \in T  OBVIOUS
  <2>2. PICK g : Obeys(g, m + 1)  BY <2>1
  <2> DEFINE h == [o \in m .. N |-> IF o = m THEN body(g, m) ELSE g[o]]
  <2>3. ASSUME NEW o \in m .. N PROVE h[o] = body(h, o)
    <3>1. \A x \in o + 1 .. N : h[x] = g[x]  BY <1>1
    <3>2. o \in 0 .. N  BY <1>1
    <3>3. body(h, o) = body(g, o)
      <4> HIDE DEF h
      <4> QED  BY <1>2, <3>1, <3>2
    <3>4. h[o] = body(g, o)
      <4>1. CASE o = m  BY <4>1
      <4>2. CASE o # m
        <5>1. o \in m + 1 .. N  BY <1>1, <4>2
        <5>2. g[o] = body(g, o)  BY <2>2, <5>1
        <5>3. h[o] = g[o]  BY <4>2
        <5>4. QED  BY <5>2, <5>3
      <4>3. QED  BY <4>1, <4>2
    <3>5. QED  BY <3>3, <3>4
  <2>4. Obeys(h, m)
    <3> HIDE DEF h
    <3> QED  BY <2>3
  <2>5. Exists(m)
    <3> HIDE DEF h, Obeys
    <3> QED  BY <2>4
  <2>6. m \in 0 .. N  BY <1>1
  <2>7. QED  BY <2>5, <2>6
<1>5. 0 .. N \subseteq T
  <2> HIDE DEF T
  <2> QED  BY <1>1, <1>3, <1>4, DownwardInduction
<1>6. PICK g : Obeys(g, 0)
  <2>1. 0 \in T
    <3> HIDE DEF T
    <3> QED  BY <1>1, <1>5
  <2>2. Exists(0)  BY <2>1
  <2>3. QED  BY <2>2
<1>7. \E f : Is(f)
  <2> DEFINE f == [o \in 0 .. N |-> g[o]]
  <2>1. \A o \in 0 .. N : body(f, o) = body(g, o)
    <3>1. \A o \in 0 .. N : \A x \in o + 1 .. N : f[x] = g[x]  BY <1>1
    <3> HIDE DEF f
    <3>2. QED  BY <1>2, <3>1
  <2>2. \A o \in 0 .. N : g[o] = body(f, o)  BY <1>6, <2>1
  <2>3. f = [o \in 0 .. N |-> body(f, o)]  BY <2>2
  <2>4. Is(f)  BY <2>3
  <2>5. QED
    <3> HIDE DEF f, Is
    <3> QED  BY <2>4
<1> DEFINE from == CHOOSE f : Is(f)
<1>8. Is(from)
  <2> HIDE DEF Is
  <2> QED  BY <1>7
<1>9. Frame(socket, frame) = from[0]
  BY Zenon DEF Frame, LoopBody, body, N
<1>10. \A o \in 0 .. N : from[o] = body(from, o)
  <2>1. from = [o \in 0 .. N |-> body(from, o)]  BY <1>8
  <2> HIDE DEF from, Is
  <2>2. QED  BY <2>1
<1>11. QED
  <2> HIDE DEF from
  <2> QED  BY <1>9, <1>10 DEF body, N

\* What has been made of the rest of a frame.
Reading == [code : Nat, from : Nat]
Counted(seen) == /\ seen.packets \in Seq(Reading)
                 /\ seen.truncated \in Nat
                 /\ seen.unknown \in Nat

\* "from" is the loop of Frame.
Loops(socket, frame, from) ==
  \A o \in 0 .. frame.size : from[o] = LoopBody(socket, frame, from, o)

(* One turn adds at most a packet, and never takes a count back.             *)
LEMMA TurnCounts ==
  ASSUME NEW socket, NEW frame, IsFrame(socket, frame), NEW offset,
         NEW rest, Counted(rest)
  PROVE  Counted(Turn(socket, frame, offset, rest))
<1> DEFINE head == HeaderAt(frame, offset)
           turn == Turn(socket, frame, offset, rest)
           known == head.code \in DOMAIN socket.sizes
           reading == [code |-> head.code, from |-> head.from]
<1>1. reading \in Reading  BY HeaderIsRead DEF Reading
<1>2. /\ turn.packets = IF known /\ ~Stops(socket, frame, offset)
                        THEN <<reading>> \o rest.packets ELSE rest.packets
      /\ turn.truncated = rest.truncated
      /\ turn.unknown = rest.unknown + (IF known THEN 0 ELSE 1)
  BY DEF Turn
<1> HIDE DEF reading, known, turn
<1>3. turn.packets \in Seq(Reading)
  <2>1. <<reading>> \o rest.packets \in Seq(Reading)
    <3>1. <<reading>> \in Seq(Reading)  BY <1>1
    <3>2. QED  BY <3>1 DEF Counted
  <2>2. QED  BY <1>2, <2>1 DEF Counted
<1>4. turn.truncated \in Nat /\ turn.unknown \in Nat  BY <1>2 DEF Counted
<1>5. QED  BY <1>3, <1>4 DEF Counted, turn

(* Wherever the loop is begun, it counts.                                    *)
LEMMA LoopCounts ==
  ASSUME NEW socket, NEW frame, IsFrame(socket, frame),
         NEW from, Loops(socket, frame, from)
  PROVE  \A o \in 0 .. frame.size : Counted(from[o])
<1> DEFINE N == frame.size
           T == {m \in 0 .. N : \A o \in m .. N : Counted(from[o])}
<1>1. N \in Nat
  <2>1. frame.size \in 0 .. Written(frame.packets)  BY DEF IsFrame
  <2>2. QED  BY <2>1
<1>2. Counted(NothingSeen) /\ Counted(CutShort)
  BY DEF Counted, NothingSeen, CutShort
<1>3. ASSUME NEW o \in 0 .. N, \A x \in o + 1 .. N : Counted(from[x])
      PROVE  Counted(from[o])
  <2> DEFINE stride == Stride(socket, HeaderAt(frame, o))
             rest == IF Stops(socket, frame, o) \/ stride <= 0 THEN CutShort
                     ELSE from[o + stride]
  <2>1. from[o] = IF o + socket.header > frame.size THEN NothingSeen
                  ELSE Turn(socket, frame, o, rest)
    BY DEF Loops, LoopBody
  <2>2. Counted(rest)
    <3>1. CASE Stops(socket, frame, o) \/ stride <= 0  BY <1>2, <3>1
    <3>2. CASE ~ (Stops(socket, frame, o) \/ stride <= 0)
      <4>1. ~ (o + stride > frame.size)  BY <3>2 DEF Stops
      <4>2. stride \in Nat  BY StrideIsLength
      <4>3. ~ (stride <= 0) /\ rest = from[o + stride]  BY <3>2
      <4> HIDE DEF stride, rest
      <4>4. o + stride \in o + 1 .. N  BY <1>1, <4>1, <4>2, <4>3
      <4>5. QED  BY <1>3, <4>3, <4>4
    <3>3. QED  BY <3>1, <3>2
  <2>3. Counted(Turn(socket, frame, o, rest))
    <3> HIDE DEF rest
    <3> QED  BY <2>2, TurnCounts
  <2>4. QED  BY <1>2, <2>1, <2>3
<1> HIDE DEF N
<1>4. N \in T
  <2>1. \A o \in N .. N : o \in 0 .. N /\ o + 1 .. N = {}  BY <1>1
  <2>2. N \in 0 .. N  BY <1>1
  <2>3. QED  BY <1>3, <2>1, <2>2
<1>5. \A m \in 0 .. N - 1 : m + 1 \in T => m \in T
  <2>1. SUFFICES ASSUME NEW m \in 0 .. N - 1, m + 1 \in T PROVE m \in T  OBVIOUS
  <2>2. m \in 0 .. N  BY <1>1
  <2>3. \A x \in m + 1 .. N : Counted(from[x])  BY <2>1
  <2>4. Counted(from[m])  BY <1>3, <2>2, <2>3
  <2>5. \A o \in m .. N : o = m \/ o \in m + 1 .. N  BY <1>1
  <2>6. QED  BY <2>2, <2>3, <2>4, <2>5
<1>6. 0 .. N \subseteq T
  <2> HIDE DEF T
  <2> QED  BY <1>1, <1>4, <1>5, DownwardInduction
<1>7. \A o \in 0 .. N : Counted(from[o])
  <2>1. \A o \in 0 .. N : o \in o .. N  BY <1>1
  <2>2. QED  BY <1>6, <2>1
<1>8. QED  BY <1>7 DEF N

(* What the loop makes of a packet that begins where it stands.              *)
LEMMA LoopAtPacket ==
  ASSUME NEW socket, NEW frame, IsFrame(socket, frame),
         NEW from, Loops(socket, frame, from),
         NEW i \in 1 .. Len(frame.packets)
  PROVE  LET packets == frame.packets
             packet == packets[i]
             start == StartsAt(packets, i)
             next == StartsAt(packets, i + 1)
             seen == from[start]
             known == packet.code \in DOMAIN socket.sizes
         IN /\ start + socket.header > frame.size /\ start <= frame.size =>
                 seen = NothingSeen
            /\ start + socket.header <= frame.size =>
                 /\ known /\ next > frame.size =>
                      seen.packets = <<>> /\ seen.truncated > 0
                 /\ known /\ next <= frame.size =>
                      /\ seen.packets
                           = <<[code |-> packet.code, from |-> i]>> \o from[next].packets
                      /\ seen.truncated = from[next].truncated
                      /\ seen.unknown = from[next].unknown
                 /\ ~known => seen.unknown > 0
                 /\ ~known /\ packet.declared = packet.size /\ packet.size > socket.header =>
                      seen.packets = IF next > frame.size THEN <<>> ELSE from[next].packets
<1> DEFINE packets == frame.packets
           packet == packets[i]
           start == StartsAt(packets, i)
           next == StartsAt(packets, i + 1)
           seen == from[start]
           known == packet.code \in DOMAIN socket.sizes
           head == HeaderAt(frame, start)
           stride == Stride(socket, head)
           stops == Stops(socket, frame, start)
           rest == IF stops \/ stride <= 0 THEN CutShort ELSE from[start + stride]
           turn == Turn(socket, frame, start, rest)
           reading == [code |-> packet.code, from |-> i]
           H == socket.header
           size == frame.size
<1>1. head = [code |-> packet.code, declared |-> packet.declared, from |-> i]
  BY HeaderOfPacket
<1>2. /\ start \in Nat /\ next \in Nat /\ next = start + packet.size
  BY PacketStarts
<1>3. packet.size >= H /\ (known => packet.size = socket.sizes[packet.code])
  <2>1. i \in DOMAIN packets
    <3>1. packets \in Seq([code : Nat, size : Nat, declared : Nat])  BY DEF IsFrame
    <3>2. i \in 1 .. Len(packets)  OBVIOUS
    <3> HIDE DEF packets
    <3>3. QED  BY <3>1, <3>2
  <2>2. QED  BY <2>1, Zenon DEF IsFrame
<1>4. H \in Nat \ {0}
  <2>1. socket \in {MarketFeed, Depth20}  BY DEF IsFrame
  <2>2. QED  BY <2>1, SocketSizes
<1>5. packet.size \in Nat /\ packet.declared \in Nat
  <2> DEFINE Packet == [code : Nat, size : Nat, declared : Nat]
  <2>1. \A p \in Packet : p.declared \in Nat /\ p.size \in Nat  OBVIOUS
  <2>2. packets \in Seq(Packet)  BY DEF IsFrame
  <2>3. packets[i] \in Packet
    <3> HIDE DEF Packet
    <3> QED  BY <2>2
  <2>4. QED  BY <2>1, <2>3
<1>6. size \in Nat
  <2>1. frame.size \in 0 .. Written(frame.packets)  BY DEF IsFrame
  <2>2. QED  BY <2>1
<1>7. stride = IF known THEN packet.size ELSE packet.declared
  <2>1. head.code = packet.code /\ head.declared = packet.declared  BY <1>1
  <2> HIDE DEF head, packet
  <2>2. stride = IF known THEN socket.sizes[packet.code] ELSE packet.declared
    BY <2>1 DEF Stride
  <2>3. QED  BY <1>3, <2>2
<1>8. stops <=> \/ start + stride > size
                \/ ~known /\ stride <= H
  <2>1. head.code = packet.code  BY <1>1
  <2>2. QED  BY <2>1 DEF Stops
<1>9. start <= size => seen = IF start + H > size THEN NothingSeen ELSE turn
  <2>1. start <= size => start \in 0 .. size  BY <1>2, <1>6
  <2>2. QED  BY <2>1 DEF Loops, LoopBody
<1>10. /\ turn.packets = IF known /\ ~stops THEN <<reading>> \o rest.packets ELSE rest.packets
       /\ turn.truncated = rest.truncated
       /\ turn.unknown = rest.unknown + (IF known THEN 0 ELSE 1)
  <2>1. head.code = packet.code /\ head.from = i  BY <1>1
  <2>2. QED  BY <2>1 DEF Turn
<1>11. CutShort.packets = <<>> /\ CutShort.truncated = 1 /\ CutShort.unknown = 0
  BY DEF CutShort, NothingSeen
<1>12. Counted(rest)
  <2>1. Counted(CutShort)  BY DEF Counted, CutShort, NothingSeen
  <2>2. CASE stops \/ stride <= 0  BY <2>1, <2>2
  <2>3. CASE ~ (stops \/ stride <= 0)
    <3>1. rest = from[start + stride]  BY <2>3
    <3>2. stride \in Nat  BY StrideIsLength
    <3>3. ~ (start + stride > size)  BY <1>8, <2>3
    <3> HIDE DEF start, stride, size, rest
    <3>4. start + stride \in 0 .. size  BY <1>2, <1>6, <3>2, <3>3
    <3>5. \A o \in 0 .. size : Counted(from[o])  BY LoopCounts DEF size
    <3>6. QED  BY <3>1, <3>4, <3>5
  <2>4. QED  BY <2>2, <2>3
<1>13. rest.unknown \in Nat /\ rest.truncated \in Nat  BY <1>12 DEF Counted
<1>14. rest = IF stops \/ stride <= 0 THEN CutShort ELSE from[start + stride]
  OBVIOUS
<1> HIDE DEF packet, start, next, known, head, stride, stops, rest, turn, reading, H, size
<1>15. start + H > size /\ start <= size => seen = NothingSeen  BY <1>9
<1>16. ASSUME start + H <= size PROVE seen = turn
  <2>1. start <= size  BY <1>2, <1>4, <1>6, <1>16
  <2>2. ~ (start + H > size)  BY <1>2, <1>4, <1>6, <1>16
  <2>3. QED  BY <1>9, <2>1, <2>2
<1>17. ASSUME start + H <= size, known, next > size
       PROVE  seen.packets = <<>> /\ seen.truncated > 0
  <2>1. stops  BY <1>2, <1>7, <1>8, <1>17
  <2>2. rest = CutShort  BY <1>14, <2>1
  <2>3. seen = turn  BY <1>16, <1>17
  <2>4. turn.packets = <<>> /\ turn.truncated = 1  BY <1>10, <1>11, <2>1, <2>2
  <2>5. QED  BY <2>3, <2>4
<1>18. ASSUME start + H <= size, known, next <= size
       PROVE  /\ seen.packets = <<reading>> \o from[next].packets
              /\ seen.truncated = from[next].truncated
              /\ seen.unknown = from[next].unknown
  <2>1. ~stops /\ ~ (stride <= 0) /\ start + stride = next
    BY <1>2, <1>3, <1>4, <1>5, <1>6, <1>7, <1>8, <1>18
  <2>2. rest = from[next]  BY <1>14, <2>1
  <2>3. seen = turn  BY <1>16, <1>18
  <2>4. QED  BY <1>10, <1>13, <1>18, <2>1, <2>2, <2>3
<1>19. ASSUME start + H <= size, ~known PROVE seen.unknown > 0
  <2>1. seen = turn  BY <1>16, <1>19
  <2>2. QED  BY <1>10, <1>13, <1>19, <2>1
<1>20. ASSUME start + H <= size, ~known, packet.declared = packet.size, packet.size > H
       PROVE  seen.packets = IF next > size THEN <<>> ELSE from[next].packets
  <2>1. seen = turn /\ turn.packets = rest.packets  BY <1>10, <1>16, <1>20
  <2>2. stride = packet.size /\ start + stride = next  BY <1>2, <1>7, <1>20
  <2>3. stops <=> next > size  BY <1>4, <1>5, <1>8, <1>20, <2>2
  <2>4. ~ (stride <= 0)  BY <1>4, <1>5, <1>20, <2>2
  <2>5. QED  BY <1>11, <1>14, <2>1, <2>2, <2>3, <2>4
<1>21. QED
  BY <1>15, <1>17, <1>18, <1>19, <1>20
     DEF packet, start, next, known, reading, H, size

(* Begun at a packet, the loop passes over none of the market feed's without *)
(* counting it, unless no header of it arrived.                              *)
LEMMA NoneIsPassedOver ==
  ASSUME NEW socket, NEW frame, IsFrame(socket, frame),
         NEW from, Loops(socket, frame, from)
  PROVE  \A i \in 1 .. Len(frame.packets) :
           \/ StartsAt(frame.packets, i) + socket.header > frame.size
           \/ \E k \in DOMAIN from[0].packets : from[0].packets[k].from = i
           \/ from[0].truncated + from[0].unknown > 0
<1> DEFINE packets == frame.packets
           N == Len(packets)
           H == socket.header
           size == frame.size
           start(i) == StartsAt(packets, i)
           known(i) == packets[i].code \in DOMAIN socket.sizes
           Read1(seen, i) == \E k \in DOMAIN seen.packets : seen.packets[k].from = i
           Lost(seen) == seen.truncated + seen.unknown > 0
           Complete(m) == \A i \in m .. N : \/ start(i) + H > size
                                            \/ Read1(from[start(m)], i)
           Fine(m) == m > 0 /\ start(m) + H <= size => Lost(from[start(m)]) \/ Complete(m)
           M == N + 1
           T == {m \in 0 .. M : Fine(m)}
<1>1. /\ N \in Nat /\ start(1) = 0 /\ start(N + 1) = Written(packets)
      /\ \A i \in 1 .. N + 1 : start(i) \in Nat
  BY PacketStarts
<1>2. H \in Nat \ {0} /\ size \in 0 .. Written(packets) /\ size \in Nat
  <2>1. socket \in {MarketFeed, Depth20} /\ frame.size \in 0 .. Written(frame.packets)
    BY DEF IsFrame
  <2>2. QED  BY <2>1, SocketSizes
<1>3. \A o \in 0 .. size : Counted(from[o])  BY LoopCounts
<1>4. \A i \in 1 .. N : start(i) + H <= size =>
        /\ known(i) /\ start(i + 1) > size => from[start(i)].truncated > 0
        /\ known(i) /\ start(i + 1) <= size =>
             /\ from[start(i)].packets
                  = <<[code |-> packets[i].code, from |-> i]>> \o from[start(i + 1)].packets
             /\ from[start(i)].truncated = from[start(i + 1)].truncated
             /\ from[start(i)].unknown = from[start(i + 1)].unknown
        /\ ~known(i) => from[start(i)].unknown > 0
  BY LoopAtPacket
<1>5. \A i \in 1 .. N, j \in 1 .. N + 1 : i < j => start(i) <= start(j)
  <2>1. SUFFICES ASSUME NEW i \in 1 .. N, NEW j \in 1 .. N + 1, i < j
                 PROVE  start(i) <= start(j)
    OBVIOUS
  <2>2. start(i) + packets[i].size <= start(j)  BY <2>1, PacketsDoNotOverlap
  <2>3. packets[i].size \in Nat
    <3> DEFINE Packet == [code : Nat, size : Nat, declared : Nat]
    <3>1. \A p \in Packet : p.size \in Nat  OBVIOUS
    <3>2. packets \in Seq(Packet)  BY DEF IsFrame
    <3>3. packets[i] \in Packet
      <4> HIDE DEF Packet
      <4> QED  BY <3>2
    <3>4. QED  BY <3>1, <3>3
  <2>4. start(i) \in Nat /\ start(j) \in Nat  BY <1>1
  <2> HIDE DEF start, packets
  <2>5. QED  BY <2>2, <2>3, <2>4
<1> HIDE DEF packets, N, H, size, start, known
<1>6. \A i \in 1 .. N : Counted(from[start(i)]) \/ start(i) > size
  BY <1>1, <1>2, <1>3
<1>7. \A n \in 0 .. M - 1 : n + 1 \in T => n \in T
  <2>1. SUFFICES ASSUME NEW n \in 0 .. M - 1, n + 1 \in T,
                        n > 0, start(n) + H <= size, ~Lost(from[start(n)])
                 PROVE  Complete(n)
    BY <1>1
  <2>2. n \in 1 .. N /\ n + 1 \in 1 .. N + 1 /\ n < n + 1  BY <1>1, <2>1
  <2>3. start(n) \in Nat /\ start(n + 1) \in Nat  BY <1>1, <2>2
  <2>4. Counted(from[start(n)])  BY <1>2, <1>6, <2>1, <2>2, <2>3
  <2>5. known(n) /\ start(n + 1) <= size
    <3>1. ~ (from[start(n)].truncated > 0) /\ ~ (from[start(n)].unknown > 0)
      BY <2>1, <2>4 DEF Counted
    <3>2. known(n) /\ ~ (start(n + 1) > size)  BY <1>4, <2>1, <2>2, <3>1
    <3>3. QED  BY <1>2, <2>3, <3>2
  <2> DEFINE rest == from[start(n + 1)]
             seen == from[start(n)]
             first == [code |-> packets[n].code, from |-> n]
  <2>6. /\ seen.packets = <<first>> \o rest.packets
        /\ seen.truncated = rest.truncated /\ seen.unknown = rest.unknown
    BY <1>4, <2>1, <2>2, <2>5
  <2>7. Counted(rest)
    <3>1. start(n + 1) \in 0 .. size  BY <1>2, <2>3, <2>5
    <3>2. QED  BY <1>3, <3>1
  <2>8. /\ Len(seen.packets) = 1 + Len(rest.packets) /\ Len(rest.packets) \in Nat
        /\ seen.packets[1].from = n
        /\ \A k \in 1 .. Len(rest.packets) : seen.packets[k + 1] = rest.packets[k]
        /\ DOMAIN seen.packets = 1 .. 1 + Len(rest.packets)
        /\ DOMAIN rest.packets = 1 .. Len(rest.packets)
    <3>1. rest.packets \in Seq(Reading)  BY <2>7 DEF Counted
    <3> HIDE DEF rest, seen
    <3>2. QED  BY <2>6, <3>1
  <2>9. ~Lost(rest)  BY <2>1, <2>6
  <2>10. start(n + 1) + H <= size => Complete(n + 1)
    <3>1. n + 1 > 0  BY <2>2
    <3>2. QED  BY <2>1, <2>9, <3>1
  <2>11. ASSUME NEW i \in n .. N, start(i) + H <= size PROVE Read1(seen, i)
    <3>1. CASE i = n
      <4>1. 1 \in DOMAIN seen.packets  BY <2>8
      <4>2. QED  BY <2>8, <3>1, <4>1
    <3>2. CASE i # n
      <4>1. i \in n + 1 .. N /\ i \in 1 .. N + 1  BY <1>1, <2>2, <3>2
      <4>2. start(n + 1) <= start(i)
        <5>1. i = n + 1 \/ n + 1 < i  BY <1>1, <4>1
        <5>2. CASE i = n + 1  BY <2>3, <5>2
        <5>3. CASE n + 1 < i
          <6>1. n + 1 \in 1 .. N  BY <1>1, <2>2, <4>1
          <6>2. QED  BY <1>5, <4>1, <5>3, <6>1
        <5>4. QED  BY <5>1, <5>2, <5>3
      <4>3. start(i) \in Nat  BY <1>1, <4>1
      <4>4. start(n + 1) + H <= size  BY <1>2, <2>3, <2>11, <4>2, <4>3
      <4>5. Read1(rest, i)
        <5>1. Complete(n + 1)  BY <2>10, <4>4
        <5>2. ~ (start(i) + H > size)  BY <1>2, <2>11, <4>3
        <5>3. QED  BY <4>1, <5>1, <5>2
      <4>6. PICK k \in DOMAIN rest.packets : rest.packets[k].from = i  BY <4>5
      <4>7. k + 1 \in DOMAIN seen.packets /\ seen.packets[k + 1].from = i
        <5>1. k \in 1 .. Len(rest.packets)  BY <2>8, <4>6
        <5>2. k + 1 \in 1 .. 1 + Len(rest.packets)  BY <2>8, <5>1
        <5> HIDE DEF seen, rest
        <5>3. seen.packets[k + 1] = rest.packets[k]  BY <2>8, <5>1
        <5>4. QED  BY <2>8, <4>6, <5>2, <5>3
      <4>8. QED  BY <4>7
    <3>3. QED  BY <3>1, <3>2
  <2>12. QED
    <3>1. \A i \in n .. N : start(i) + H <= size \/ start(i) + H > size
      <4>1. \A i \in n .. N : start(i) \in Nat  BY <1>1, <2>2
      <4>2. QED  BY <1>2, <4>1
    <3> HIDE DEF Read1, seen
    <3>2. QED  BY <2>11, <3>1 DEF seen
<1>8. M \in T
  <2>1. start(M) = Written(packets) /\ start(M) \in Nat  BY <1>1
  <2> HIDE DEF M
  <2>2. ~ (start(M) + H <= size)  BY <1>2, <2>1
  <2>3. M \in 0 .. M  BY <1>1 DEF M
  <2>4. QED  BY <2>2, <2>3
<1>9. 0 .. M \subseteq T
  <2>1. M \in Nat  BY <1>1
  <2> HIDE DEF T, M
  <2>2. QED  BY <1>7, <1>8, <2>1, DownwardInduction
<1>10. ASSUME NEW i \in 1 .. N
       PROVE  start(i) + H > size \/ Read1(from[0], i) \/ Lost(from[0])
  <2>1. 1 \in T  BY <1>1, <1>9
  <2>2. 1 \in 1 .. N /\ start(i) \in Nat  BY <1>1
  <2>3. start(1) <= start(i)
    <3>1. CASE i = 1  BY <2>2, <3>1
    <3>2. CASE i # 1
      <4>1. 1 < i /\ i \in 1 .. N + 1  BY <1>1, <3>2
      <4>2. QED  BY <1>5, <2>2, <4>1
    <3>3. QED  BY <3>1, <3>2
  <2>4. CASE start(1) + H <= size
    <3>1. Lost(from[start(1)]) \/ Complete(1)  BY <2>1, <2>4
    <3>2. Lost(from[0]) \/ start(i) + H > size \/ Read1(from[0], i)  BY <1>1, <3>1
    <3>3. QED  BY <3>2
  <2>5. CASE ~ (start(1) + H <= size)
    <3>1. start(i) + H > size  BY <1>1, <1>2, <2>2, <2>3, <2>5
    <3>2. QED  BY <3>1
  <2>6. QED  BY <2>4, <2>5
<1>11. QED  BY <1>10 DEF packets, N, H, size, start

\* The names of DecodesWhatWasSent: a packet whose own length cannot be relied
\* upon, and one of a known code that arrived whole.
Misleads(socket, packets, i) ==
  /\ packets[i].code \notin DOMAIN socket.sizes
  /\ packets[i].declared # packets[i].size \/ packets[i].size <= socket.header
Whole(socket, frame, i) ==
  /\ frame.packets[i].code \in DOMAIN socket.sizes
  /\ StartsAt(frame.packets, i) + frame.packets[i].size <= frame.size

\* The first c of what was read are the packets of a set, in their order.
Enumerates(read, c, set) ==
  /\ c \in 0 .. Len(read)
  /\ \A k \in 1 .. c : read[k].from \in set
  /\ \A i \in set : \E k \in 1 .. c : read[k].from = i
  /\ \A k, l \in 1 .. c : k < l => read[k].from < read[l].from

(* One more packet put before them keeps them in their order.                *)
LEMMA EnumeratesMore ==
  ASSUME NEW read \in Seq(Reading), NEW c, NEW set \in SUBSET Int,
         Enumerates(read, c, set),
         NEW first \in Reading, \A i \in set : first.from < i
  PROVE  Enumerates(<<first>> \o read, c + 1, {first.from} \cup set)
<1> DEFINE more == <<first>> \o read
<1>1. /\ Len(read) \in Nat /\ Len(more) = 1 + Len(read)
      /\ more[1] = first
      /\ \A k \in 1 .. Len(read) : more[k + 1] = read[k]
  OBVIOUS
<1>2. /\ c \in 0 .. Len(read)
      /\ \A k \in 1 .. c : read[k].from \in set
      /\ \A i \in set : \E k \in 1 .. c : read[k].from = i
      /\ \A k, l \in 1 .. c : k < l => read[k].from < read[l].from
  BY DEF Enumerates
<1>3. first.from \in Int  BY DEF Reading
<1> DEFINE n == first.from
           now == {n} \cup set
<1> HIDE DEF more, n
<1>4. c \in Nat /\ c + 1 \in 0 .. Len(more)  BY <1>1, <1>2
<1>5. \A k \in 1 .. c : more[k + 1] = read[k] /\ k + 1 \in 1 .. c + 1  BY <1>1, <1>2
<1>6. \A k \in 1 .. c + 1 : k = 1 \/ (k - 1 \in 1 .. c /\ more[k] = read[k - 1])
  <2>1. SUFFICES ASSUME NEW k \in 1 .. c + 1, k # 1
                 PROVE  k - 1 \in 1 .. c /\ more[k] = read[k - 1]
    OBVIOUS
  <2> DEFINE l == k - 1
  <2>2. l \in 1 .. c /\ l + 1 = k  BY <1>4, <2>1
  <2> HIDE DEF l
  <2>3. more[k] = read[l]  BY <1>5, <2>2
  <2>4. QED  BY <2>2, <2>3 DEF l
<1>7. \A k \in 1 .. c + 1 : more[k].from \in now
  BY <1>1, <1>2, <1>6 DEF n
<1>8. \A i \in now : \E k \in 1 .. c + 1 : more[k].from = i
  <2>1. 1 \in 1 .. c + 1 /\ more[1].from = n  BY <1>1, <1>4 DEF n
  <2>2. ASSUME NEW i \in set PROVE \E k \in 1 .. c + 1 : more[k].from = i
    <3>1. PICK k \in 1 .. c : read[k].from = i  BY <1>2
    <3>2. k + 1 \in 1 .. c + 1 /\ more[k + 1].from = i  BY <1>5, <3>1
    <3>3. QED  BY <3>2
  <2>3. QED  BY <2>1, <2>2
<1>9. \A k, l \in 1 .. c + 1 : k < l => more[k].from < more[l].from
  <2>1. SUFFICES ASSUME NEW k \in 1 .. c + 1, NEW l \in 1 .. c + 1, k < l
                 PROVE  more[k].from < more[l].from
    OBVIOUS
  <2>2. l - 1 \in 1 .. c /\ more[l] = read[l - 1]
    <3>1. l # 1  BY <1>4, <2>1
    <3>2. QED  BY <1>6, <3>1
  <2>3. CASE k = 1
    <3>1. read[l - 1].from \in set  BY <1>2, <2>2
    <3>2. QED  BY <1>1, <2>2, <2>3, <3>1
  <2>4. CASE k # 1
    <3>1. k - 1 \in 1 .. c /\ more[k] = read[k - 1]  BY <1>6, <2>4
    <3>2. k - 1 < l - 1  BY <1>4, <2>1
    <3>3. QED  BY <1>2, <2>2, <3>1, <3>2
  <2>5. QED  BY <2>3, <2>4
<1>10. QED  BY <1>4, <1>7, <1>8, <1>9 DEF Enumerates, more, n

(* Up to a packet that misleads -- M, or none when M is past the last -- what *)
(* the loop reads first are the packets of known codes that arrived whole.   *)
LEMMA WholePacketsAreRead ==
  ASSUME NEW socket, NEW frame, IsFrame(socket, frame),
         NEW from, Loops(socket, frame, from),
         NEW M \in 1 .. Len(frame.packets) + 1,
         \A i \in 1 .. M - 1 : ~Misleads(socket, frame.packets, i)
  PROVE  \E c : /\ Enumerates(from[0].packets, c, {i \in 1 .. M - 1 : Whole(socket, frame, i)})
                /\ M = Len(frame.packets) + 1 => c = Len(from[0].packets)
<1> DEFINE packets == frame.packets
           N == Len(packets)
           H == socket.header
           size == frame.size
           start(i) == StartsAt(packets, i)
           length(i) == packets[i].size
           known(i) == packets[i].code \in DOMAIN socket.sizes
           whole(i) == Whole(socket, frame, i)
           read(m) == from[start(m)].packets
           Safe(m) == {i \in m .. M - 1 : whole(i)}
           Fine(m) == \E c : /\ Enumerates(read(m), c, Safe(m))
                             /\ M = N + 1 => c = Len(read(m))
           T == {m \in 0 .. M : m > 0 /\ start(m) <= size => Fine(m)}
<1>1. /\ N \in Nat /\ start(1) = 0 /\ start(N + 1) = Written(packets)
      /\ \A i \in 1 .. N + 1 : start(i) \in Nat
      /\ \A i \in 1 .. N : start(i + 1) = start(i) + length(i)
  BY PacketStarts
<1>2. H \in Nat \ {0} /\ size \in 0 .. Written(packets) /\ size \in Nat
  <2>1. socket \in {MarketFeed, Depth20} /\ frame.size \in 0 .. Written(frame.packets)
    BY DEF IsFrame
  <2>2. QED  BY <2>1, SocketSizes
<1>3. \A i \in 1 .. N : length(i) \in Nat /\ length(i) >= H
  <2> DEFINE Packet == [code : Nat, size : Nat, declared : Nat]
  <2>1. \A p \in Packet : p.size \in Nat  OBVIOUS
  <2>2. packets \in Seq(Packet)  BY DEF IsFrame
  <2>3. DOMAIN packets = 1 .. N /\ \A i \in 1 .. N : packets[i] \in Packet
    <3> HIDE DEF packets, Packet
    <3> QED  BY <2>2
  <2>4. \A i \in DOMAIN packets : packets[i].size >= socket.header  BY Zenon DEF IsFrame
  <2> HIDE DEF packets, Packet
  <2>5. QED  BY <2>1, <2>3, <2>4
<1>4. \A o \in 0 .. size : from[o].packets \in Seq(Reading)
  BY LoopCounts DEF Counted
<1>5. \A i \in 1 .. N : start(i) <= size =>
        IF start(i) + H > size THEN read(i) = <<>>
        ELSE /\ known(i) /\ start(i + 1) > size => read(i) = <<>>
             /\ known(i) /\ start(i + 1) <= size =>
                  read(i) = <<[code |-> packets[i].code, from |-> i]>> \o read(i + 1)
             /\ ~known(i) /\ packets[i].declared = length(i) /\ length(i) > H =>
                  read(i) = IF start(i + 1) > size THEN <<>> ELSE read(i + 1)
  <2>1. NothingSeen.packets = <<>>  BY DEF NothingSeen
  <2>2. SUFFICES ASSUME NEW i \in 1 .. N, start(i) <= size
        PROVE IF start(i) + H > size THEN read(i) = <<>>
        ELSE /\ known(i) /\ start(i + 1) > size => read(i) = <<>>
             /\ known(i) /\ start(i + 1) <= size =>
                  read(i) = <<[code |-> packets[i].code, from |-> i]>> \o read(i + 1)
             /\ ~known(i) /\ packets[i].declared = length(i) /\ length(i) > H =>
                  read(i) = IF start(i + 1) > size THEN <<>> ELSE read(i + 1)
    OBVIOUS
  <2>3. start(i) \in Nat  BY <1>1
  <2>4. CASE start(i) + H > size
    <3>1. from[start(i)] = NothingSeen
      <4>1. start(i) \in 0 .. size
        <5> HIDE DEF start, size
        <5> QED  BY <1>2, <2>2, <2>3
      <4>2. from[start(i)] = LoopBody(socket, frame, from, start(i))  BY <4>1 DEF Loops
      <4>3. QED  BY <2>4, <4>2 DEF LoopBody
    <3>2. read(i) = <<>>  BY <2>1, <3>1
    <3> HIDE DEF start, H, size, read
    <3>3. QED  BY <2>4, <3>2
  <2>5. CASE ~ (start(i) + H > size)
    <3>1. start(i) + H <= size
      <4> HIDE DEF start, H, size
      <4> QED  BY <1>2, <2>3, <2>5
    <3>2. QED  BY <2>5, <3>1, LoopAtPacket
  <2>6. QED  BY <2>4, <2>5
<1>6. \A i \in 1 .. N, j \in 1 .. N : i < j => start(i + 1) <= start(j)
  BY <1>1, PacketsDoNotOverlap
<1>7. \A i \in 1 .. M - 1 : ~known(i) => packets[i].declared = length(i) /\ length(i) > H
  <2>1. SUFFICES ASSUME NEW i \in 1 .. M - 1, ~known(i)
                 PROVE  packets[i].declared = length(i) /\ length(i) > H
    OBVIOUS
  <2>2. packets[i].declared = length(i) /\ ~ (length(i) <= H)  BY <2>1 DEF Misleads
  <2>3. i \in 1 .. N  BY <1>1
  <2> HIDE DEF length, H
  <2>4. QED  BY <1>2, <1>3, <2>2, <2>3
<1>8. \A i \in 1 .. N : whole(i) <=> known(i) /\ start(i + 1) <= size
  BY <1>1 DEF Whole
<1>9. M \in 1 .. N + 1 /\ M \in Nat  BY <1>1
<1>10. \A i : [code |-> packets[i].code, from |-> i].from = i  OBVIOUS
<1>11. \A i \in 1 .. N : [code |-> packets[i].code, from |-> i] \in Reading
  <2> DEFINE Packet == [code : Nat, size : Nat, declared : Nat]
  <2>1. \A p \in Packet : p.code \in Nat  OBVIOUS
  <2>2. packets \in Seq(Packet)  BY DEF IsFrame
  <2>3. \A i \in 1 .. N : packets[i] \in Packet
    <3> HIDE DEF packets, Packet
    <3> QED  BY <2>2
  <2>4. QED  BY <1>1, <2>1, <2>3 DEF Reading
<1> HIDE DEF packets, N, H, size, start, length, known, whole
<1>12. \A r \in Seq(Reading) : Enumerates(r, 0, {})  BY DEF Enumerates
<1>13. M \in T
  <2>1. SUFFICES ASSUME start(M) <= size PROVE Fine(M)  BY <1>9
  <2>2. start(M) \in 0 .. size  BY <1>1, <1>2, <1>9, <2>1
  <2>3. read(M) \in Seq(Reading)  BY <1>4, <2>2
  <2>4. Safe(M) = {}  BY <1>9
  <2>5. Enumerates(read(M), 0, Safe(M))  BY <1>12, <2>3, <2>4
  <2>6. ASSUME M = N + 1 PROVE Len(read(M)) = 0
    <3>1. start(M) + H > size  BY <1>1, <1>2, <2>6
    <3>2. from[start(M)] = NothingSeen
      <4>1. start(M) \in 0 .. frame.size  BY <2>2 DEF size
      <4>2. start(M) + socket.header > frame.size  BY <3>1 DEF H, size
      <4>3. QED  BY <4>1, <4>2 DEF Loops, LoopBody
    <3>3. QED  BY <3>2 DEF NothingSeen
  <2>7. QED  BY <2>5, <2>6
<1>14. \A n \in 0 .. M - 1 : n + 1 \in T => n \in T
  <2> HIDE DEF Fine
  <2>1. SUFFICES ASSUME NEW n \in 0 .. M - 1, n + 1 \in T, n > 0, start(n) <= size
                 PROVE  Fine(n)
    BY <1>9
  <2> USE DEF Fine
  <2>2. n \in 1 .. N /\ n \in 1 .. M - 1 /\ n + 1 \in 1 .. N + 1  BY <1>1, <1>9, <2>1
  <2>3. start(n) \in Nat /\ start(n + 1) \in Nat /\ start(n + 1) >= start(n) + H
    BY <1>1, <1>2, <1>3, <2>2
  <2>4. ASSUME start(n + 1) > size PROVE Fine(n)
    <3>1. read(n) = <<>>
      <4>1. CASE start(n) + H > size  BY <1>5, <2>1, <2>2, <4>1
      <4>2. CASE ~ (start(n) + H > size)  BY <1>5, <1>7, <2>1, <2>2, <2>4, <4>2
      <4>3. QED  BY <4>1, <4>2
    <3>2. Safe(n) = {}
      <4>1. SUFFICES ASSUME NEW i \in n .. M - 1, whole(i) PROVE FALSE  OBVIOUS
      <4>2. i \in 1 .. N /\ i + 1 \in 1 .. N + 1  BY <1>1, <1>9, <2>2
      <4>3. start(i + 1) <= size  BY <1>8, <4>1, <4>2
      <4>4. i # n
        <5>1. CASE i = n  BY <1>2, <2>3, <2>4, <4>3, <5>1
        <5>2. QED  BY <5>1
      <4>5. start(n + 1) <= start(i)  BY <1>6, <2>2, <4>2, <4>4
      <4>6. start(i) <= start(i + 1) /\ start(i) \in Nat /\ start(i + 1) \in Nat
        BY <1>1, <1>3, <4>2
      <4>7. QED  BY <1>2, <2>3, <2>4, <4>3, <4>5, <4>6
    <3>3. Enumerates(<<>>, 0, {}) /\ Len(<<>>) = 0  BY DEF Enumerates
    <3>4. QED  BY <3>1, <3>2, <3>3
  <2>5. ASSUME start(n + 1) <= size PROVE Fine(n)
    <3>1. ~ (start(n) + H > size)  BY <1>2, <2>3, <2>5
    <3>2. PICK c : /\ Enumerates(read(n + 1), c, Safe(n + 1))
                   /\ M = N + 1 => c = Len(read(n + 1))
      <4>1. n + 1 > 0  BY <2>2
      <4>2. QED  BY <2>1, <2>5, <4>1
    <3>3. read(n + 1) \in Seq(Reading)
      <4>1. start(n + 1) \in 0 .. size  BY <1>2, <2>3, <2>5
      <4>2. QED  BY <1>4, <4>1
    <3>4. \A i \in n .. M - 1 : i = n \/ i \in n + 1 .. M - 1  BY <1>9, <2>2
    <3>5. \A i \in n + 1 .. M - 1 : i \in n .. M - 1 /\ n < i  BY <1>9, <2>2
    <3>6. n \in n .. M - 1  BY <1>9, <2>2
    <3>7. CASE known(n)
      <4> DEFINE first == [code |-> packets[n].code, from |-> n]
      <4>1. read(n) = <<first>> \o read(n + 1)  BY <1>5, <2>1, <2>2, <2>5, <3>1, <3>7
      <4>2. first \in Reading /\ first.from = n  BY <1>10, <1>11, <2>2
      <4> HIDE DEF first
      <4>3. whole(n)  BY <1>8, <2>2, <2>5, <3>7
      <4>4. Safe(n) = {first.from} \cup Safe(n + 1)  BY <3>4, <3>5, <3>6, <4>2, <4>3
      <4>5. \A i \in Safe(n + 1) : first.from < i /\ i \in Int  BY <3>5, <4>2
      <4>6. Enumerates(<<first>> \o read(n + 1), c + 1, {first.from} \cup Safe(n + 1))
        <5> DEFINE rest == read(n + 1)
                   safe == Safe(n + 1)
        <5>1. safe \in SUBSET Int  BY <4>5
        <5> HIDE DEF rest, safe
        <5>2. Enumerates(rest, c, safe) /\ rest \in Seq(Reading)  BY <3>2, <3>3 DEF rest, safe
        <5>3. \A i \in safe : first.from < i  BY <4>5 DEF safe
        <5>4. Enumerates(<<first>> \o rest, c + 1, {first.from} \cup safe)
          BY <4>2, <5>1, <5>2, <5>3, EnumeratesMore
        <5>5. QED  BY <5>4 DEF rest, safe
      <4>7. ASSUME M = N + 1 PROVE c + 1 = Len(read(n))
        <5>1. c = Len(read(n + 1)) /\ c \in Nat  BY <3>2, <3>3, <4>7
        <5> DEFINE rest == read(n + 1)
        <5> HIDE DEF rest
        <5>2. Len(<<first>> \o rest) = 1 + Len(rest)
          <6>1. rest \in Seq(Reading)  BY <3>3 DEF rest
          <6>2. QED  BY <4>2, <6>1
        <5>3. QED  BY <4>1, <5>1, <5>2 DEF rest
      <4>8. Enumerates(read(n), c + 1, Safe(n))  BY <4>1, <4>4, <4>6
      <4>9. QED  BY <4>7, <4>8
    <3>8. CASE ~known(n)
      <4>1. packets[n].declared = length(n) /\ length(n) > H  BY <1>7, <2>2, <3>8
      <4>2. ~ (start(n + 1) > size)  BY <1>2, <2>3, <2>5
      <4>3. read(n) = read(n + 1)  BY <1>5, <2>1, <2>2, <3>1, <3>8, <4>1, <4>2
      <4>4. ~whole(n)  BY <1>8, <2>2, <3>8
      <4>5. Safe(n) = Safe(n + 1)  BY <3>4, <3>5, <4>4
      <4>6. Enumerates(read(n), c, Safe(n)) /\ (M = N + 1 => c = Len(read(n)))
        BY <3>2, <4>3, <4>5
      <4>7. QED  BY <4>6
    <3>9. QED  BY <3>7, <3>8
  <2> HIDE DEF Fine
  <2>6. QED  BY <1>2, <2>3, <2>4, <2>5
<1>15. 0 .. M \subseteq T
  <2> HIDE DEF T
  <2> QED  BY <1>9, <1>13, <1>14, DownwardInduction
<1>16. Fine(1)
  <2> HIDE DEF Fine
  <2>1. 1 \in T
    <3> HIDE DEF T
    <3> QED  BY <1>9, <1>15
  <2>2. start(1) <= size  BY <1>1, <1>2
  <2>3. QED  BY <2>1, <2>2
<1>17. QED
  <2>1. read(1) = from[0].packets  BY <1>1
  <2>2. QED  BY <1>16, <2>1 DEF N, packets, whole

(* What was given to a decoder is a frame of Frames.                         *)
LEMMA FrameSubject ==
  ASSUME ReadInv, Read("frame")
  PROVE  /\ IsFrame(subject.socket, subject.frame)
         /\ result = Frame(subject.socket, subject.frame)
<1>1. subject \in Framed
  BY DEF ReadInv, Read, Master, Exchanged, Framed, Filled
<1>2. PICK f \in Frames :
        subject = [kind |-> "frame", socket |-> f.socket, frame |-> f.frame]
  BY <1>1 DEF Framed
<1>3. subject.socket = f.socket /\ subject.frame = f.frame  BY <1>2
<1>4. IsFrame(f.socket, f.frame)  BY FramesAssumption
<1>5. QED  BY <1>3, <1>4 DEF ReadInv

(* NothingLostUncounted: what the market feed's decoder does not read, though *)
(* its header arrived, shows in a counter (binary.Decoder.frame).            *)
THEOREM LossesAreCounted == ReadersSpec => []NothingLostUncounted
<1>1. ReadInv => NothingLostUncounted
  <2> SUFFICES ASSUME ReadInv, Read("frame"),
                      NEW i \in DOMAIN subject.frame.packets
               PROVE  \/ StartsAt(subject.frame.packets, i) + subject.socket.header
                           > subject.frame.size
                      \/ \E j \in DOMAIN result.packets : result.packets[j].from = i
                      \/ result.truncated + result.unknown > 0
    BY DEF NothingLostUncounted
  <2> DEFINE socket == subject.socket
             frame == subject.frame
  <2>1. IsFrame(socket, frame) /\ result = Frame(socket, frame)  BY FrameSubject
  <2>2. i \in 1 .. Len(frame.packets)
    <3>1. frame.packets \in Seq([code : Nat, size : Nat, declared : Nat])
      BY <2>1 DEF IsFrame
    <3> DEFINE packets == frame.packets
    <3>2. i \in DOMAIN packets  OBVIOUS
    <3> HIDE DEF packets
    <3>3. QED  BY <3>1, <3>2 DEF packets
  <2>3. PICK from : Frame(socket, frame) = from[0] /\ Loops(socket, frame, from)
    BY <2>1, FrameLoop DEF Loops
  <2>4. QED  BY <2>1, <2>2, <2>3, NoneIsPassedOver
<1>2. QED  BY <1>1, ReadersReturnWhatTheyRead, PTL

(* What is enumerated in order is counted by its enumeration.                *)
LEMMA EnumerationCounts ==
  ASSUME NEW read, NEW c, NEW set \in SUBSET Int, Enumerates(read, c, set), c \in Nat
  PROVE  Cardinality(set) = c
<1> DEFINE f == [k \in 1 .. c |-> read[k].from]
<1>1. f \in [1 .. c -> set] /\ \A i \in set : \E k \in 1 .. c : f[k] = i
  BY DEF Enumerates
<1>2. \A k, l \in 1 .. c : f[k] = f[l] => k = l
  <2>1. SUFFICES ASSUME NEW k \in 1 .. c, NEW l \in 1 .. c, f[k] = f[l], k # l PROVE FALSE
    OBVIOUS
  <2>2. f[k] \in Int /\ f[l] \in Int  BY <1>1
  <2>3. k < l => f[k] < f[l]  BY DEF Enumerates
  <2>4. l < k => f[l] < f[k]  BY DEF Enumerates
  <2> HIDE DEF f
  <2>5. k < l \/ l < k  BY <2>1
  <2>6. QED  BY <2>1, <2>2, <2>3, <2>4, <2>5
<1>3. f \in Bijection(1 .. c, set)
  <2> HIDE DEF f
  <2> QED  BY <1>1, <1>2, Fun_IsBij
<1>4. ExistsBijection(1 .. c, set)
  <2> HIDE DEF f
  <2> QED  BY <1>3, Fun_ExistsBij
<1>5. QED  BY <1>4, FS_CountingElements

\* The names of DecodesWhatWasSent, of whatever was made of a frame.
ReadsWhatWasSent(socket, frame, seen) ==
  LET packets == frame.packets
      safe   == {i \in DOMAIN packets : /\ Whole(socket, frame, i)
                                        /\ \A j \in 1 .. i : ~Misleads(socket, packets, j)}
      within == {i \in DOMAIN seen.packets : i <= Cardinality(safe)}
  IN /\ Cardinality(within) = Cardinality(safe)
     /\ {seen.packets[i].from : i \in within} = safe
     /\ \A i, j \in within : i < j => seen.packets[i].from < seen.packets[j].from
     /\ (\A i \in DOMAIN packets : ~Misleads(socket, packets, i)) =>
          Len(seen.packets) = Cardinality(safe)

(* What either decoder makes of a frame.                                     *)
LEMMA DecoderReads ==
  ASSUME NEW socket, NEW frame, IsFrame(socket, frame),
         NEW seen, seen = Frame(socket, frame)
  PROVE  ReadsWhatWasSent(socket, frame, seen)
<1> DEFINE packets == frame.packets
           N == Len(packets)
           misleads(i) == Misleads(socket, packets, i)
           safe == {i \in DOMAIN packets : /\ Whole(socket, frame, i)
                                           /\ \A j \in 1 .. i : ~misleads(j)}
           within == {i \in DOMAIN seen.packets : i <= Cardinality(safe)}
<1>1. PICK from : Frame(socket, frame) = from[0] /\ Loops(socket, frame, from)
  BY FrameLoop DEF Loops
<1>2. DOMAIN packets = 1 .. N /\ N \in Nat
  <2>1. packets \in Seq([code : Nat, size : Nat, declared : Nat])  BY DEF IsFrame
  <2> HIDE DEF packets
  <2>2. QED  BY <2>1
<1>3. seen = from[0] /\ seen.packets \in Seq(Reading)
  <2>1. frame.size \in 0 .. Written(frame.packets)  BY DEF IsFrame
  <2>2. 0 \in 0 .. frame.size  BY <2>1
  <2>3. Counted(from[0])  BY <1>1, <2>2, LoopCounts
  <2>4. QED  BY <1>1, <2>3 DEF Counted
<1> DEFINE bad == {i \in 1 .. N : misleads(i)} \cup {N + 1}
<1>4. PICK M \in bad : \A i \in bad : M <= i
  <2>1. bad \subseteq Nat /\ bad # {}  BY <1>2
  <2> HIDE DEF bad
  <2>2. QED  BY <2>1, LeastMember
<1>5. /\ M \in 1 .. N + 1
      /\ \A i \in 1 .. M - 1 : ~misleads(i)
      /\ M <= N => misleads(M)
  <2> HIDE DEF misleads, N
  <2> QED  BY <1>2, <1>4
<1> DEFINE whole == {i \in 1 .. M - 1 : Whole(socket, frame, i)}
<1>6. PICK c : /\ Enumerates(seen.packets, c, whole)
               /\ M = N + 1 => c = Len(seen.packets)
  <2>1. /\ M \in 1 .. Len(frame.packets) + 1
        /\ \A i \in 1 .. M - 1 : ~Misleads(socket, frame.packets, i)
    BY <1>5
  <2>2. IsFrame(socket, frame) /\ Loops(socket, frame, from)  BY <1>1
  <2>3. \E c : /\ Enumerates(from[0].packets, c, whole)
               /\ M = N + 1 => c = Len(from[0].packets)
    BY <2>1, <2>2, WholePacketsAreRead
  <2> HIDE DEF whole, N, Loops
  <2>4. QED  BY <1>3, <2>3
<1>7. safe = whole
  <2>1. \A i \in 1 .. N : (\A j \in 1 .. i : ~misleads(j)) <=> i \in 1 .. M - 1
    <3> HIDE DEF misleads, N
    <3>1. SUFFICES ASSUME NEW i \in 1 .. N
                   PROVE  (\A j \in 1 .. i : ~misleads(j)) <=> i \in 1 .. M - 1
      OBVIOUS
    <3>2. CASE i <= M - 1
      <4>1. \A j \in 1 .. i : j \in 1 .. M - 1  BY <1>5, <3>2
      <4>2. QED  BY <1>5, <3>2, <4>1
    <3>3. CASE ~ (i <= M - 1)
      <4>1. M \in 1 .. i /\ M <= N  BY <1>2, <1>5, <3>3
      <4>2. QED  BY <1>5, <3>3, <4>1
    <3>4. QED  BY <3>2, <3>3
  <2>2. \A i \in 1 .. M - 1 : i \in 1 .. N  BY <1>2, <1>5
  <2> HIDE DEF misleads, N, packets
  <2>3. QED  BY <1>2, <2>1, <2>2
<1>8. c \in Nat /\ c <= Len(seen.packets) /\ DOMAIN seen.packets = 1 .. Len(seen.packets)
      /\ Len(seen.packets) \in Nat
  <2> DEFINE read == seen.packets
  <2>1. c \in 0 .. Len(read)  BY <1>6 DEF Enumerates
  <2>2. read \in Seq(Reading)  BY <1>3
  <2> HIDE DEF read
  <2>3. QED  BY <2>1, <2>2 DEF read
<1>9. Cardinality(whole) = c
  <2>1. whole \in SUBSET Int  OBVIOUS
  <2> HIDE DEF whole
  <2>2. QED  BY <1>6, <1>8, <2>1, EnumerationCounts
<1>10. within = 1 .. c
  <2> HIDE DEF safe, whole
  <2> QED  BY <1>7, <1>8, <1>9
<1>11. Cardinality(1 .. c) = c  BY <1>8, FS_Interval
<1>12. {seen.packets[i].from : i \in within} = safe
  <2>1. {seen.packets[i].from : i \in 1 .. c} = whole
    <3> HIDE DEF whole
    <3> QED  BY <1>6 DEF Enumerates
  <2> HIDE DEF within, safe, whole
  <2>2. QED  BY <1>7, <1>10, <2>1
<1>13. \A i, j \in within : i < j => seen.packets[i].from < seen.packets[j].from
  <2> HIDE DEF within
  <2> QED  BY <1>6, <1>10 DEF Enumerates
<1>14. (\A i \in DOMAIN packets : ~misleads(i)) => Len(seen.packets) = c
  <2>1. ASSUME \A i \in DOMAIN packets : ~misleads(i) PROVE M = N + 1
    <3> HIDE DEF misleads, N, packets
    <3> QED  BY <1>2, <1>5, <2>1
  <2> HIDE DEF misleads, packets
  <2>2. QED  BY <1>6, <2>1
<1>15. /\ Cardinality(within) = Cardinality(safe)
       /\ (\A i \in DOMAIN packets : ~misleads(i)) =>
            Len(seen.packets) = Cardinality(safe)
  <2> HIDE DEF within, safe, whole, misleads, packets
  <2> QED  BY <1>7, <1>9, <1>10, <1>11, <1>14
<1>16. QED  BY <1>12, <1>13, <1>15, Zenon DEF ReadsWhatWasSent

(* DecodesWhatWasSent: up to the first packet whose own length cannot be     *)
(* relied upon, the packets read are those that arrived whole, in order; and *)
(* there are no others where every length can (binary.Decoder.frame,         *)
(* decode_depth20_frame).                                                    *)
THEOREM DecodersReadWhatWasSent == ReadersSpec => []DecodesWhatWasSent
<1>1. ReadInv => DecodesWhatWasSent
  <2>1. SUFFICES ASSUME ReadInv, Read("frame") PROVE DecodesWhatWasSent
    BY DEF DecodesWhatWasSent
  <2>2. ReadsWhatWasSent(subject.socket, subject.frame, result)
    BY <2>1, FrameSubject, DecoderReads
  <2>3. QED  BY <2>2, Zenon DEF DecodesWhatWasSent, ReadsWhatWasSent, Misleads, Whole
<1>2. QED  BY <1>1, ReadersReturnWhatTheyRead, PTL

-------------------------------------------------------------------------------
\* The provider among the readers.

(* The readers keep no state, so what is proved of the provider holds with   *)
(* them beside it: every behaviour of both is one of the provider's.         *)
THEOREM ReadersLeaveTheProvider == ReadersSpec => Spec
<1>1. ReadersInit => Init  BY DEF ReadersInit
<1>2. [ReadersNext]_<<vars, subject, result>> => [Next]_vars
  BY DEF ReadersNext
<1>3. QED  BY <1>1, <1>2, PTL DEF ReadersSpec, Spec
===============================================================================
