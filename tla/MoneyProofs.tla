----------------------------- MODULE MoneyProofs -----------------------------
(***************************************************************************)
(* What a ride costs, and what its driver is paid for it.                  *)
(*                                                                         *)
(* For any fare configs, routes, promos and number of concurrent quotes,   *)
(* Pricing keeps PriceIInv: the multiplier stays in its bounds, and one    *)
(* request alone never surges.                                             *)
(*                                                                         *)
(* For any number of instances, drivers and rides, any length of the day   *)
(* and any interleaving of the sweeps and their failures, Settlement keeps *)
(* SettleIInv: what a sweep has read of a wallet is covered by the credits *)
(* written so far, and is the wallet's balance while sweeps do not overlap.*)
(***************************************************************************)
EXTENDS Pricing, Settlement, Integers, FiniteSetTheorems, TLAPS

-----------------------------------------------------------------------------
(* What a ride costs.  The arithmetic: *)
LEMMA Scaled ==
  ASSUME NEW k \in Nat, NEW x \in Nat, NEW y \in Nat, NEW c \in Nat, x <= y + c
  PROVE  k * x \in Nat /\ k * y \in Nat /\ k * c \in Nat /\ k * x <= k * y + k * c
<1>1. PICK d \in Nat : y + c = x + d
  <2>1. (y + c) - x \in Nat /\ y + c = x + ((y + c) - x)
    OBVIOUS
  <2> QED BY <2>1
<1>2. k * (y + c) = k * y + k * c /\ k * (x + d) = k * x + k * d
  OBVIOUS
<1>3. k * x \in Nat /\ k * y \in Nat /\ k * c \in Nat /\ k * d \in Nat
  OBVIOUS
<1> QED BY <1>1, <1>2, <1>3

(* The multiplier stays in its bounds, and above 1 the demand is above the *)
(* threshold of one driver at least.                                       *)
LEMMA SurgeBounds ==
  ASSUME NEW requests \in Nat, NEW near \in Nat, NEW m,
         m = Surge(requests, near, Threshold, Step, MaxMultiplier)
  PROVE  m \in NoSurge..MaxMultiplier /\ (m > NoSurge => 4 * requests > Threshold)
<1>1. /\ Threshold \in Nat /\ Step \in Nat /\ Step > 0 /\ MaxMultiplier \in Nat
      /\ NoSurge <= MaxMultiplier
  BY PricingAssumption
<1>2. PICK s : s = Larger(near, 1)
  OBVIOUS
<1>3. s \in Nat /\ s >= 1
  BY <1>2 DEF Larger
<1>4. Threshold * s \in Nat /\ Threshold * s >= Threshold
  <2>1. 1 <= s + 0 /\ 1 \in Nat /\ 0 \in Nat
    BY <1>3
  <2>2. Threshold * 1 <= Threshold * s + Threshold * 0
    BY <1>1, <1>3, <2>1, Scaled
  <2>3. Threshold * 1 = Threshold /\ Threshold * 0 = 0 /\ Threshold * s \in Nat
    BY <1>1, <1>3
  <2> QED BY <1>1, <2>2, <2>3
<1>5. CASE ~(4 * requests > Threshold * s)
  <2>1. m = NoSurge
    BY <1>2, <1>5 DEF Surge
  <2> QED BY <1>1, <2>1 DEF NoSurge
<1>6. CASE 4 * requests > Threshold * s
  <2>1. PICK a : a = 4 * requests - Threshold * s
    OBVIOUS
  <2>2. PICK b : b = Step * s
    OBVIOUS
  <2>3. a \in Nat /\ b \in Nat /\ b >= 1
    <3>1. a \in Nat
      BY <1>4, <1>6, <2>1
    <3>2. 1 <= Step + 0 /\ 1 \in Nat /\ 0 \in Nat
      BY <1>1
    <3>3. s * 1 <= s * Step + s * 0 /\ s * Step \in Nat
      BY <1>1, <1>3, <3>2, Scaled
    <3>4. s * 1 = s /\ s * 0 = 0 /\ s * Step = Step * s
      BY <1>1, <1>3
    <3> QED BY <1>3, <2>2, <3>1, <3>3, <3>4
  <2>4. CeilDiv(a, b) \in Nat
    BY <2>3 DEF CeilDiv
  <2>5. Step * CeilDiv(a, b) \in Nat
    BY <1>1, <2>4
  <2>6. m = Smaller(MaxMultiplier, NoSurge + Step * CeilDiv(a, b))
    BY <1>2, <1>6, <2>1, <2>2 DEF Surge
  <2>7. m \in NoSurge..MaxMultiplier
    BY <1>1, <2>5, <2>6 DEF Smaller, NoSurge
  <2> QED BY <1>1, <1>4, <1>6, <2>7
<1> QED BY <1>5, <1>6

-----------------------------------------------------------------------------
(* The calls at work. *)
LEMMA QuoteTyped ==
  ASSUME PriceIInv, NEW q \in Quotes
  PROVE  /\ quote[q] \in QuoteState
         /\ quote[q].pc \in {"cache", "demand", "supply", "quoted"}
              => quote[q].config \in FareConfigs /\ quote[q].route \in Routes
         /\ quote[q].pc = "supply" => quote[q].demand \in Nat /\ quote[q].demand <= recorded
         /\ quote[q].pc = "quoted" => quote[q].multiplier \in NoSurge..MaxMultiplier
<1>1. quote[q] \in QuoteState
  BY DEF PriceIInv
<1> QED BY <1>1 DEF PriceIInv, At, QuoteState, NoQuote

(* One call moves to s; what it has read stays within what is recorded. *)
LEMMA CallMoves ==
  ASSUME PriceIInv, NEW q \in Quotes, NEW s \in QuoteState, To(q, s),
         recorded' \in Nat, recorded <= recorded',
         s.pc = "supply" => s.demand <= recorded
  PROVE  /\ quote' \in [Quotes -> QuoteState]
         /\ \A r \in Quotes : At(r, "supply")' => quote'[r].demand <= recorded'
<1>1. quote \in [Quotes -> QuoteState] /\ quote' = [quote EXCEPT ![q] = s]
  BY DEF To, PriceIInv
<1>2. /\ quote' \in [Quotes -> QuoteState] /\ quote'[q] = s
      /\ \A r \in Quotes : r # q => quote'[r] = quote[r]
  BY <1>1
<1>3. recorded \in Nat
  BY PricingAssumption DEF PriceIInv, PriceTypeOK
<1>4. ASSUME NEW r \in Quotes, quote'[r].pc = "supply" PROVE quote'[r].demand <= recorded'
  <2>1. CASE r = q
    <3>1. s.pc = "supply" /\ s.demand \in Nat
      BY <1>2, <1>4, <2>1 DEF QuoteState, NoQuote
    <3> QED BY <1>2, <1>3, <2>1, <3>1
  <2>2. CASE r # q
    <3>1. quote[r].pc = "supply" /\ quote'[r].demand = quote[r].demand
      BY <1>2, <1>4, <2>2
    <3>2. quote[r].demand \in Nat /\ quote[r].demand <= recorded
      BY <3>1, QuoteTyped
    <3> QED BY <1>3, <3>1, <3>2
  <2> QED BY <2>1, <2>2
<1> QED BY <1>2, <1>4 DEF At

LEMMA CallsStay ==
  ASSUME PriceIInv, UNCHANGED <<quote, recorded>>
  PROVE  /\ quote' \in [Quotes -> QuoteState]
         /\ \A r \in Quotes : At(r, "supply")' => quote'[r].demand <= recorded'
BY DEF PriceIInv, At

-----------------------------------------------------------------------------
(* What PriceIInv says of the variables, one by one. *)
LEMMA PriceTyped ==
  ASSUME PriceIInv
  PROVE  /\ surgeOn \in BOOLEAN /\ fareConfig \in FareConfigs /\ supply \in 0..MaxSupply
         /\ MaxDemand \in Nat /\ recorded \in 0..MaxDemand /\ recorded \in Nat
         /\ demand \in 0..recorded /\ demandTtl \in 0..2 /\ expireLost \in BOOLEAN
         /\ cached \in {NoCache} \cup NoSurge..MaxMultiplier
         /\ price.status \in {"none", "locked", "completed"}
BY PricingAssumption DEF PriceIInv, PriceTypeOK

(* recordDemand: the counter, its TTL, and what the calls have read of it. *)
LEMMA RecordIncrKeeps ==
  ASSUME PriceIInv, NEW q \in Quotes, RecordIncr(q)
  PROVE  PriceIInv'
<1>1. PICK s : s = [pc |-> "expire"]
  OBVIOUS
<1>2. s \in QuoteState /\ s.pc = "expire" /\ To(q, s)
  BY <1>1 DEF RecordIncr, QuoteState
<1>3. /\ recorded < MaxDemand /\ recorded' = recorded + 1 /\ demand' = demand + 1
      /\ UNCHANGED <<surgeOn, fareConfig, supply, demandTtl, expireLost, cached, price>>
  BY DEF RecordIncr, worldVars
<1>4. /\ quote' \in [Quotes -> QuoteState]
      /\ \A r \in Quotes : At(r, "supply")' => quote'[r].demand <= recorded'
  BY <1>2, <1>3, PriceTyped, CallMoves
<1>5. demand' \in 0..recorded' /\ recorded' \in 0..MaxDemand
  BY <1>3, PriceTyped
<1>6. LoneRequestNeverSurges'
  BY <1>3, PriceTyped, PricingAssumption DEF PriceIInv, LoneRequestNeverSurges
<1> QED BY <1>3, <1>4, <1>5, <1>6 DEF PriceIInv, PriceTypeOK

LEMMA RecordEndsKeeps ==
  ASSUME PriceIInv, NEW q \in Quotes, RecordExpire(q) \/ ExpireFails(q)
  PROVE  PriceIInv'
<1>1. NoQuote \in QuoteState /\ NoQuote.pc = "idle" /\ To(q, NoQuote)
  BY DEF RecordExpire, ExpireFails, QuoteState, NoQuote
<1>2. /\ UNCHANGED <<surgeOn, fareConfig, supply, demand, recorded, cached, price>>
  BY DEF RecordExpire, ExpireFails, worldVars
<1>3. /\ quote' \in [Quotes -> QuoteState]
      /\ \A r \in Quotes : At(r, "supply")' => quote'[r].demand <= recorded'
  BY <1>1, <1>2, PriceTyped, CallMoves
<1>4. demandTtl' \in 0..2
  BY PriceTyped DEF RecordExpire, ExpireFails
<1>5. expireLost' \in BOOLEAN
  <2>1. (demandTtl = 0) \in BOOLEAN
    OBVIOUS
  <2> QED BY <2>1, Zenon DEF RecordExpire, ExpireFails
<1> QED BY <1>2, <1>3, <1>4, <1>5 DEF PriceIInv, PriceTypeOK, LoneRequestNeverSurges

(* A call that only reads. *)
LEMMA ReadingKeeps ==
  ASSUME PriceIInv, NEW q \in Quotes, NEW s \in QuoteState, To(q, s),
         s.pc = "supply" => s.demand <= recorded,
         UNCHANGED <<worldVars, demandVars, cached>>,
         price'.status \in {"none", "locked", "completed"}
  PROVE  PriceIInv'
<1>1. recorded' \in Nat /\ recorded <= recorded'
  BY PriceTyped DEF demandVars
<1>2. /\ quote' \in [Quotes -> QuoteState]
      /\ \A r \in Quotes : At(r, "supply")' => quote'[r].demand <= recorded'
  BY <1>1, CallMoves
<1> QED BY <1>2 DEF PriceIInv, PriceTypeOK, LoneRequestNeverSurges, worldVars, demandVars

LEMMA ReadersKeep ==
  ASSUME PriceIInv, NEW q \in Quotes,
         \/ GetQuote(q) \/ ReadCache(q) \/ ReadDemand(q) \/ QuoteFails(q) \/ AnswerQuote(q)
         \/ LockPrice(q) \/ LockScheduledPrice(q)
  PROVE  PriceIInv'
<1>1. CASE GetQuote(q)
  <2>1. PICK route \in Routes : To(q, [pc |-> "cache", config |-> fareConfig, route |-> route])
    BY <1>1 DEF GetQuote
  <2>2. PICK s : s = [pc |-> "cache", config |-> fareConfig, route |-> route]
    OBVIOUS
  <2>3. s \in QuoteState /\ s.pc = "cache" /\ To(q, s)
    BY <2>1, <2>2, PriceTyped DEF QuoteState
  <2> QED BY <1>1, <2>3, ReadingKeeps, PriceTyped DEF GetQuote
<1>2. CASE ReadCache(q)
  <2>1. /\ quote[q].config \in FareConfigs /\ quote[q].route \in Routes
        /\ UNCHANGED <<worldVars, demandVars, cached, price>>
    BY <1>2, QuoteTyped DEF ReadCache, At
  <2>2. ASSUME NEW m \in NoSurge..MaxMultiplier, Quoted(q, m) PROVE PriceIInv'
    <3>1. PICK s : s = [pc |-> "quoted", config |-> quote[q].config, route |-> quote[q].route,
                        multiplier |-> m]
      OBVIOUS
    <3>2. s \in QuoteState /\ s.pc = "quoted" /\ To(q, s)
      BY <2>1, <2>2, <3>1 DEF QuoteState, Quoted
    <3> QED BY <2>1, <3>2, ReadingKeeps, PriceTyped
  <2>3. NoSurge \in NoSurge..MaxMultiplier
    BY PricingAssumption DEF NoSurge
  <2>4. cached # NoCache => cached \in NoSurge..MaxMultiplier
    BY PriceTyped
  <2>5. ASSUME To(q, [pc |-> "demand", config |-> quote[q].config, route |-> quote[q].route])
        PROVE  PriceIInv'
    <3>1. PICK s : s = [pc |-> "demand", config |-> quote[q].config, route |-> quote[q].route]
      OBVIOUS
    <3>2. s \in QuoteState /\ s.pc = "demand" /\ To(q, s)
      BY <2>1, <2>5, <3>1 DEF QuoteState
    <3> QED BY <2>1, <3>2, ReadingKeeps, PriceTyped
  <2> QED BY <1>2, <2>2, <2>3, <2>4, <2>5 DEF ReadCache
<1>3. CASE ReadDemand(q)
  <2>1. PICK s : s = [pc |-> "supply", config |-> quote[q].config, route |-> quote[q].route,
                      demand |-> demand]
    OBVIOUS
  <2>2. /\ quote[q].config \in FareConfigs /\ quote[q].route \in Routes
        /\ demand \in Nat /\ demand <= recorded
    BY <1>3, QuoteTyped, PriceTyped DEF ReadDemand, At
  <2>3. s \in QuoteState /\ s.demand = demand /\ To(q, s)
    BY <1>3, <2>1, <2>2 DEF QuoteState, ReadDemand
  <2> QED BY <1>3, <2>2, <2>3, ReadingKeeps, PriceTyped DEF ReadDemand
<1>4. CASE QuoteFails(q) \/ AnswerQuote(q) \/ LockPrice(q) \/ LockScheduledPrice(q)
  <2>1. NoQuote \in QuoteState /\ NoQuote.pc = "idle"
    BY DEF QuoteState, NoQuote
  <2>2. /\ To(q, NoQuote) /\ UNCHANGED <<worldVars, demandVars, cached>>
        /\ price' = price \/ price'.status = "locked"
    BY <1>4 DEF QuoteFails, AnswerQuote, LockPrice, LockScheduledPrice
  <2> QED BY <2>1, <2>2, ReadingKeeps, PriceTyped
<1> QED BY <1>1, <1>2, <1>3, <1>4

LEMMA WriteCacheKeeps ==
  ASSUME PriceIInv, NEW q \in Quotes, WriteCache(q)
  PROVE  PriceIInv'
<1>1. PICK near \in {0, supply} :
        LET m == Surge(quote[q].demand, near, Threshold, Step, MaxMultiplier) IN
        /\ Quoted(q, m)
        /\ cached' \in {m, cached}
  BY DEF WriteCache
<1>2. PICK m : m = Surge(quote[q].demand, near, Threshold, Step, MaxMultiplier)
  OBVIOUS
<1>3. Quoted(q, m) /\ cached' \in {m, cached}
  BY <1>1, <1>2
<1>4. /\ quote[q].demand \in Nat /\ quote[q].demand <= recorded
      /\ quote[q].config \in FareConfigs /\ quote[q].route \in Routes
  BY QuoteTyped DEF WriteCache, At
<1>5. near \in Nat /\ recorded \in Nat /\ Threshold \in Nat
  BY PriceTyped, PricingAssumption
<1>6. m \in NoSurge..MaxMultiplier /\ (m > NoSurge => 4 * quote[q].demand > Threshold)
  BY <1>2, <1>4, <1>5, SurgeBounds
<1>7. UNCHANGED <<surgeOn, fareConfig, supply, demand, demandTtl, expireLost,
                  recorded, price>>
  BY DEF WriteCache, worldVars, demandVars
<1>8. PICK s : s = [pc |-> "quoted", config |-> quote[q].config, route |-> quote[q].route,
                    multiplier |-> m]
  OBVIOUS
<1>9. s \in QuoteState /\ s.pc = "quoted" /\ To(q, s)
  BY <1>3, <1>4, <1>6, <1>8 DEF QuoteState, Quoted
<1>10. /\ quote' \in [Quotes -> QuoteState]
       /\ \A r \in Quotes : At(r, "supply")' => quote'[r].demand <= recorded'
  BY <1>5, <1>7, <1>9, CallMoves
<1>11. m > NoSurge => 4 * recorded > Threshold
  BY <1>4, <1>5, <1>6
<1>12. /\ cached' \in {NoCache} \cup NoSurge..MaxMultiplier
       /\ cached' > NoSurge => 4 * recorded' > Threshold
  BY <1>3, <1>6, <1>7, <1>11 DEF PriceIInv, PriceTypeOK, LoneRequestNeverSurges
<1> QED BY <1>7, <1>10, <1>12 DEF PriceIInv, PriceTypeOK, LoneRequestNeverSurges

(* Completion, the outside world, and the keys that expire. *)
LEMMA WorldKeeps ==
  ASSUME PriceIInv, \/ CompletePrice \/ HalfWindow \/ CacheExpires
                    \/ SupplyChanges \/ ConfigChanges \/ UNCHANGED priceVars
  PROVE  PriceIInv'
<1> USE DEF worldVars, demandVars, priceVars
<1>1. UNCHANGED <<quote, recorded>> /\ UNCHANGED <<surgeOn, expireLost>>
  BY DEF CompletePrice, HalfWindow, CacheExpires, SupplyChanges, ConfigChanges
<1>2. price'.status \in {"none", "locked", "completed"}
  BY PriceTyped DEF CompletePrice, HalfWindow, CacheExpires, SupplyChanges, ConfigChanges
<1>3. fareConfig' \in FareConfigs /\ supply' \in 0..MaxSupply
  BY PriceTyped DEF CompletePrice, HalfWindow, CacheExpires, SupplyChanges, ConfigChanges
<1>4. demand' \in 0..recorded /\ demandTtl' \in 0..2
  BY PriceTyped
     DEF CompletePrice, HalfWindow, CacheExpires, SupplyChanges, ConfigChanges, Minus
<1>5. cached' = cached \/ cached' = NoCache
  BY DEF CompletePrice, HalfWindow, CacheExpires, SupplyChanges, ConfigChanges
<1>6. /\ cached' \in {NoCache} \cup NoSurge..MaxMultiplier
      /\ LoneRequestNeverSurges'
  <2>1. cached' \in {NoCache} \cup NoSurge..MaxMultiplier
    BY <1>5, PriceTyped
  <2>2. LoneRequestNeverSurges
    BY DEF PriceIInv
  <2>3. ASSUME cached' = cached PROVE LoneRequestNeverSurges'
    BY <1>1, <2>2, <2>3 DEF LoneRequestNeverSurges
  <2>4. ASSUME cached' = NoCache PROVE LoneRequestNeverSurges'
    BY <2>4 DEF LoneRequestNeverSurges, NoCache, NoSurge
  <2> QED BY <1>5, <2>1, <2>3, <2>4
<1>7. surgeOn' \in BOOLEAN /\ expireLost' \in BOOLEAN /\ recorded' \in 0..MaxDemand
  BY <1>1, PriceTyped
<1> QED BY <1>1, <1>2, <1>3, <1>4, <1>6, <1>7, CallsStay DEF PriceIInv, PriceTypeOK

LEMMA InitPriceIInv == ASSUME PriceInit PROVE PriceIInv
<1>1. NoQuote \in QuoteState /\ NoQuote.pc = "idle"
  BY DEF QuoteState, NoQuote
<1>2. \A q \in Quotes : quote[q] = NoQuote /\ quote[q].pc # "supply"
  BY <1>1 DEF PriceInit
<1>3. price.status = "none"
  BY DEF PriceInit, Unpriced
<1>4. PriceTypeOK /\ LoneRequestNeverSurges
  <2>1. /\ surgeOn \in BOOLEAN /\ fareConfig \in FareConfigs /\ supply \in 0..MaxSupply
        /\ demandTtl = 0 /\ expireLost \in BOOLEAN
        /\ demand = 0 /\ recorded = 0 /\ cached = 0
    BY Zenon DEF PriceInit, NoCache
  <2>2. /\ demand \in 0..recorded /\ recorded \in 0..MaxDemand /\ ~(cached > NoSurge)
        /\ cached \in {NoCache} \cup NoSurge..MaxMultiplier
    BY <2>1, PricingAssumption DEF NoSurge, NoCache
  <2> QED BY <1>3, <2>1, <2>2 DEF PriceTypeOK, LoneRequestNeverSurges
<1> QED BY <1>1, <1>2, <1>4 DEF PriceInit, PriceIInv, At

LEMMA PriceInductive == PriceSpec => []PriceIInv
<1>1. PriceIInv /\ [PriceNext]_priceVars => PriceIInv'
  BY RecordIncrKeeps, RecordEndsKeeps, ReadersKeep, WriteCacheKeeps, WorldKeeps
     DEF PriceNext, QuoteStep
<1> QED BY <1>1, InitPriceIInv, PTL DEF PriceSpec

(* Every variable of a cell's prices keeps its shape, for any configs,      *)
(* routes and promos: the multiplier stays between 1 and the maximum, and   *)
(* demand never exceeds the requests recorded (getMultiplier 82-96).        *)
THEOREM PriceTypeCorrect == PriceSpec => []PriceTypeOK
<1>1. PriceIInv => PriceTypeOK
  BY DEF PriceIInv
<1> QED BY <1>1, PriceInductive, PTL

(* A multiplier above 1 is never cached before more requests were made than *)
(* the threshold allows one driver, whatever threshold, step and maximum    *)
(* are configured and however the calls interleave (getMultiplier 82-96).   *)
THEOREM ALoneRequestNeverSurges == PriceSpec => []LoneRequestNeverSurges
<1>1. PriceIInv => LoneRequestNeverSurges
  BY DEF PriceIInv
<1> QED BY <1>1, PriceInductive, PTL

-----------------------------------------------------------------------------
(* What its driver is paid. *)
LEMMA InitSettleIInv == ASSUME SettleInit PROVE SettleIInv
<1>1. /\ NoSweep \in Sweep /\ NoSweep.phase = "idle" /\ NoSweep.trips = {}
  BY DEF NoSweep, Sweep, Phases
<1>2. \A i \in Instances : sweep[i] = NoSweep
  BY DEF SettleInit
<1>3. clock = 0 /\ 0 \in 0..MaxClock /\ 0 \in 0..MaxStamps
  BY SettlementAssumption DEF SettleInit
<1>4. sweep \in [Instances -> Sweep]
  BY <1>1 DEF SettleInit
<1>5. SettleTypeOK
  <2>1. /\ stamp \in [Trips -> Trip \cup {NotCompleted}]
        /\ trip \in [Trips -> Trip \cup {NotCompleted}]
        /\ stamps \in [Trips -> 0..MaxStamps] /\ begun \in [Instances -> 0..MaxClock]
    BY <1>3 DEF SettleInit
  <2>2. /\ wallet \in [Captains -> Nat] /\ credits \in [Captains -> Nat]
        /\ overlap \in BOOLEAN
    BY DEF SettleInit
  <2> QED BY <1>3, <1>4, <2>1, <2>2 DEF SettleTypeOK
<1>6. BooksBalance
  BY DEF SettleInit, BooksBalance
<1> QED BY <1>1, <1>2, <1>5, <1>6 DEF SettleIInv, Alone, ReadIsCovered, NetsFit

LEMMA NetIsNat ==
  ASSUME SettleIInv, NEW i \in Instances, NEW d
  PROVE  NetOf(i, d) \in Nat /\ Cardinality(RidesOf(i, d)) = NetOf(i, d)
<1>1. RidesOf(i, d) \subseteq Trips
  BY DEF RidesOf, SettleIInv, SettleTypeOK, Sweep
<1>2. IsFiniteSet(RidesOf(i, d))
  BY <1>1, SettlementAssumption, FS_Subset
<1> QED BY <1>2, FS_CardinalityType DEF NetOf

(* The rides: no sweep looks at anything but what is completed, and a      *)
(* completed ride stays so.                                                *)
LEMMA TripsKeep ==
  ASSUME SettleIInv,
         \/ Tick \/ UNCHANGED settleVars
         \/ \E t \in Trips : CompleteTrip(t) \/ \E d \in Captains : StampTrip(t, d)
  PROVE  SettleIInv'
<1>1. SettleTypeOK
  BY DEF SettleIInv
<1>2. UNCHANGED <<wallet, sweep, begun, credits, overlap>>
  BY DEF Tick, settleVars, CompleteTrip, StampTrip
<1>3. SettleTypeOK' /\ Completed \subseteq Completed'
  <2>1. CASE Tick \/ UNCHANGED settleVars
    BY <1>1, <2>1, SettlementAssumption DEF SettleTypeOK, Tick, settleVars, Completed
  <2>2. ASSUME NEW t \in Trips, NEW d \in Captains, StampTrip(t, d)
        PROVE  SettleTypeOK' /\ Completed \subseteq Completed'
    <3>1. PICK c : c = [driver |-> d, at |-> clock]
      OBVIOUS
    <3>2. c \in Trip
      BY <1>1, <3>1 DEF SettleTypeOK, Trip
    <3>3. /\ stamp' = [stamp EXCEPT ![t] = c] /\ stamps' = [stamps EXCEPT ![t] = @ + 1]
          /\ stamps[t] < MaxStamps /\ UNCHANGED <<clock, trip>>
      BY <2>2, <3>1 DEF StampTrip
    <3>4. stamp' \in [Trips -> Trip \cup {NotCompleted}]
      BY <1>1, <3>2, <3>3 DEF SettleTypeOK
    <3>5. stamps' \in [Trips -> 0..MaxStamps]
      BY <1>1, <3>3, SettlementAssumption DEF SettleTypeOK
    <3> QED BY <1>1, <1>2, <3>3, <3>4, <3>5 DEF SettleTypeOK, Completed
  <2>3. ASSUME NEW t \in Trips, CompleteTrip(t)
        PROVE  SettleTypeOK' /\ Completed \subseteq Completed'
    <3>1. /\ stamp[t] \in Trip /\ stamp[t] # NotCompleted
      BY <1>1, <2>3 DEF CompleteTrip, SettleTypeOK
    <3>2. /\ trip' = [trip EXCEPT ![t] = stamp[t]] \/ trip' = trip
          /\ stamp' = [stamp EXCEPT ![t] = NotCompleted]
          /\ UNCHANGED <<clock, stamps>>
      BY <2>3 DEF CompleteTrip
    <3>3. trip' \in [Trips -> Trip \cup {NotCompleted}] /\ Completed \subseteq Completed'
      BY <1>1, <3>1, <3>2 DEF SettleTypeOK, Completed
    <3>4. stamp' \in [Trips -> Trip \cup {NotCompleted}]
      BY <1>1, <3>2 DEF SettleTypeOK
    <3> QED BY <1>1, <1>2, <3>2, <3>3, <3>4 DEF SettleTypeOK
  <2> QED BY <2>1, <2>2, <2>3
<1> QED BY <1>2, <1>3 DEF SettleIInv, NetsFit, BooksBalance, Alone, ReadIsCovered

(* One instance's sweep moves to w, the wallets stay. *)
LEMMA SweepMoves ==
  ASSUME SettleIInv, NEW i \in Instances, NEW w \in Sweep, sweep' = [sweep EXCEPT ![i] = w],
         w.trips \subseteq Completed,
         w.phase # "idle" => sweep[i].phase # "idle" \/ overlap'
                             \/ \A j \in Instances : j # i => sweep[j].phase = "idle",
         overlap => overlap', overlap' \in BOOLEAN,
         begun' \in [Instances -> 0..MaxClock],
         UNCHANGED <<clock, stamp, stamps, trip, wallet, credits>>,
         w.phase = "write" => /\ w.driver \in Captains
                              /\ w.balance <= credits[w.driver]
                              /\ w.balance = wallet[w.driver] \/ overlap'
  PROVE  SettleIInv'
<1>1. /\ sweep' \in [Instances -> Sweep] /\ sweep'[i] = w
      /\ \A j \in Instances : j # i => sweep'[j] = sweep[j]
  BY DEF SettleIInv, SettleTypeOK
<1>2. SettleTypeOK'
  BY <1>1 DEF SettleIInv, SettleTypeOK
<1>3. Completed' = Completed
  BY DEF Completed
<1>4. NetsFit'
  BY <1>1, <1>3 DEF SettleIInv, NetsFit
<1>5. BooksBalance'
  BY DEF SettleIInv, BooksBalance
<1>6. Alone' \/ overlap'
  BY <1>1 DEF SettleIInv, Alone
<1>7. \A j \in Instances : ReadIsCovered(j)'
  BY <1>1 DEF SettleIInv, ReadIsCovered
<1> QED BY <1>2, <1>4, <1>5, <1>6, <1>7 DEF SettleIInv

(* A night has passed only after a whole day, and nights are not more than *)
(* ticks.                                                                  *)
LEMMA FirstDay ==
  ASSUME NEW c \in Nat, NEW T \in Nat, T > 0, c \div T >= 1
  PROVE  c >= T /\ c \div T <= c
<1>1. PICK n \in Nat : n = c \div T
  OBVIOUS
<1>2. PICK r \in Nat : r = c % T
  OBVIOUS
<1>3. c = T * n + r
  BY <1>1, <1>2, Z3
<1>4. T * 1 <= T * n + T * 0 /\ T * n \in Nat
  BY <1>1, Scaled
<1>5. n * 1 <= n * T + n * 0 /\ n * T \in Nat
  BY Scaled
<1>6. n * T = T * n /\ T * 1 = T /\ n * 1 = n /\ T * 0 = 0 /\ n * 0 = 0
  OBVIOUS
<1> QED BY <1>1, <1>3, <1>4, <1>5, <1>6

LEMMA SweepStartKeeps ==
  ASSUME SettleIInv, NEW i \in Instances, SweepStart(i)
  PROVE  SettleIInv'
<1>1. /\ SettleTypeOK /\ NetsFit /\ sweep[i] \in Sweep
  BY DEF SettleIInv, SettleTypeOK
<1>2. PICK w : w = [sweep[i] EXCEPT !.phase = "query", !.since = clock - TicksPerDay]
  OBVIOUS
<1>3. clock - TicksPerDay \in Nat /\ Night \in 0..MaxClock
  <2>1. clock \in Nat /\ TicksPerDay \in Nat /\ TicksPerDay > 0 /\ clock <= MaxClock
    BY <1>1, SettlementAssumption DEF SettleTypeOK
  <2>2. begun[i] \in Nat /\ begun[i] < Night
    BY <1>1, SettlementAssumption DEF SettleTypeOK, SweepStart
  <2>3. clock \div TicksPerDay \in Nat /\ clock \div TicksPerDay >= 1
    BY <2>1, <2>2 DEF Night
  <2>4. clock >= TicksPerDay /\ clock \div TicksPerDay <= clock
    BY <2>1, <2>3, FirstDay
  <2>5. clock - TicksPerDay \in Nat
    BY <2>1, <2>4
  <2>6. Night \in Nat /\ Night <= clock
    BY <2>3, <2>4, Zenon DEF Night
  <2> QED BY <2>1, <2>5, <2>6, SettlementAssumption
<1>4. w \in Sweep /\ w.trips = sweep[i].trips /\ w.phase = "query"
  BY <1>1, <1>2, <1>3 DEF Sweep, Phases, SettleTypeOK
<1>5. /\ sweep' = [sweep EXCEPT ![i] = w]
      /\ begun' = [begun EXCEPT ![i] = Night]
      /\ UNCHANGED <<clock, stamp, stamps, trip, wallet, credits>>
  BY <1>1, <1>2 DEF SweepStart, SettleTypeOK, SweepFrame
<1>6. begun' \in [Instances -> 0..MaxClock]
  BY <1>1, <1>3, <1>5 DEF SettleTypeOK
<1>7. /\ overlap' \in BOOLEAN
      /\ overlap => overlap'
      /\ (\E j \in Instances \ {i} : sweep[j].phase # "idle") => overlap'
  BY Zenon DEF SweepStart
<1>8. w.trips \subseteq Completed
  BY <1>1, <1>4 DEF NetsFit
<1> QED BY <1>4, <1>5, <1>6, <1>7, <1>8, SweepMoves

LEMMA SweepGoesOnKeeps ==
  ASSUME SettleIInv, NEW i \in Instances,
         \/ SweepQuery(i) \/ Payout(i) \/ SweepEnds(i) \/ SweepDies(i)
         \/ \E d \in Captains : CreditRead(i, d)
  PROVE  SettleIInv'
<1>1. /\ SettleTypeOK /\ NetsFit /\ sweep[i] \in Sweep
  BY DEF SettleIInv, SettleTypeOK
<1>2. ASSUME NEW w \in Sweep, sweep' = [sweep EXCEPT ![i] = w], w.trips \subseteq Completed,
             w.phase # "idle" => sweep[i].phase # "idle",
             UNCHANGED <<wallet, begun, credits, overlap>>,
             SweepFrame,
             w.phase = "write" => /\ w.driver \in Captains
                                  /\ w.balance = wallet[w.driver]
      PROVE  SettleIInv'
  <2>1. /\ overlap' \in BOOLEAN /\ (overlap => overlap')
        /\ begun' \in [Instances -> 0..MaxClock]
    BY <1>1, <1>2 DEF SettleTypeOK
  <2>2. w.phase = "write" => w.balance <= credits[w.driver]
    BY <1>2 DEF SettleIInv, BooksBalance
  <2> QED BY <1>2, <2>1, <2>2, SweepMoves DEF SweepFrame
<1>3. CASE SweepQuery(i)
  <2>1. PICK trips : trips = Window(sweep[i].since)
    OBVIOUS
  <2>2. PICK w : w = [sweep[i] EXCEPT !.phase = "loop", !.trips = trips,
                                      !.todo = {trip[t].driver : t \in trips}]
    OBVIOUS
  <2>3. trips \subseteq Completed /\ trips \subseteq Trips
    BY <2>1 DEF Window, Completed
  <2>4. {trip[t].driver : t \in trips} \subseteq Captains
    BY <1>1, <2>3 DEF SettleTypeOK, Completed, Trip
  <2>5. w \in Sweep /\ w.trips = trips /\ w.phase = "loop"
    BY <1>1, <2>2, <2>3, <2>4 DEF Sweep, Phases
  <2>6. /\ sweep' = [sweep EXCEPT ![i] = w] /\ sweep[i].phase = "query"
        /\ SweepFrame /\ UNCHANGED <<wallet, begun, credits, overlap>>
    BY <1>1, <1>3, <2>1, <2>2 DEF SweepQuery, SettleTypeOK
  <2> QED BY <1>1, <1>2, <2>3, <2>5, <2>6 DEF SettleTypeOK
<1>4. ASSUME NEW d \in Captains, CreditRead(i, d) PROVE SettleIInv'
  <2>1. PICK w : w = [sweep[i] EXCEPT !.phase = "write", !.todo = @ \ {d}, !.driver = d,
                                      !.balance = wallet[d]]
    OBVIOUS
  <2>2. /\ w \in Sweep /\ w.trips = sweep[i].trips /\ w.driver = d /\ w.balance = wallet[d]
    BY <1>1, <2>1 DEF Sweep, Phases, SettleTypeOK
  <2>3. /\ sweep' = [sweep EXCEPT ![i] = w] /\ sweep[i].phase = "loop"
        /\ SweepFrame /\ UNCHANGED <<wallet, begun, credits, overlap>>
    BY <1>1, <1>4, <2>1 DEF CreditRead, SettleTypeOK
  <2> QED BY <1>1, <1>2, <2>2, <2>3 DEF SettleTypeOK, NetsFit
<1>5. CASE Payout(i)
  <2>1. PICK w : w = [sweep[i] EXCEPT !.phase = "loop", !.driver = NoCaptain, !.balance = 0]
    OBVIOUS
  <2>2. w \in Sweep /\ w.trips = sweep[i].trips /\ w.phase = "loop"
    BY <1>1, <2>1 DEF Sweep, Phases
  <2>3. /\ sweep' = [sweep EXCEPT ![i] = w] /\ sweep[i].phase = "payout"
        /\ SweepFrame /\ UNCHANGED <<wallet, begun, credits, overlap>>
    BY <1>1, <1>5, <2>1 DEF Payout, SettleTypeOK
  <2> QED BY <1>1, <1>2, <2>2, <2>3 DEF NetsFit
<1>6. CASE SweepEnds(i) \/ SweepDies(i)
  <2>1. NoSweep \in Sweep /\ NoSweep.trips = {} /\ NoSweep.phase = "idle"
    BY DEF NoSweep, Sweep, Phases
  <2>2. /\ sweep' = [sweep EXCEPT ![i] = NoSweep]
        /\ SweepFrame /\ UNCHANGED <<wallet, begun, credits, overlap>>
    BY <1>6 DEF SweepEnds, SweepDies
  <2> QED BY <1>1, <1>2, <2>1, <2>2 DEF SettleTypeOK
<1> QED BY <1>3, <1>4, <1>5, <1>6

(* The write: with one sweep at a time the balance read is the wallet's,   *)
(* and nobody else holds a balance.                                        *)
LEMMA CreditWriteKeeps ==
  ASSUME SettleIInv, NEW i \in Instances, CreditWrite(i)
  PROVE  SettleIInv'
<1>1. /\ SettleTypeOK /\ NetsFit /\ sweep[i] \in Sweep /\ ReadIsCovered(i)
      /\ sweep[i].phase = "write" /\ BooksBalance
  BY DEF SettleIInv, SettleTypeOK, CreditWrite
<1>2. PICK d : d = sweep[i].driver
  OBVIOUS
<1>3. PICK net : net = NetOf(i, d)
  OBVIOUS
<1>4. PICK balance : balance = sweep[i].balance
  OBVIOUS
<1>5. /\ d \in Captains /\ net \in Nat /\ balance \in Nat
      /\ balance <= credits[d] /\ (balance = wallet[d] \/ overlap)
  BY <1>1, <1>2, <1>3, <1>4, NetIsNat DEF ReadIsCovered, Sweep
<1>6. PICK w : w = [sweep[i] EXCEPT !.phase = "payout"]
  OBVIOUS
<1>7. w \in Sweep /\ w.trips = sweep[i].trips /\ w.phase = "payout"
  BY <1>1, <1>6 DEF Sweep, Phases
<1>8. /\ wallet' = [wallet EXCEPT ![d] = balance + net]
      /\ credits' = [credits EXCEPT ![d] = @ + net]
      /\ sweep' = [sweep EXCEPT ![i] = w]
      /\ UNCHANGED <<clock, stamp, stamps, trip, begun, overlap>>
  BY <1>1, <1>2, <1>3, <1>4, <1>6, NetIsNat DEF CreditWrite, SettleTypeOK, SweepFrame
<1>9. /\ sweep' \in [Instances -> Sweep] /\ sweep'[i] = w
      /\ \A j \in Instances : j # i => sweep'[j] = sweep[j]
  BY <1>1, <1>7, <1>8 DEF SettleTypeOK
<1>10. /\ wallet' \in [Captains -> Nat] /\ credits' \in [Captains -> Nat]
       /\ wallet'[d] = balance + net /\ credits'[d] = credits[d] + net
       /\ \A e \in Captains : e # d => wallet'[e] = wallet[e] /\ credits'[e] = credits[e]
       /\ wallet[d] \in Nat /\ credits[d] \in Nat
  BY <1>1, <1>5, <1>8 DEF SettleTypeOK
<1>12. SettleTypeOK'
  BY <1>1, <1>8, <1>9, <1>10 DEF SettleTypeOK
<1>13. NetsFit'
  BY <1>1, <1>7, <1>8, <1>9 DEF NetsFit, Completed
<1>14. balance + net <= credits[d] + net /\ (balance + net = credits[d] + net \/ overlap)
  BY <1>1, <1>5, <1>10 DEF BooksBalance
<1>15. BooksBalance'
  BY <1>1, <1>8, <1>10, <1>14 DEF BooksBalance
<1>16. Alone' \/ overlap'
  BY <1>1, <1>7, <1>8, <1>9 DEF SettleIInv, Alone
<1>17. ASSUME NEW j \in Instances PROVE ReadIsCovered(j)'
  <2>1. CASE j = i
    BY <1>7, <1>9, <2>1 DEF ReadIsCovered
  <2>2. CASE j # i
    <3> SUFFICES ASSUME sweep[j].phase = "write" PROVE ReadIsCovered(j)'
      BY <1>9, <2>2 DEF ReadIsCovered
    <3>1. overlap
      BY <1>1, <2>2 DEF SettleIInv, Alone
    <3>2. /\ sweep'[j] = sweep[j] /\ sweep[j].driver \in Captains
          /\ sweep[j].balance <= credits[sweep[j].driver]
          /\ sweep[j].balance \in Nat
      BY <1>1, <1>9, <2>2 DEF SettleIInv, ReadIsCovered, SettleTypeOK, Sweep
    <3>3. credits[sweep[j].driver] <= credits'[sweep[j].driver]
      BY <1>5, <1>10, <3>2 DEF SettleTypeOK
    <3>4. credits[sweep[j].driver] \in Nat /\ credits'[sweep[j].driver] \in Nat
      BY <1>1, <1>10, <3>2 DEF SettleTypeOK
    <3>5. sweep[j].balance <= credits'[sweep[j].driver]
      BY <3>2, <3>3, <3>4
    <3> QED BY <1>8, <3>1, <3>2, <3>5 DEF ReadIsCovered
  <2> QED BY <2>1, <2>2
<1> QED BY <1>12, <1>13, <1>15, <1>16, <1>17 DEF SettleIInv

LEMMA SettleInductive == SettleSpec => []SettleIInv
<1>1. SettleIInv /\ [SettleNext]_settleVars => SettleIInv'
  <2> SUFFICES ASSUME SettleIInv, [SettleNext]_settleVars PROVE SettleIInv'
    OBVIOUS
  <2>1. ASSUME NEW i \in Instances,
               \/ SweepStart(i) \/ SweepQuery(i) \/ CreditWrite(i) \/ Payout(i)
               \/ SweepEnds(i) \/ SweepDies(i)
               \/ \E d \in Captains : CreditRead(i, d)
        PROVE  SettleIInv'
    BY <2>1, SweepStartKeeps, SweepGoesOnKeeps, CreditWriteKeeps
  <2> QED BY <2>1, TripsKeep DEF SettleNext
<1> QED BY <1>1, InitSettleIInv, PTL DEF SettleSpec

(* For any number of instances, drivers, rides and nights, missed ones and  *)
(* half-done sweeps included: a wallet never holds more than the credits    *)
(* written for its driver, and exactly those while no two sweeps were under *)
(* way together (settleDaily 85-135).                                       *)
THEOREM TheBooksBalance == SettleSpec => []BooksBalance
<1>1. SettleIInv => BooksBalance
  BY DEF SettleIInv
<1> QED BY <1>1, SettleInductive, PTL
=============================================================================
