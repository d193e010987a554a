------------------------------- MODULE Pricing -------------------------------
(***************************************************************************)
(* PricingService and SurgeService for one pickup cell and one fare        *)
(* config, and the price of one ride from its quote to its completion.     *)
(*                                                                         *)
(* Demand is a counter whose TTL every request renews; the multiplier is   *)
(* cached for all quotes of the cell; demand, supply and cache are read    *)
(* and written one await after the other, and every await may throw.  The  *)
(* surge window is two half windows long.                                  *)
(*                                                                         *)
(* RecordExpireIfFirst, used by no action, is a defective form of the      *)
(* definition after it.                                                    *)
(***************************************************************************)
EXTENDS Fares

CONSTANTS
  Quotes,          \* how many quotes or requests of the cell run at once
  FareConfigs,     \* the values the fare_configs row may take
  Routes,          \* the routes MapsService may answer: metres, seconds
  Promos,          \* the promos a ride may be asked for with
  MaxSupply,       \* bound: drivers near the cell's centre
  MaxDemand,       \* bound: requests recorded in a run
  Threshold, Step, MaxMultiplier   \* surge.*, in quarters

NoPromo == [discountPercent |-> 0, maxDiscount |-> 0]

ASSUME PricingAssumption ==
  /\ MaxSupply \in Nat /\ MaxDemand \in Nat
  /\ Threshold \in Nat /\ Step \in Nat \ {0} /\ MaxMultiplier \in Nat
  /\ NoSurge <= MaxMultiplier /\ NoPromo \in Promos
  /\ FareConfigs \subseteq [baseFare : Nat, perKmRate : Nat, perMinuteRate : Nat,
                            minimumFare : Nat, surgeMultiplier : Nat]
  /\ Routes \subseteq [metres : Nat, seconds : Nat]
  /\ Promos \subseteq [discountPercent : Nat, maxDiscount : Nat]

VARIABLES
  surgeOn,      \* surge.enabled
  fareConfig,   \* the active fare_configs row
  supply,       \* the drivers the geo index finds around the cell
  demand,       \* surge:demand:<cell>
  demandTtl,    \* the half windows that key still has, 0 for a key without TTL
  expireLost,   \* ghost: an EXPIRE was lost on a key without TTL, and none went
                \* through since
  cached,       \* surge:multiplier:<cell>
  recorded,     \* how many requests were recorded
  quote,        \* the calls at work
  price         \* the ride's fare columns; ghost: the config they were made with
                \* and the multiplier that was charged

demandVars == <<demand, demandTtl, expireLost, recorded>>
worldVars == <<surgeOn, fareConfig, supply>>
priceVars == <<worldVars, demandVars, cached, quote, price>>

NoCache == 0
Unpriced == [status |-> "none"]
NoQuote == [pc |-> "idle"]

PriceInit == /\ surgeOn \in BOOLEAN
             /\ fareConfig \in FareConfigs
             /\ supply \in 0..MaxSupply
             /\ demand = 0 /\ demandTtl = 0 /\ expireLost = FALSE
             /\ cached = NoCache
             /\ recorded = 0
             /\ quote = [q \in Quotes |-> NoQuote]
             /\ price = Unpriced

At(q, pc) == quote[q].pc = pc
To(q, state) == quote' = [quote EXCEPT ![q] = state]

-----------------------------------------------------------------------------
(* recordDemand, spawned by a request: INCR, EXPIRE.  An error between the *)
(* two is swallowed, and the key is left with the TTL it had, if any.      *)
RecordIncr(q) ==
  /\ surgeOn /\ At(q, "idle") /\ recorded < MaxDemand
  /\ recorded' = recorded + 1 /\ demand' = demand + 1
  /\ To(q, [pc |-> "expire"])
  /\ UNCHANGED <<worldVars, demandTtl, expireLost, cached, price>>

RecordExpireIfFirst(q) ==
  /\ At(q, "expire")
  /\ demandTtl' = IF demand = 1 THEN 2 ELSE demandTtl
  /\ expireLost' = FALSE
  /\ To(q, NoQuote)
  /\ UNCHANGED <<worldVars, demand, recorded, cached, price>>
RecordExpire(q) ==
  /\ At(q, "expire")
  /\ demandTtl' = IF demand > 0 THEN 2 ELSE 0
  /\ expireLost' = FALSE
  /\ To(q, NoQuote)
  /\ UNCHANGED <<worldVars, demand, recorded, cached, price>>

ExpireFails(q) ==
  /\ At(q, "expire")
  /\ expireLost' = (demandTtl = 0)
  /\ To(q, NoQuote)
  /\ UNCHANGED <<worldVars, demand, demandTtl, recorded, cached, price>>

HalfWindow ==
  /\ demandTtl' = Minus(demandTtl, 1)
  /\ demand' = IF demandTtl = 1 THEN 0 ELSE demand
  /\ UNCHANGED <<worldVars, expireLost, recorded, cached, quote, price>>

-----------------------------------------------------------------------------
(* getQuote: the configs, then the multiplier, from the cache or computed. *)
GetQuote(q) ==
  /\ At(q, "idle")
  /\ \E route \in Routes : To(q, [pc |-> "cache", config |-> fareConfig, route |-> route])
  /\ UNCHANGED <<worldVars, demandVars, cached, price>>

Quoted(q, multiplier) ==
  To(q, [pc |-> "quoted", config |-> quote[q].config, route |-> quote[q].route,
         multiplier |-> multiplier])

ReadCache(q) ==
  /\ At(q, "cache")
  /\ IF ~surgeOn THEN Quoted(q, NoSurge)
     ELSE IF cached # NoCache THEN Quoted(q, cached)
     ELSE To(q, [pc |-> "demand", config |-> quote[q].config, route |-> quote[q].route])
  /\ UNCHANGED <<worldVars, demandVars, cached, price>>

(* The demand and, at another moment, the supply, none if Redis fails. *)
ReadDemand(q) ==
  /\ At(q, "demand")
  /\ To(q, [pc |-> "supply", config |-> quote[q].config, route |-> quote[q].route,
            demand |-> demand])
  /\ UNCHANGED <<worldVars, demandVars, cached, price>>

(* The write back to the cache may fail; the quote is answered all the same. *)
WriteCache(q) ==
  /\ At(q, "supply")
  /\ \E near \in {0, supply} :
       LET m == Surge(quote[q].demand, near, Threshold, Step, MaxMultiplier) IN
       /\ Quoted(q, m)
       /\ cached' \in {m, cached}
  /\ UNCHANGED <<worldVars, demandVars, price>>

(* Redis fails a read of the cache or of the demand, and the quote with it. *)
QuoteFails(q) ==
  /\ quote[q].pc \in {"cache", "demand"}
  /\ To(q, NoQuote)
  /\ UNCHANGED <<worldVars, demandVars, cached, price>>

CacheExpires ==
  /\ cached # NoCache
  /\ cached' = NoCache
  /\ UNCHANGED <<worldVars, demandVars, quote, price>>

-----------------------------------------------------------------------------
(* The price lock of requestRide: the quoted fare, and a discount on it. *)
LockPrice(q) ==
  LET c == quote[q].config
      m == quote[q].multiplier
      fare == ApplySurge(CalculateFare(c, quote[q].route.metres, quote[q].route.seconds), m)
  IN /\ At(q, "quoted") /\ price = Unpriced
     /\ \E promo \in Promos :
          price' = [status |-> "locked", estimatedFare |-> fare, surgeMultiplier |-> m,
                    promoDiscount |-> PromoDiscount(fare, promo), route |-> quote[q].route,
                    config |-> c, charged |-> m]
     /\ To(q, NoQuote)
     /\ UNCHANGED <<worldVars, demandVars, cached>>

(* dispatch of a booking: the config is read again, the multiplier stored  *)
(* but not charged, and there is no promo.                                 *)
LockScheduledPrice(q) ==
  /\ At(q, "quoted") /\ price = Unpriced
  /\ price' = [status |-> "locked",
               estimatedFare |-> CalculateFare(fareConfig, quote[q].route.metres,
                                               quote[q].route.seconds),
               surgeMultiplier |-> quote[q].multiplier, promoDiscount |-> 0,
               route |-> quote[q].route, config |-> fareConfig, charged |-> NoSurge]
  /\ To(q, NoQuote)
  /\ UNCHANGED <<worldVars, demandVars, cached>>

(* Only a quote: the client looks at it. *)
AnswerQuote(q) ==
  /\ At(q, "quoted")
  /\ To(q, NoQuote)
  /\ UNCHANGED <<worldVars, demandVars, cached, price>>

(* completeRide: the current config on the row's distance and duration,    *)
(* without the surge of the quote.                                         *)
RowFare(config) == CalculateFare(config, RowMetres(price.route.metres),
                                 RowSeconds(price.route.seconds))
TotalFare == Minus(RowFare(fareConfig), price.promoDiscount)

CompletePrice ==
  /\ price.status = "locked"
  /\ price' = [status |-> "completed", totalFare |-> TotalFare,
               surged |-> Minus(ApplySurge(RowFare(price.config), price.charged),
                                price.promoDiscount),
               asLocked |-> Minus(RowFare(price.config), price.promoDiscount)]
  /\ UNCHANGED <<worldVars, demandVars, cached, quote>>

(* The outside world: drivers come and go, a fare config is replaced. *)
SupplyChanges ==
  /\ supply' \in 0..MaxSupply
  /\ UNCHANGED <<surgeOn, fareConfig, demandVars, cached, quote, price>>

ConfigChanges ==
  /\ fareConfig' \in FareConfigs
  /\ UNCHANGED <<surgeOn, supply, demandVars, cached, quote, price>>

QuoteStep(q) ==
  \/ RecordExpire(q) \/ ExpireFails(q)
  \/ ReadCache(q) \/ ReadDemand(q) \/ WriteCache(q) \/ QuoteFails(q) \/ AnswerQuote(q)

PriceNext == \/ \E q \in Quotes : \/ RecordIncr(q) \/ GetQuote(q) \/ QuoteStep(q)
                                  \/ LockPrice(q) \/ LockScheduledPrice(q)
             \/ HalfWindow \/ CacheExpires
             \/ CompletePrice \/ SupplyChanges \/ ConfigChanges

(* Calls end, and Redis expires the keys that have a TTL. *)
PriceFairness ==
  /\ WF_priceVars(HalfWindow) /\ WF_priceVars(CacheExpires)
  /\ \A q \in Quotes : WF_priceVars(QuoteStep(q))

PriceSpec == PriceInit /\ [][PriceNext]_priceVars /\ PriceFairness

-----------------------------------------------------------------------------
(* Every variable of a cell's prices keeps its shape: the multiplier served *)
(* stays between 1 and the configured maximum, and demand never exceeds the *)
(* requests recorded (getMultiplier 82-96).                                 *)
PriceTypeOK ==
  /\ surgeOn \in BOOLEAN /\ fareConfig \in FareConfigs /\ supply \in 0..MaxSupply
  /\ demand \in 0..recorded /\ demandTtl \in 0..2 /\ recorded \in 0..MaxDemand
  /\ expireLost \in BOOLEAN
  /\ cached \in {NoCache} \cup NoSurge..MaxMultiplier
  /\ price.status \in {"none", "locked", "completed"}

(* One request does not surge its own neighbourhood: a multiplier above 1  *)
(* is never cached before more requests were made than the threshold allows *)
(* one driver, two with the default of 1.5, even where no driver is near    *)
(* (getMultiplier 82-96, supply counts as at least 1).                      *)
LoneRequestNeverSurges == cached > NoSurge => 4 * recorded > Threshold

(* Surge ends: once requests stop, the demand key and the cached multiplier *)
(* expire and every quote is back at 1, unless the EXPIRE of the last       *)
(* requests was lost, however earlier ones were lost or overtook each other *)
(* (recordDemand 54-59, the swallowed error rides.service.ts 156-158).      *)
SurgeSubsides == \/ <>[](demand = 0 /\ cached <= NoSurge)
                 \/ <>[]expireLost

(* "completion recomputes only from road distance x locked config - promo"  *)
(* (ADR.md:92-93).                                                          *)
ConfigIsLocked == price.status = "completed" =>
                    price.totalFare \in {price.asLocked, price.surged}

-----------------------------------------------------------------------------
(* Why: every call carries what it has read of the rows as they were, and   *)
(* never more demand than was recorded.                                     *)
QuoteState ==
  {NoQuote} \cup [pc : {"expire"}]
  \cup [pc : {"cache", "demand"}, config : FareConfigs, route : Routes]
  \cup [pc : {"supply"}, config : FareConfigs, route : Routes, demand : Nat]
  \cup [pc : {"quoted"}, config : FareConfigs, route : Routes,
        multiplier : NoSurge..MaxMultiplier]

PriceIInv ==
  /\ PriceTypeOK
  /\ LoneRequestNeverSurges
  /\ quote \in [Quotes -> QuoteState]
  /\ \A q \in Quotes : At(q, "supply") => quote[q].demand <= recorded
=============================================================================
