-------------------------------- MODULE Fares --------------------------------
(***************************************************************************)
(* The arithmetic of PricingService, SurgeService and the price lock.      *)
(* Money counts half rupees, the unit every fare is rounded to; distances  *)
(* metres, durations seconds, multipliers quarters.  SurgeUnguarded and    *)
(* SurgeUncapped, used nowhere, are defective forms of Surge.              *)
(***************************************************************************)
EXTENDS Naturals

Larger(a, b) == IF a >= b THEN a ELSE b
Smaller(a, b) == IF a <= b THEN a ELSE b
Minus(a, b) == IF a >= b THEN a - b ELSE 0

(* Math.round(a / b) and Math.ceil(a / b) for a >= 0. *)
RoundDiv(a, b) == (2 * a + b) \div (2 * b)
CeilDiv(a, b) == (a + b - 1) \div b

NoSurge == 4

(* calculateFare: base + km + minutes, floored, times the config's own     *)
(* multiplier, to the nearest half rupee.                                  *)
CalculateFare(config, metres, seconds) ==
  LET raw == 3000 * config.baseFare + 3 * config.perKmRate * metres
             + 50 * config.perMinuteRate * seconds
  IN RoundDiv(Larger(raw, 3000 * config.minimumFare) * config.surgeMultiplier, 12000)

ApplySurge(fare, multiplier) ==
  IF multiplier > NoSurge THEN RoundDiv(fare * multiplier, 4) ELSE fare

(* The rides row keeps hundredths of a kilometre and whole minutes. *)
RowMetres(metres) == 10 * RoundDiv(metres, 10)
RowSeconds(seconds) == 60 * RoundDiv(seconds, 60)

PromoDiscount(fare, promo) ==
  Smaller(RoundDiv(fare * promo.discountPercent, 100), promo.maxDiscount)

(* getMultiplier: steps above the threshold, capped. *)
SurgeUnguarded(demand, supply, threshold, step, max) ==
  IF 4 * demand > threshold * supply
  THEN IF supply = 0 THEN max
       ELSE Smaller(max, NoSurge + step * CeilDiv(4 * demand - threshold * supply, step * supply))
  ELSE NoSurge
SurgeUncapped(demand, near, threshold, step, max) ==
  LET supply == Larger(near, 1) IN
  IF 4 * demand > threshold * supply
  THEN NoSurge + step * CeilDiv(4 * demand - threshold * supply, step * supply)
  ELSE NoSurge
Surge(demand, near, threshold, step, max) ==
  LET supply == Larger(near, 1) IN
  IF 4 * demand > threshold * supply
  THEN Smaller(max, NoSurge + step * CeilDiv(4 * demand - threshold * supply, step * supply))
  ELSE NoSurge
=============================================================================
