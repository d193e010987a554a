------------------------------ MODULE MCPricing ------------------------------
(***************************************************************************)
(* Pricing for TLC: a cab's and an auto's fare config as values of one     *)
(* row, one route that the ride's columns round, with and without a promo. *)
(***************************************************************************)
EXTENDS Pricing

Cab == [baseFare |-> 120, perKmRate |-> 28, perMinuteRate |-> 3, minimumFare |-> 80,
        surgeMultiplier |-> 4]
Auto == [baseFare |-> 60, perKmRate |-> 18, perMinuteRate |-> 2, minimumFare |-> 90,
         surgeMultiplier |-> 5]
MCConfigs == {Cab, Auto}
CabOnly == {Cab}
MCRoutes == {[metres |-> 4996, seconds |-> 750]}
MCPromos == {NoPromo, [discountPercent |-> 20, maxDiscount |-> 40]}
=============================================================================
