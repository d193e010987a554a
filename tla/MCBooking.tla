------------------------------- MODULE MCBooking -------------------------------
(***************************************************************************)
(* The rider's side of a booking, three behaviours side by side: live      *)
(* requests competing with each other, bookings competing with one live    *)
(* request, and what a ride is quoted and charged.  All requests and all   *)
(* bookings at once are too many states; prices share no state with them.  *)
(***************************************************************************)
EXTENDS ScheduledRides, MCPricing

VARIABLE part

MCInit == /\ part \in {"requests", "bookings", "prices"}
          /\ RiderInit /\ PriceInit
          /\ part # "prices" => surgeOn /\ supply = 0

MCNext ==
  /\ \/ part = "requests" /\ BookNext /\ UNCHANGED <<schedVars, priceVars>>
     \/ part = "bookings" /\ RiderNext /\ asked' <= 1 /\ UNCHANGED priceVars
     \/ part = "prices" /\ PriceNext /\ UNCHANGED allBookVars
  /\ UNCHANGED part

MCSpec == /\ MCInit /\ [][MCNext]_<<allBookVars, priceVars, part>>
          /\ DispatchFairness /\ PriceFairness
=============================================================================
