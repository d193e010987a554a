------------------------------- MODULE MCRides -------------------------------
(***************************************************************************)
(* A ride and its money for TLC, three behaviours side by side that share  *)
(* no state: the calls on a ride's row, the payment of a ride, and the     *)
(* nightly settlement.  Callers, drivers, instances and settled rides are  *)
(* interchangeable: no definition tells one from another.                  *)
(***************************************************************************)
EXTENDS Rides, Payments, Settlement, TLC

VARIABLE part

MCInit == /\ part \in {"ride", "payment", "settlement"}
          /\ Init /\ PayInit /\ SettleInit
          /\ part # "payment" => webhookPath = "named"

MCNext ==
  /\ \/ part = "ride" /\ Next /\ UNCHANGED <<payVars, settleVars>>
     \/ part = "payment" /\ PayNext /\ UNCHANGED <<ridesVars, settleVars>>
     \/ part = "settlement" /\ SettleNext /\ UNCHANGED <<ridesVars, payVars>>
  /\ UNCHANGED part

MCSpec == MCInit /\ [][MCNext]_<<ridesVars, payVars, settleVars, part>>

Symmetric == Permutations(Calls) \cup Permutations(Drivers)
               \cup Permutations(Instances) \cup Permutations(Trips)
=============================================================================
