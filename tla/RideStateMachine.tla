-------------------------- MODULE RideStateMachine --------------------------
(***************************************************************************)
(* The legal moves of a ride (rides/state-machine/ride-state-machine.ts)   *)
(* and the status filter of a driver's active ride.  Pure definitions,     *)
(* shared by every module in which a ride moves.                           *)
(***************************************************************************)

Statuses == {"REQUESTED", "MATCHING", "ACCEPTED", "ARRIVED", "IN_PROGRESS",
             "COMPLETED", "CANCELLED"}

TRANSITIONS ==
  [REQUESTED   |-> {"MATCHING", "CANCELLED"},
   MATCHING    |-> {"ACCEPTED", "CANCELLED"},
   ACCEPTED    |-> {"ARRIVED", "CANCELLED"},
   ARRIVED     |-> {"IN_PROGRESS", "CANCELLED"},
   IN_PROGRESS |-> {"COMPLETED", "CANCELLED"},
   COMPLETED   |-> {},
   CANCELLED   |-> {}]

(* Does assertTransition(from, to) return?  A self-transition always does. *)
AssertTransition(from, to) == from = to \/ to \in TRANSITIONS[from]

CanCancel(status) == "CANCELLED" \in TRANSITIONS[status]

IsTerminal(status) == status \in {"COMPLETED", "CANCELLED"}

(* getActiveRideForDriver's status filter. *)
DriverActive == {"ACCEPTED", "ARRIVED", "IN_PROGRESS"}
=============================================================================
