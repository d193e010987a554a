---------------------------- MODULE RideLifecycle ----------------------------
(***************************************************************************)
(* What RidesService promises to everyone who reads rides or consumes the  *)
(* ride.events topic, as if every call were atomic: each ride has one      *)
(* history of snapshots, the history only grows, it moves along the state  *)
(* machine, and each field is written only by the move that owns it.  A    *)
(* move may be repeated: assertTransition lets a status follow itself.     *)
(***************************************************************************)
EXTENDS Naturals, Sequences, RideStateMachine

CONSTANTS Rides, Drivers, NoDriver, Reasons

VARIABLE history        \* ride |-> its snapshots, oldest first

Snapshot == [status : Statuses, driver : Drivers \cup {NoDriver},
             reason : Reasons, fee : {0, 50}, fared : BOOLEAN]

(* The row of a ride that was just requested. *)
Fresh == [status |-> "REQUESTED", driver |-> NoDriver, reason |-> "none",
          fee |-> 0, fared |-> FALSE]

Current(r) == history[r][Len(history[r])]

(* driverId is written on acceptance, the cancellation fields on           *)
(* cancellation and the fare on completion, never at another move.         *)
OwnFieldsOnly(old, new) ==
  /\ new.driver # old.driver => new.status = "ACCEPTED" /\ new.driver \in Drivers
  /\ new.reason # old.reason \/ new.fee # old.fee => new.status = "CANCELLED"
  /\ new.fared # old.fared => new.status = "COMPLETED" /\ new.fared

Init == history = [r \in Rides |-> <<>>]

Request(r) == /\ history[r] = <<>>
              /\ history' = [history EXCEPT ![r] = <<Fresh>>]

Move(r) == /\ history[r] # <<>>
           /\ \E new \in Snapshot :
                /\ AssertTransition(Current(r).status, new.status)
                /\ OwnFieldsOnly(Current(r), new)
                /\ history' = [history EXCEPT ![r] = Append(@, new)]

Next == \E r \in Rides : Request(r) \/ Move(r)

Spec == Init /\ [][Next]_history
=============================================================================
