-------------------------------- MODULE Rides --------------------------------
(***************************************************************************)
(* RidesService and the ride endpoints of its controllers.                 *)
(*                                                                         *)
(* A call is a thread of awaits: the controller's authorisation read, the  *)
(* use case's own read, transition()'s read, and one database transaction  *)
(* that updates the row WHERE status = <the status read> and inserts the   *)
(* outbox event.  Each await is a step of its own, so calls interleave at  *)
(* every point where the code lets them; only the transaction is atomic.   *)
(* The matching service is here any client that moves a ride to MATCHING   *)
(* and ACCEPTED; module Matching replaces it by the real one.              *)
(*                                                                         *)
(* A definition whose name adds what is wrong to another's (Wins,          *)
(* WinsUnkeyed) is a defective form of it, part of no specification: the   *)
(* properties are shown to tell the two apart.                             *)
(***************************************************************************)
EXTENDS Naturals, Sequences, FiniteSets, RideStateMachine

CONSTANTS
  Rides, Drivers,
  Rider,            \* the rider, as a caller
  NoDriver,         \* driverId NULL
  Calls,            \* call slots: how many calls can be in flight at once
  Cancellers,       \* the cancelledBy values clients send
  Reasons,          \* the CancellationReason values clients send
  MaxEvents         \* bound: outbox events per ride

ASSUME RidesAssumption ==
  /\ NoDriver \notin Drivers
  /\ Rider \notin Drivers
  /\ Cancellers \subseteq {"RIDER", "DRIVER", "SYSTEM"} /\ "none" \notin Reasons
  /\ MaxEvents \in Nat

VARIABLES
  row,        \* the rides table
  log,        \* the outbox rows written for a ride, in commit order
  late,       \* rides created more than two minutes ago
  call,       \* the calls in flight
  restoring   \* <<ride, driver>> |-> driver restores spawned and not yet run

ridesVars == <<row, log, late, call, restoring>>

Actors == Drivers \cup {Rider}
RowReasons == Reasons \cup {"NO_DRIVER_FOUND", "none"}
Ops == {"match", "accept", "arrive", "start", "complete", "cancel", "rate"}
ApiOps == Ops \ {"match", "accept"}

(* The status each operation asks transition() for. *)
Target == [match |-> "MATCHING", accept |-> "ACCEPTED", arrive |-> "ARRIVED",
           start |-> "IN_PROGRESS", complete |-> "COMPLETED",
           cancel |-> "CANCELLED", rate |-> "COMPLETED"]

Snapshot == [status : Statuses, driver : Drivers \cup {NoDriver},
             reason : RowReasons, fee : {0, 50}, fared : BOOLEAN]
Absent == [status |-> "NONE"]
Exists(r) == row[r] # Absent

Idle == [pc |-> "idle"]
Frame == [pc : {"preread", "transition", "commit"}, op : Ops, ride : Rides,
          who : Actors, by : Cancellers \cup {"SYSTEM"},
          reason : RowReasons, fee : {0, 50},
          seen : Statuses \cup {"NONE"}, restore : Drivers \cup {NoDriver}]

-----------------------------------------------------------------------------
(* The transaction: the row and its event are written together. *)
Write(r, new) == /\ row' = [row EXCEPT ![r] = new]
                 /\ log' = [log EXCEPT ![r] = Append(@, new)]

(* The patch each operation hands to transition(). *)
Patched(old, f) ==
  [status |-> Target[f.op],
   driver |-> IF f.op = "accept" THEN f.who ELSE old.driver,
   reason |-> IF f.op = "cancel" THEN f.reason ELSE old.reason,
   fee    |-> IF f.op = "cancel" THEN f.fee ELSE old.fee,
   fared  |-> IF f.op = "complete" THEN TRUE ELSE old.fared]

(* The UPDATE's WHERE clause finds the row as transition() read it. *)
WinsUnkeyed(f) == TRUE
Wins(f) == row[f.ride].status = f.seen

(* completeRide reaches its restore only if transition() returned. *)
SpawnsAnyway(f) == f.restore # NoDriver
Spawns(f) == Wins(f) /\ f.restore # NoDriver

(* cancel()'s fee rules. *)
CancellationFeeTwice(r, by) == IF by = "RIDER" /\ r \in late THEN 100 ELSE 0
CancellationFee(r, by) ==
  CASE by = "RIDER"  -> IF r \in late THEN 50 ELSE 0
    [] by = "DRIVER" -> 50
    [] OTHER         -> 0

(* assertAssignedDriver for the driver's actions, RideParticipantGuard for *)
(* cancel and rate; the matching service is not authorised per ride.       *)
Authorised(op, who, ride) ==
  CASE op = "match"                         -> who = Rider
    [] op = "accept"                        -> who \in Drivers
    [] op \in {"arrive", "start", "complete"} -> who = ride.driver
    [] OTHER                                -> who = Rider \/ who = ride.driver

(* What the use case requires of its own read before it asks for the move. *)
PreConditionUnrated(op, status) == op = "cancel" => CanCancel(status)
PreCondition(op, status) ==
  CASE op = "cancel" -> CanCancel(status)
    [] op = "rate"   -> status = "COMPLETED"
    [] OTHER         -> TRUE

InFlight(r) == {c \in Calls : call[c] # Idle /\ call[c].ride = r}
Budget(r) == Len(log[r]) + Cardinality(InFlight(r)) < MaxEvents

-----------------------------------------------------------------------------
Init == /\ row = [r \in Rides |-> Absent]
        /\ log = [r \in Rides |-> <<>>]
        /\ late = {}
        /\ call = [c \in Calls |-> Idle]
        /\ restoring = [rd \in Rides \X Drivers |-> 0]

(* createRide: insert the row and its RIDE_REQUESTED event. *)
CreateRide(r) ==
  /\ ~Exists(r)
  /\ Write(r, [status |-> "REQUESTED", driver |-> NoDriver, reason |-> "none",
               fee |-> 0, fared |-> FALSE])
  /\ UNCHANGED <<late, call, restoring>>

(* The clock passes createdAt + 2 min. *)
TwoMinutesPass(r) ==
  /\ Exists(r)
  /\ late' = late \cup {r}
  /\ UNCHANGED <<row, log, call, restoring>>

(* A caller sends a request and the controller authorises it against the   *)
(* row as it is now.  Who asked is forgotten once authorised, except by an *)
(* acceptance, which writes it.                                            *)
Begin(c, op, r, who, by, reason) ==
  /\ call[c] = Idle
  /\ Exists(r) /\ Budget(r)
  /\ Authorised(op, who, row[r])
  /\ IF op = "cancel" THEN by \in Cancellers /\ reason \in Reasons
                      ELSE by = "SYSTEM" /\ reason = "none"
  /\ call' = [call EXCEPT ![c] =
       [pc |-> IF op \in {"complete", "cancel", "rate"} THEN "preread"
                                                        ELSE "transition",
        op |-> op, ride |-> r, who |-> IF op = "accept" THEN who ELSE Rider,
        by |-> by, reason |-> reason,
        fee |-> 0, seen |-> "NONE", restore |-> NoDriver]]
  /\ UNCHANGED <<row, log, late, restoring>>

(* The use case's own getRide: completeRide remembers the driver to give   *)
(* back, cancel checks the status and computes the fee, rate the status.   *)
PreRead(c) ==
  /\ call[c] # Idle /\ call[c].pc = "preread"
  /\ LET f == call[c]
         ride == row[f.ride]
     IN  call' = [call EXCEPT ![c] =
           IF ~PreCondition(f.op, ride.status) THEN Idle
           ELSE [f EXCEPT !.pc = "transition",
                          !.fee = IF f.op = "cancel"
                                  THEN CancellationFee(f.ride, f.by) ELSE 0,
                          !.restore = IF f.op = "complete" THEN ride.driver
                                                           ELSE NoDriver]]
  /\ UNCHANGED <<row, log, late, restoring>>

(* transition()'s getRide and assertTransition. *)
Observe(c) ==
  /\ call[c] # Idle /\ call[c].pc = "transition"
  /\ LET f == call[c]
         status == row[f.ride].status
     IN  call' = [call EXCEPT ![c] =
           IF AssertTransition(status, Target[f.op])
           THEN [f EXCEPT !.pc = "commit", !.seen = status]
           ELSE Idle]
  /\ UNCHANGED <<row, log, late, restoring>>

(* transition()'s transaction, and what its caller does with the result:   *)
(* a lost race is a 409, a completed ride spawns the driver's restore.     *)
Commit(c) ==
  /\ call[c] # Idle /\ call[c].pc = "commit"
  /\ LET f == call[c]
     IN  /\ IF Wins(f) THEN Write(f.ride, Patched(row[f.ride], f))
                       ELSE UNCHANGED <<row, log>>
         /\ restoring' = IF Spawns(f)
                         THEN [restoring EXCEPT ![<<f.ride, f.restore>>] = @ + 1]
                         ELSE restoring
  /\ call' = [call EXCEPT ![c] = Idle]
  /\ UNCHANGED late

(* The spawned DriversService.completeRide runs, or fails and is logged. *)
RestoreEnds(r, d) ==
  /\ restoring[<<r, d>>] > 0
  /\ restoring' = [restoring EXCEPT ![<<r, d>>] = @ - 1]
  /\ UNCHANGED <<row, log, late, call>>

(* The requests that can arrive: cancelledBy is the client's to choose. *)
Arrives(ops) ==
  \E c \in Calls, op \in ops, r \in Rides, who \in Actors,
     by \in Cancellers \cup {"SYSTEM"}, reason \in Reasons \cup {"none"} :
    Begin(c, op, r, who, by, reason)

(* Every ride has used its events and every call has returned. *)
Rest == /\ \A r \in Rides : Exists(r) /\ ~Budget(r)
        /\ \A c \in Calls : call[c] = Idle
        /\ UNCHANGED ridesVars

Next == \/ \E r \in Rides : CreateRide(r) \/ TwoMinutesPass(r)
        \/ Arrives(Ops)
        \/ \E c \in Calls : PreRead(c) \/ Observe(c) \/ Commit(c)
        \/ \E r \in Rides, d \in Drivers : RestoreEnds(r, d)
        \/ Rest

Spec == Init /\ [][Next]_ridesVars

-----------------------------------------------------------------------------
(* Every variable keeps its shape; a ride's log holds full snapshots. *)
TypeOK == /\ row \in [Rides -> Snapshot \cup {Absent}]
          /\ log \in [Rides -> Seq(Snapshot)]
          /\ late \subseteq Rides
          /\ call \in [Calls -> Frame \cup {Idle}]
          /\ restoring \in [Rides \X Drivers -> Nat]

(* A ride is settled exactly once and by the move that owns it: a ride is  *)
(* COMPLETED iff completeRide set its fare, CANCELLED iff cancel recorded  *)
(* a reason, and only a cancelled ride owes a cancellation fee, whichever  *)
(* calls raced (completeRide 324-353, cancel 356-392, rateRide's           *)
(* transition to COMPLETED).                                               *)
SettledByItsMove ==
  \A r \in Rides : Exists(r) =>
    /\ row[r].status = "COMPLETED" <=> row[r].fared
    /\ row[r].status = "CANCELLED" <=> row[r].reason # "none"
    /\ row[r].fee > 0 => row[r].status = "CANCELLED"

(* A driver is given back to the pool only for a ride that really          *)
(* completed: a complete call that lost its race spawns no restore.        *)
RestoresFollowCompletion ==
  \A r \in Rides, d \in Drivers :
    restoring[<<r, d>>] > 0 => Exists(r) /\ row[r].status = "COMPLETED"

(* The comment in transition() (rides.service.ts:274-276): of two          *)
(* transitions one wins, "the loser gets a Conflict instead of silently    *)
(* double-applying".  No arrival, start or cancellation is applied twice   *)
(* (a repeated COMPLETED can be a rating, which re-enters it on purpose).  *)
NoDoubleApply ==
  \A r \in Rides : \A i, j \in 1..Len(log[r]) :
    i # j /\ log[r][i].status = log[r][j].status
      => log[r][i].status \notin {"ARRIVED", "IN_PROGRESS", "CANCELLED"}

(* RidesService implements the atomic per-ride life cycle: read through    *)
(* its outbox rows, every interleaving of calls is a sequence of legal     *)
(* moves, each writing only the fields it owns.                            *)
Lifecycle == INSTANCE RideLifecycle WITH history <- log, Reasons <- RowReasons
LifecycleSpec == Lifecycle!Spec

-----------------------------------------------------------------------------
(* The inductive invariant: what the properties above need to survive a    *)
(* step.  The event is the row; a call past its reads holds a status from  *)
(* which its move is legal; a rating call has seen a COMPLETED ride, and   *)
(* only a completing call holds a driver to restore.                       *)
EventsMatchRow ==
  \A r \in Rides : IF Exists(r)
                   THEN log[r] # <<>> /\ log[r][Len(log[r])] = row[r]
                   ELSE log[r] = <<>>

CallOK(f) ==
  /\ Exists(f.ride)
  /\ f.pc = "commit" => AssertTransition(f.seen, Target[f.op])
  /\ f.op = "rate" /\ f.pc # "preread" => row[f.ride].status = "COMPLETED"
  /\ f.restore # NoDriver => f.op = "complete"
  /\ f.op = "cancel" => f.reason # "none"
  /\ f.op = "accept" => f.who \in Drivers

CallsOK == \A c \in Calls : call[c] # Idle => CallOK(call[c])

IInv == /\ TypeOK
        /\ EventsMatchRow
        /\ CallsOK
        /\ SettledByItsMove
        /\ RestoresFollowCompletion
=============================================================================
