----------------------------- MODULE RidesProofs -----------------------------
(***************************************************************************)
(* Rides keeps its inductive invariant IInv, whatever the sets of rides,   *)
(* drivers and concurrent calls; its safety properties follow, and so does *)
(* that it implements RideLifecycle.                                       *)
(***************************************************************************)
EXTENDS Rides, TLAPS

(* A move RidesService writes is a move of the state machine, and keeps    *)
(* the fields it does not own.                                             *)
LEMMA PatchedIsSnapshot ==
  ASSUME NEW old \in Snapshot, NEW f \in Frame, f.op = "accept" => f.who \in Drivers
  PROVE  Patched(old, f) \in Snapshot
<1>1. Target[f.op] \in Statuses
  BY DEF Frame, Target, Ops, Statuses
<1>2. (IF f.op = "accept" THEN f.who ELSE old.driver) \in Drivers \cup {NoDriver}
  BY DEF Snapshot
<1>3. (IF f.op = "cancel" THEN f.reason ELSE old.reason) \in RowReasons
  BY DEF Snapshot, Frame
<1>4. (IF f.op = "cancel" THEN f.fee ELSE old.fee) \in {0, 50}
  BY DEF Snapshot, Frame
<1>5. (IF f.op = "complete" THEN TRUE ELSE old.fared) \in BOOLEAN
  BY DEF Snapshot
<1> QED BY <1>1, <1>2, <1>3, <1>4, <1>5 DEF Patched, Snapshot

(* A terminal status leaves only itself. *)
LEMMA TerminalIsAbsorbing ==
  ASSUME NEW from \in Statuses, NEW to \in Statuses,
         AssertTransition(from, to), IsTerminal(from)
  PROVE  to = from
BY DEF AssertTransition, IsTerminal, TRANSITIONS

LEMMA AbsentIsNoSnapshot == Absent \notin Snapshot /\ Idle \notin Frame
<1>1. ASSUME NEW s \in Snapshot PROVE s # Absent
  <2>1. s.status \in Statuses
    BY <1>1 DEF Snapshot
  <2>2. Absent.status = "NONE" /\ "NONE" \notin Statuses
    BY DEF Absent, Statuses
  <2> QED BY <2>1, <2>2
<1>2. ASSUME NEW f \in Frame PROVE f # Idle
  <2>1. f.pc \in {"preread", "transition", "commit"}
    BY <1>2 DEF Frame
  <2>2. Idle.pc = "idle"
    BY DEF Idle
  <2> QED BY <2>1, <2>2
<1> QED BY <1>1, <1>2

LEMMA InitIInv == ASSUME Init PROVE IInv
<1>1. TypeOK
  BY DEF Init, TypeOK
<1>2. EventsMatchRow /\ SettledByItsMove /\ RestoresFollowCompletion
  BY DEF Init, EventsMatchRow, SettledByItsMove, RestoresFollowCompletion, Exists
<1>3. CallsOK
  BY DEF Init, CallsOK
<1> QED BY <1>1, <1>2, <1>3 DEF IInv

(* Writing a snapshot keeps the row, its event and their types together. *)
LEMMA WriteKeepsRowAndEvent ==
  ASSUME TypeOK, EventsMatchRow, NEW r \in Rides, NEW new \in Snapshot, Write(r, new)
  PROVE  /\ row' \in [Rides -> Snapshot \cup {Absent}]
         /\ log' \in [Rides -> Seq(Snapshot)]
         /\ EventsMatchRow'
<1>1. /\ row' \in [Rides -> Snapshot \cup {Absent}]
      /\ row'[r] = new
      /\ \A q \in Rides : q # r => row'[q] = row[q]
  BY DEF TypeOK, Write
<1>2. /\ log' \in [Rides -> Seq(Snapshot)]
      /\ log'[r] = Append(log[r], new)
      /\ \A q \in Rides : q # r => log'[q] = log[q]
  BY DEF TypeOK, Write
<1>3. log'[r] # <<>> /\ log'[r][Len(log'[r])] = new
  <2>1. log[r] \in Seq(Snapshot)
    BY DEF TypeOK
  <2> QED BY <1>2, <2>1
<1>4. EventsMatchRow'
  <2> SUFFICES ASSUME NEW q \in Rides
               PROVE  IF Exists(q)'
                      THEN log'[q] # <<>> /\ log'[q][Len(log'[q])] = row'[q]
                      ELSE log'[q] = <<>>
    BY DEF EventsMatchRow
  <2>1. CASE q = r
    BY <2>1, <1>1, <1>3, AbsentIsNoSnapshot DEF Exists
  <2>2. CASE q # r
    BY <2>2, <1>1, <1>2 DEF EventsMatchRow, Exists
  <2> QED BY <2>1, <2>2
<1> QED BY <1>1, <1>2, <1>4

(* A frame at its commit, still allowed, writes a legal move by its owner. *)
LEMMA CommitIsLegal ==
  ASSUME IInv, NEW f \in Frame, CallOK(f), f.pc = "commit", Wins(f)
  PROVE  /\ f.ride \in Rides /\ f.op \in Ops
         /\ row[f.ride] \in Snapshot
         /\ AssertTransition(row[f.ride].status, Target[f.op])
         /\ Patched(row[f.ride], f) \in Snapshot
<1>1. f.ride \in Rides /\ f.op \in Ops
  BY DEF Frame
<1>2. row[f.ride] \in Snapshot
  BY <1>1 DEF CallOK, IInv, TypeOK, Exists
<1>3. AssertTransition(row[f.ride].status, Target[f.op])
  BY DEF CallOK, Wins
<1>4. Patched(row[f.ride], f) \in Snapshot
  BY <1>2, PatchedIsSnapshot DEF CallOK
<1> QED BY <1>1, <1>2, <1>3, <1>4

(* A step that only moves one call on keeps IInv if the call stays OK. *)
LEMMA CallStep ==
  ASSUME IInv, NEW c \in Calls, NEW X \in Frame \cup {Idle}, X # Idle => CallOK(X),
         call' = [call EXCEPT ![c] = X], UNCHANGED <<row, log, late, restoring>>
  PROVE  IInv'
<1>1. TypeOK'
  BY DEF IInv, TypeOK
<1>2. EventsMatchRow' /\ SettledByItsMove' /\ RestoresFollowCompletion'
  BY DEF IInv, EventsMatchRow, SettledByItsMove, RestoresFollowCompletion, Exists
<1>3. CallsOK'
  <2> SUFFICES ASSUME NEW e \in Calls, call'[e] # Idle PROVE CallOK(call[e])'
    BY DEF CallsOK
  <2>1. CallOK(call'[e])
    BY DEF IInv, TypeOK, CallsOK
  <2> QED BY <2>1 DEF CallOK, Exists
<1> QED BY <1>1, <1>2, <1>3 DEF IInv

LEMMA BeginStep ==
  ASSUME IInv, NEW c \in Calls, NEW op \in Ops, NEW r \in Rides, NEW who \in Actors,
         NEW by \in Cancellers \cup {"SYSTEM"}, NEW reason \in Reasons \cup {"none"},
         Begin(c, op, r, who, by, reason)
  PROVE  IInv'
<1> DEFINE X == [pc |-> IF op \in {"complete", "cancel", "rate"} THEN "preread"
                                                                 ELSE "transition",
                 op |-> op, ride |-> r, who |-> IF op = "accept" THEN who ELSE Rider,
                 by |-> by, reason |-> reason, fee |-> 0, seen |-> "NONE", restore |-> NoDriver]
<1>1. X \in Frame
  BY DEF Frame, RowReasons, Actors
<1>2. CallOK(X)
  BY RidesAssumption DEF Begin, CallOK, Authorised
<1>3. call' = [call EXCEPT ![c] = X] /\ UNCHANGED <<row, log, late, restoring>>
  BY DEF Begin
<1> QED BY <1>1, <1>2, <1>3, CallStep

LEMMA PreReadStep ==
  ASSUME IInv, NEW c \in Calls, PreRead(c)
  PROVE  IInv'
<1> DEFINE f == call[c]
           ride == row[f.ride]
           Y == [f EXCEPT !.pc = "transition",
                          !.fee = IF f.op = "cancel"
                                  THEN CancellationFee(f.ride, f.by) ELSE 0,
                          !.restore = IF f.op = "complete" THEN ride.driver
                                                           ELSE NoDriver]
           X == IF ~PreCondition(f.op, ride.status) THEN Idle ELSE Y
<1>1. f \in Frame /\ f.pc = "preread" /\ CallOK(f)
  BY DEF PreRead, IInv, TypeOK, CallsOK
<1>2. ride \in Snapshot
  BY <1>1 DEF IInv, TypeOK, CallOK, Exists, Frame
<1>3. CancellationFee(f.ride, f.by) \in {0, 50}
  BY DEF CancellationFee
<1>4. Y \in Frame
  BY <1>1, <1>2, <1>3 DEF Frame, Snapshot
<1>5. CASE PreCondition(f.op, ride.status)
  <2>1. f.op = "rate" => ride.status = "COMPLETED"
    BY <1>5 DEF PreCondition
  <2>2. Y.pc = "transition" /\ Y.op = f.op /\ Y.ride = f.ride /\ Y.who = f.who
        /\ Y.reason = f.reason /\ (Y.restore # NoDriver => f.op = "complete")
    BY <1>1 DEF Frame
  <2>3. CallOK(Y)
    BY <1>1, <2>1, <2>2 DEF CallOK
  <2>4. call' = [call EXCEPT ![c] = Y] /\ UNCHANGED <<row, log, late, restoring>>
    BY <1>5 DEF PreRead
  <2> QED BY <1>4, <2>3, <2>4, CallStep
<1>6. CASE ~PreCondition(f.op, ride.status)
  <2>1. call' = [call EXCEPT ![c] = Idle] /\ UNCHANGED <<row, log, late, restoring>>
    BY <1>6 DEF PreRead
  <2> QED BY <2>1, CallStep
<1> QED BY <1>5, <1>6

LEMMA ObserveStep ==
  ASSUME IInv, NEW c \in Calls, Observe(c)
  PROVE  IInv'
<1> DEFINE f == call[c]
           status == row[f.ride].status
           Y == [f EXCEPT !.pc = "commit", !.seen = status]
<1>1. f \in Frame /\ f.pc = "transition" /\ CallOK(f)
  BY DEF Observe, IInv, TypeOK, CallsOK
<1>2. status \in Statuses
  BY <1>1 DEF IInv, TypeOK, CallOK, Exists, Frame, Snapshot
<1>3. CASE AssertTransition(status, Target[f.op])
  <2>1. Y \in Frame
    BY <1>1, <1>2 DEF Frame
  <2>2. Y.seen = status /\ Y.op = f.op /\ Y.ride = f.ride /\ Y.who = f.who
        /\ Y.reason = f.reason /\ Y.restore = f.restore
    BY <1>1 DEF Frame
  <2>3. CallOK(Y)
    BY <1>1, <1>3, <2>2 DEF CallOK
  <2>4. call' = [call EXCEPT ![c] = Y] /\ UNCHANGED <<row, log, late, restoring>>
    BY <1>3 DEF Observe
  <2> QED BY <2>1, <2>3, <2>4, CallStep
<1>4. CASE ~AssertTransition(status, Target[f.op])
  <2>1. call' = [call EXCEPT ![c] = Idle] /\ UNCHANGED <<row, log, late, restoring>>
    BY <1>4 DEF Observe
  <2> QED BY <2>1, CallStep
<1> QED BY <1>3, <1>4

(* The winning transaction keeps IInv, whoever runs it: a call, or a thread *)
(* of another module that holds a frame of its own.                         *)
LEMMA WinningCommit ==
  ASSUME IInv, NEW f \in Frame, CallOK(f), f.pc = "commit", Wins(f),
         Write(f.ride, Patched(row[f.ride], f)),
         restoring' = IF f.restore = NoDriver THEN restoring
                      ELSE [restoring EXCEPT ![<<f.ride, f.restore>>] = @ + 1],
         call' \in [Calls -> Frame \cup {Idle}],
         \A e \in Calls : call'[e] \in {Idle, call[e]},
         late' = late
  PROVE  IInv'
<1> DEFINE old == row[f.ride]
           new == Patched(old, f)
<1>1. /\ f.ride \in Rides /\ f.op \in Ops
      /\ Exists(f.ride) /\ old \in Snapshot /\ new \in Snapshot
      /\ AssertTransition(old.status, Target[f.op])
      /\ f.op = "rate" => old.status = "COMPLETED"
  BY CommitIsLegal DEF CallOK
<1>2. /\ row' \in [Rides -> Snapshot \cup {Absent}]
      /\ log' \in [Rides -> Seq(Snapshot)]
      /\ EventsMatchRow'
  BY <1>1, WriteKeepsRowAndEvent DEF IInv
<1>3. restoring' \in [Rides \X Drivers -> Nat]
  BY <1>1 DEF IInv, TypeOK, Frame
<1>4. TypeOK'
  BY <1>2, <1>3 DEF IInv, TypeOK
<1>5. /\ row'[f.ride] = new
      /\ \A q \in Rides : q # f.ride => row'[q] = row[q]
  BY <1>1 DEF Write, IInv, TypeOK
<1>6. old.status = "COMPLETED" => new.status = "COMPLETED"
  <2> SUFFICES ASSUME old.status = "COMPLETED" PROVE new.status = "COMPLETED"
    OBVIOUS
  <2>1. Target[f.op] \in Statuses /\ old.status \in Statuses
    BY <1>1 DEF Target, Ops, Statuses, Snapshot
  <2>2. Target[f.op] = old.status
    BY <1>1, <2>1, TerminalIsAbsorbing DEF IsTerminal
  <2> QED BY <2>2 DEF Patched
<1>7. \A q \in Rides : Exists(q) => Exists(q)'
  BY <1>1, <1>5, AbsentIsNoSnapshot DEF Exists
<1>8. CallsOK'
  <2> SUFFICES ASSUME NEW e \in Calls, call'[e] # Idle PROVE CallOK(call[e])'
    BY DEF CallsOK
  <2>1. call'[e] = call[e] /\ call[e] \in Frame /\ CallOK(call[e])
    BY DEF IInv, TypeOK, CallsOK
  <2>2. call[e].ride \in Rides
    BY <2>1 DEF Frame
  <2>3. row[call[e].ride].status = "COMPLETED" => row'[call[e].ride].status = "COMPLETED"
    BY <1>5, <1>6, <2>2
  <2> QED BY <1>7, <2>1, <2>2, <2>3 DEF CallOK
<1>9. SettledByItsMove'
  <2> SUFFICES ASSUME NEW q \in Rides, Exists(q)'
               PROVE  /\ row'[q].status = "COMPLETED" <=> row'[q].fared
                      /\ row'[q].status = "CANCELLED" <=> row'[q].reason # "none"
                      /\ row'[q].fee > 0 => row'[q].status = "CANCELLED"
    BY DEF SettledByItsMove
  <2>1. CASE q # f.ride
    BY <1>5, <2>1 DEF IInv, SettledByItsMove, Exists
  <2>2. CASE q = f.ride
    <3>1. /\ old.status = "COMPLETED" <=> old.fared
          /\ old.status = "CANCELLED" <=> old.reason # "none"
          /\ old.fee > 0 => old.status = "CANCELLED"
      BY <1>1 DEF IInv, SettledByItsMove
    <3>2. /\ new.status = Target[f.op]
          /\ new.reason = (IF f.op = "cancel" THEN f.reason ELSE old.reason)
          /\ new.fee = (IF f.op = "cancel" THEN f.fee ELSE old.fee)
          /\ new.fared = (IF f.op = "complete" THEN TRUE ELSE old.fared)
      BY DEF Patched
    <3>3. Target[f.op] = "CANCELLED" <=> f.op = "cancel"
      BY <1>1 DEF Target, Ops
    <3>4. Target[f.op] = "COMPLETED" <=> f.op \in {"complete", "rate"}
      BY <1>1 DEF Target, Ops
    <3>5. f.op = "cancel" => f.reason # "none"
      BY DEF CallOK
    <3>6. IsTerminal(old.status) => Target[f.op] = old.status
      <4>1. Target[f.op] \in Statuses /\ old.status \in Statuses
        BY <1>1 DEF Target, Ops, Statuses, Snapshot
      <4> QED BY <1>1, <4>1, TerminalIsAbsorbing
    <3>7. old.fared \in BOOLEAN
      BY <1>1 DEF Snapshot
    <3>8. new.status = "COMPLETED" <=> new.fared
      BY <1>1, <3>1, <3>2, <3>4, <3>6, <3>7 DEF IsTerminal
    <3>9. new.status = "CANCELLED" <=> new.reason # "none"
      BY <3>1, <3>2, <3>3, <3>5, <3>6 DEF IsTerminal
    <3>10. new.fee > 0 => new.status = "CANCELLED"
      BY <3>1, <3>2, <3>3, <3>6 DEF IsTerminal
    <3> QED BY <1>5, <2>2, <3>8, <3>9, <3>10
  <2> QED BY <2>1, <2>2
<1>10. RestoresFollowCompletion'
  <2> SUFFICES ASSUME NEW q \in Rides, NEW d \in Drivers, restoring'[<<q, d>>] > 0
               PROVE  Exists(q)' /\ row'[q].status = "COMPLETED"
    BY DEF RestoresFollowCompletion
  <2>1. CASE restoring[<<q, d>>] > 0
    BY <1>5, <1>6, <1>7, <2>1 DEF IInv, RestoresFollowCompletion
  <2>2. CASE ~(restoring[<<q, d>>] > 0)
    <3>1. f.restore # NoDriver /\ q = f.ride
      BY <1>1, <2>2 DEF IInv, TypeOK, Frame
    <3>2. f.op = "complete"
      BY <3>1 DEF CallOK
    <3>3. new.status = "COMPLETED"
      BY <3>2 DEF Patched, Target
    <3> QED BY <1>1, <1>5, <1>7, <3>1, <3>3
  <2> QED BY <2>1, <2>2
<1> QED BY <1>2, <1>4, <1>8, <1>9, <1>10 DEF IInv

LEMMA CommitStep ==
  ASSUME IInv, NEW c \in Calls, Commit(c)
  PROVE  IInv'
<1> DEFINE f == call[c]
<1>1. f \in Frame /\ CallOK(f) /\ f.pc = "commit"
  BY DEF Commit, IInv, TypeOK, CallsOK
<1>2. call' = [call EXCEPT ![c] = Idle] /\ late' = late
  BY DEF Commit
<1>3. CASE ~Wins(f)
  BY <1>2, <1>3, CallStep DEF Commit, Spawns
<1>4. CASE Wins(f)
  <2>1. /\ Write(f.ride, Patched(row[f.ride], f))
        /\ restoring' = IF f.restore = NoDriver THEN restoring
                        ELSE [restoring EXCEPT ![<<f.ride, f.restore>>] = @ + 1]
    BY <1>4 DEF Commit, Spawns
  <2>2. /\ call' \in [Calls -> Frame \cup {Idle}]
        /\ \A e \in Calls : call'[e] \in {Idle, call[e]}
    BY <1>2 DEF IInv, TypeOK
  <2> QED BY <1>1, <1>2, <1>4, <2>1, <2>2, WinningCommit
<1> QED BY <1>3, <1>4

LEMMA CreateRideStep ==
  ASSUME IInv, NEW r \in Rides, CreateRide(r)
  PROVE  IInv'
<1> DEFINE new == [status |-> "REQUESTED", driver |-> NoDriver, reason |-> "none",
                   fee |-> 0, fared |-> FALSE]
<1>1. new \in Snapshot
  BY DEF Snapshot, Statuses, RowReasons
<1>2. Write(r, new) /\ UNCHANGED <<late, call, restoring>> /\ ~Exists(r)
  BY DEF CreateRide
<1>3. TypeOK' /\ EventsMatchRow'
  BY <1>1, <1>2, WriteKeepsRowAndEvent DEF IInv, TypeOK
<1>4. /\ row'[r] = new
      /\ \A q \in Rides : q # r => row'[q] = row[q]
  BY <1>2 DEF Write, IInv, TypeOK
<1>5. CallsOK'
  <2> SUFFICES ASSUME NEW e \in Calls, call'[e] # Idle PROVE CallOK(call[e])'
    BY DEF CallsOK
  <2>1. call'[e] = call[e] /\ call[e] \in Frame /\ CallOK(call[e])
    BY <1>2 DEF IInv, TypeOK, CallsOK
  <2>2. call[e].ride \in Rides /\ call[e].ride # r
    BY <1>2, <2>1 DEF Frame, CallOK
  <2> QED BY <1>4, <2>1, <2>2 DEF CallOK, Exists
<1>6. SettledByItsMove'
  BY <1>4 DEF IInv, SettledByItsMove, Exists
<1>7. RestoresFollowCompletion'
  BY <1>2, <1>4 DEF IInv, RestoresFollowCompletion, Exists
<1> QED BY <1>3, <1>5, <1>6, <1>7 DEF IInv

(* The steps that touch neither the row nor a call. *)
LEMMA OtherSteps ==
  ASSUME IInv,
         \/ \E r \in Rides : TwoMinutesPass(r)
         \/ \E r \in Rides, d \in Drivers : RestoreEnds(r, d)
         \/ UNCHANGED ridesVars
  PROVE  IInv'
<1>1. UNCHANGED <<row, log, call>>
  BY DEF TwoMinutesPass, RestoreEnds, ridesVars
<1>2. late' \subseteq Rides
  BY DEF TwoMinutesPass, RestoreEnds, ridesVars, IInv, TypeOK
<1>3. /\ restoring' \in [Rides \X Drivers -> Nat]
      /\ \A q \in Rides, d \in Drivers : restoring'[<<q, d>>] > 0 => restoring[<<q, d>>] > 0
  <2>1. CASE \E r \in Rides : TwoMinutesPass(r)
    BY <2>1 DEF TwoMinutesPass, IInv, TypeOK
  <2>2. CASE UNCHANGED ridesVars
    BY <2>2 DEF ridesVars, IInv, TypeOK
  <2>3. ASSUME NEW r \in Rides, NEW d \in Drivers, RestoreEnds(r, d)
        PROVE  /\ restoring' \in [Rides \X Drivers -> Nat]
               /\ \A q \in Rides, e \in Drivers :
                    restoring'[<<q, e>>] > 0 => restoring[<<q, e>>] > 0
    <3>1. restoring \in [Rides \X Drivers -> Nat] /\ <<r, d>> \in Rides \X Drivers
      BY DEF IInv, TypeOK
    <3>2. restoring[<<r, d>>] \in Nat /\ restoring[<<r, d>>] > 0
      BY <2>3, <3>1 DEF RestoreEnds
    <3>3. restoring' = [restoring EXCEPT ![<<r, d>>] = restoring[<<r, d>>] - 1]
      BY <2>3 DEF RestoreEnds
    <3>4. restoring[<<r, d>>] - 1 \in Nat
      BY <3>2
    <3> QED BY <3>1, <3>2, <3>3, <3>4
  <2> QED BY <2>1, <2>2, <2>3
<1>4. TypeOK'
  BY <1>1, <1>2, <1>3 DEF IInv, TypeOK
<1>5. EventsMatchRow' /\ SettledByItsMove' /\ RestoresFollowCompletion'
  BY <1>1, <1>3 DEF IInv, EventsMatchRow, SettledByItsMove, RestoresFollowCompletion, Exists
<1>6. CallsOK'
  BY <1>1 DEF IInv, CallsOK, CallOK, Exists
<1> QED BY <1>4, <1>5, <1>6 DEF IInv

LEMMA StepIInv == ASSUME IInv, [Next]_ridesVars PROVE IInv'
<1>1. ASSUME NEW r \in Rides, CreateRide(r) PROVE IInv'
  BY <1>1, CreateRideStep
<1>2. ASSUME Arrives(Ops) PROVE IInv'
  BY <1>2, BeginStep DEF Arrives
<1>3. ASSUME NEW c \in Calls, PreRead(c) PROVE IInv'
  BY <1>3, PreReadStep
<1>4. ASSUME NEW c \in Calls, Observe(c) PROVE IInv'
  BY <1>4, ObserveStep
<1>5. ASSUME NEW c \in Calls, Commit(c) PROVE IInv'
  BY <1>5, CommitStep
<1>6. CASE \/ \E r \in Rides : TwoMinutesPass(r)
           \/ \E r \in Rides, d \in Drivers : RestoreEnds(r, d)
           \/ UNCHANGED ridesVars
  BY <1>6, OtherSteps
<1> QED BY <1>1, <1>2, <1>3, <1>4, <1>5, <1>6 DEF Next, Rest

(* IInv holds in every reachable state. *)
THEOREM Inductive == Spec => []IInv
<1>1. Init => IInv
  BY InitIInv
<1>2. IInv /\ [Next]_ridesVars => IInv'
  BY StepIInv
<1> QED BY <1>1, <1>2, PTL DEF Spec

(* Every variable keeps its shape. *)
THEOREM TypeCorrect == Spec => []TypeOK
<1>1. IInv => TypeOK
  BY DEF IInv
<1> QED BY <1>1, Inductive, PTL

(* A ride is settled exactly once, by the move that owns it. *)
THEOREM SettledCorrect == Spec => []SettledByItsMove
<1>1. IInv => SettledByItsMove
  BY DEF IInv
<1> QED BY <1>1, Inductive, PTL

(* Only a completed ride gives its driver back. *)
THEOREM RestoresCorrect == Spec => []RestoresFollowCompletion
<1>1. IInv => RestoresFollowCompletion
  BY DEF IInv
<1> QED BY <1>1, Inductive, PTL

-----------------------------------------------------------------------------
(* Inserting a ride is the abstract request. *)
LEMMA CreateRideRefines ==
  ASSUME IInv, NEW r \in Rides, CreateRide(r)
  PROVE  Lifecycle!Next
<1>1. log[r] = <<>>
  BY DEF IInv, EventsMatchRow, CreateRide
<1>2. log' = [log EXCEPT ![r] = <<Lifecycle!Fresh>>]
  BY <1>1 DEF CreateRide, Write, Lifecycle!Fresh
<1>3. Lifecycle!Request(r)
  BY <1>1, <1>2 DEF Lifecycle!Request
<1> QED BY <1>3 DEF Lifecycle!Next

(* A transaction that wins is an abstract move. *)
LEMMA WinRefines ==
  ASSUME IInv, NEW f \in Frame, CallOK(f), f.pc = "commit", Wins(f),
         Write(f.ride, Patched(row[f.ride], f))
  PROVE  Lifecycle!Next
<1> DEFINE old == row[f.ride]
           new == Patched(old, f)
<1>1. /\ f.ride \in Rides /\ f.op \in Ops
      /\ Exists(f.ride) /\ old \in Snapshot /\ new \in Snapshot
      /\ AssertTransition(old.status, Target[f.op])
  BY CommitIsLegal DEF CallOK
<1>2. log[f.ride] # <<>> /\ Lifecycle!Current(f.ride) = old
  BY <1>1 DEF IInv, EventsMatchRow, Lifecycle!Current
<1>3. log' = [log EXCEPT ![f.ride] = Append(@, new)]
  BY DEF Write
<1>4. new \in Lifecycle!Snapshot
  BY <1>1 DEF Snapshot, Lifecycle!Snapshot, Statuses, Lifecycle!Statuses
<1>5. Lifecycle!AssertTransition(old.status, new.status)
  BY <1>1 DEF Patched, AssertTransition, Lifecycle!AssertTransition, TRANSITIONS,
     Lifecycle!TRANSITIONS
<1>6. Lifecycle!OwnFieldsOnly(old, new)
  <2>1. /\ new.status = Target[f.op]
        /\ new.driver = (IF f.op = "accept" THEN f.who ELSE old.driver)
        /\ new.reason = (IF f.op = "cancel" THEN f.reason ELSE old.reason)
        /\ new.fee = (IF f.op = "cancel" THEN f.fee ELSE old.fee)
        /\ new.fared = (IF f.op = "complete" THEN TRUE ELSE old.fared)
    BY DEF Patched
  <2>2. new.driver # old.driver => new.status = "ACCEPTED" /\ new.driver \in Drivers
    BY <2>1 DEF CallOK, Target
  <2>3. new.reason # old.reason \/ new.fee # old.fee => new.status = "CANCELLED"
    BY <2>1 DEF Target
  <2>4. new.fared # old.fared => new.status = "COMPLETED" /\ new.fared
    <3>1. old.fared \in BOOLEAN
      BY <1>1 DEF Snapshot
    <3>2. f.op = "complete" => new.status = "COMPLETED" /\ new.fared
      BY <2>1 DEF Target
    <3>3. f.op # "complete" => new.fared = old.fared
      BY <2>1, <3>1
    <3> QED BY <3>2, <3>3
  <2> QED BY <2>2, <2>3, <2>4 DEF Lifecycle!OwnFieldsOnly
<1>7. Lifecycle!Move(f.ride)
  BY <1>2, <1>3, <1>4, <1>5, <1>6 DEF Lifecycle!Move
<1> QED BY <1>1, <1>7 DEF Lifecycle!Next

(* A commit that loses is a stutter. *)
LEMMA CommitRefines ==
  ASSUME IInv, NEW c \in Calls, Commit(c)
  PROVE  Lifecycle!Next \/ UNCHANGED log
<1>1. CASE ~Wins(call[c])
  BY <1>1 DEF Commit
<1>2. CASE Wins(call[c])
  <2>1. call[c] \in Frame /\ CallOK(call[c]) /\ call[c].pc = "commit"
    BY DEF Commit, IInv, TypeOK, CallsOK
  <2>2. Write(call[c].ride, Patched(row[call[c].ride], call[c]))
    BY <1>2 DEF Commit
  <2> QED BY <1>2, <2>1, <2>2, WinRefines
<1> QED BY <1>1, <1>2

(* Every step of RidesService is an abstract step or a stutter. *)
LEMMA StepRefines ==
  ASSUME IInv, [Next]_ridesVars
  PROVE  Lifecycle!Next \/ UNCHANGED log
<1>1. ASSUME NEW r \in Rides, CreateRide(r) PROVE Lifecycle!Next
  BY <1>1, CreateRideRefines
<1>2. ASSUME NEW c \in Calls, Commit(c) PROVE Lifecycle!Next \/ UNCHANGED log
  BY <1>2, CommitRefines
<1>3. CASE Arrives(Ops)
  BY <1>3 DEF Arrives, Begin
<1>4. CASE \E c \in Calls : PreRead(c) \/ Observe(c)
  BY <1>4 DEF PreRead, Observe
<1>5. CASE \E r \in Rides : TwoMinutesPass(r)
  BY <1>5 DEF TwoMinutesPass
<1>6. CASE \E r \in Rides, d \in Drivers : RestoreEnds(r, d)
  BY <1>6 DEF RestoreEnds
<1>7. CASE Rest \/ UNCHANGED ridesVars
  BY <1>7 DEF Rest, ridesVars
<1> QED BY <1>1, <1>2, <1>3, <1>4, <1>5, <1>6, <1>7 DEF Next

(* Any interleaving of calls is a run of the atomic life cycle. *)
THEOREM Refinement == Spec => LifecycleSpec
<1>1. Init => Lifecycle!Init
  BY DEF Init, Lifecycle!Init
<1>2. IInv /\ [Next]_ridesVars => [Lifecycle!Next]_log
  BY StepRefines
<1> QED BY <1>1, <1>2, Inductive, PTL DEF Spec, LifecycleSpec, Lifecycle!Spec

=============================================================================
