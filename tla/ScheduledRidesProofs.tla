------------------------- MODULE ScheduledRidesProofs -------------------------
(***************************************************************************)
(* For any number of bookings, requests, attempts and faults, bookings and *)
(* live requests together keep SchedIInv: no booking has two rides under   *)
(* way, and what BookingProofs shows of the requests alone still holds.    *)
(***************************************************************************)
EXTENDS ScheduledRides, BookingProofs

RideRow == [active : BOOLEAN, from : Origins]

-----------------------------------------------------------------------------
(* What a step of the requests does to the rides. *)
RowsStay == rows' = rows
RowAdded(from) == NewRide(from)
RowEnds == \E n \in ActiveRows : rows' = [rows EXCEPT ![n].active = FALSE]

LEMMA BookingMovesRows ==
  ASSUME [BookNext]_bookVars
  PROVE  RowsStay \/ RowAdded(Live) \/ RowEnds
<1>1. ASSUME NEW r \in Requests, RequestStep(r) PROVE RowsStay \/ RowAdded(Live)
  BY <1>1 DEF RequestStep, Ask, GuardVelocity, GuardConcurrency, GuardDuplicateRead,
              GuardDuplicateWrite, GuardSkipped, NotFound, RedeemIncr, RedeemExpire,
              RedeemDecr, CreateRide, CreateFails, CreateReplyLost, Release, RequestLost,
              RowsStay, RowAdded
<1>2. ASSUME NEW n \in DOMAIN rows, RideEnds(n) PROVE RowEnds
  BY <1>2 DEF RideEnds, RowEnds
<1>3. ASSUME TimePasses PROVE RowsStay
  BY <1>3 DEF TimePasses, HourPasses, DuplicateWindowEnds, UsageAges, UsageExpires,
              RowsStay
<1>4. ASSUME UNCHANGED bookVars PROVE RowsStay
  BY <1>4 DEF bookVars, RowsStay
<1> QED BY <1>1, <1>2, <1>3, <1>4 DEF BookNext

(* One more ride, one ride fewer: which are under way. *)
LEMMA AddedRow ==
  ASSUME rows \in Seq(RideRow), NEW from \in Origins, RowAdded(from)
  PROVE  /\ rows' \in Seq(RideRow) /\ Len(rows') = Len(rows) + 1
         /\ ActiveRows' = ActiveRows \cup {Len(rows) + 1}
         /\ \A n \in ActiveRows : rows'[n] = rows[n]
         /\ rows'[Len(rows) + 1].from = from
         /\ Len(rows) + 1 \notin ActiveRows
<1> DEFINE e == [active |-> TRUE, from |-> from]  k == Len(rows) + 1
<1>1. e \in RideRow /\ rows' = Append(rows, e)
  BY DEF RideRow, RowAdded, NewRide
<1>2. /\ rows' \in Seq(RideRow) /\ Len(rows') = k /\ DOMAIN rows' = 1..k
      /\ DOMAIN rows = 1..Len(rows) /\ Len(rows) \in Nat
      /\ rows'[k] = e /\ \A n \in 1..Len(rows) : rows'[n] = rows[n]
  BY <1>1, AppendProperties
<1>3. 1..k = 1..Len(rows) \cup {k} /\ k \notin 1..Len(rows)
  BY <1>2
<1> QED BY <1>2, <1>3 DEF ActiveRows

LEMMA EndedRow ==
  ASSUME rows \in Seq(RideRow), NEW n \in ActiveRows,
         rows' = [rows EXCEPT ![n].active = FALSE]
  PROVE  /\ ActiveRows' \subseteq ActiveRows
         /\ \A m \in ActiveRows : rows'[m].from = rows[m].from
<1>1. DOMAIN rows = 1..Len(rows) /\ \A m \in DOMAIN rows : rows[m] \in RideRow
  BY ElementOfSeq
<1>2. DOMAIN rows' = DOMAIN rows
  OBVIOUS
<1>3. \A m \in DOMAIN rows : /\ rows'[m].from = rows[m].from
                             /\ rows'[m].active => rows[m].active
  BY <1>1 DEF RideRow
<1> QED BY <1>2, <1>3 DEF ActiveRows

(* Rides that stay, end, or come from elsewhere add none to a booking.     *)
LEMMA BookingKeepsRides ==
  ASSUME rows \in Seq(RideRow), RowsStay \/ RowAdded(Live) \/ RowEnds, OneRidePerBooking
  PROVE  /\ OneRidePerBooking'
         /\ \A s \in Schedules : RidesOf(s) = {} => RidesOf(s)' = {}
<1>1. CASE RowsStay
  BY <1>1 DEF RowsStay, OneRidePerBooking, RidesOf, ActiveRows
<1>2. CASE RowAdded(Live)
  <2>1. Live \in Origins /\ Live \notin Schedules
    BY BookingAssumption, ScheduledAssumption
  <2>2. /\ ActiveRows' = ActiveRows \cup {Len(rows) + 1}
        /\ \A n \in ActiveRows : rows'[n] = rows[n]
        /\ rows'[Len(rows) + 1].from = Live
    BY <1>2, <2>1, AddedRow
  <2> QED BY <2>1, <2>2 DEF OneRidePerBooking, RidesOf
<1>3. CASE RowEnds
  <2>1. ActiveRows' \subseteq ActiveRows /\ \A m \in ActiveRows : rows'[m].from = rows[m].from
    BY <1>3, EndedRow DEF RowEnds
  <2> QED BY <2>1 DEF OneRidePerBooking, RidesOf
<1> QED BY <1>1, <1>2, <1>3

-----------------------------------------------------------------------------
LEMMA MoreSlack ==
  ASSUME NEW x \in Int, NEW y \in Int, NEW b \in Nat, NEW b2 \in Nat, x <= y + b, b2 >= b
  PROVE  x <= y + b2
OBVIOUS

(* A step of a booking leaves the requests' accounts alone. *)
LEMMA AccountsStay ==
  ASSUME BookIInv,
         UNCHANGED <<aged, repeats, uses, ttl, used, uncounted, request, asked>>,
         rows' \in Seq(RideRow), aged \in 0..Len(rows'), LiveRows' = LiveRows,
         bookFaults' \in 0..MaxBookFaults, bookFaults' >= bookFaults
  PROVE  BookIInv'
<1>1. BookTypeOK'
  BY DEF BookIInv, BookTypeOK, RideRow
<1>2. Claims' = Claims /\ Refusals' = Refusals /\ InFlight' = InFlight
  BY DEF Claims, Refusals, InFlight
<1>3. /\ Cardinality(Claims) \in Nat /\ Cardinality(Refusals) \in Nat
      /\ Cardinality(InFlight) \in Nat /\ Cardinality(LiveRows) \in Nat
      /\ Cardinality(Requests) \in Nat /\ MaxActive - 1 \in Nat
      /\ uses \in Int /\ used \in Nat /\ uncounted \in Nat /\ bookFaults \in Nat /\ bookFaults' \in Nat
  BY SetsAreFinite, BookingAssumption DEF BookIInv, BookTypeOK
<1>4. UsesAccountedFor'
  <2>1. PICK a \in Int : a = used + Cardinality(Claims) + Cardinality(Refusals) - uncounted
    BY <1>3
  <2>2. a <= uses /\ uses <= a + bookFaults
    BY <2>1 DEF BookIInv, UsesAccountedFor
  <2>3. UsesAccountedFor' <=> a <= uses /\ uses <= a + bookFaults'
    BY <1>2, <2>1 DEF UsesAccountedFor
  <2>4. uses <= a + bookFaults'
    BY <1>3, <2>2, MoreSlack
  <2> QED BY <2>2, <2>3, <2>4
<1>5. UsesAllowed'
  BY <1>2 DEF BookIInv, UsesAllowed
<1>6. PlacesCounted'
  <2>1. Cardinality(LiveRows) + Cardinality(InFlight)
          <= MaxActive - 1 + Cardinality(Requests) + bookFaults
    BY DEF BookIInv, PlacesCounted
  <2>2. /\ Cardinality(LiveRows) + Cardinality(InFlight) \in Nat
        /\ MaxActive - 1 + Cardinality(Requests) \in Nat
    BY <1>3
  <2> DEFINE x == Cardinality(LiveRows) + Cardinality(InFlight)
             m == MaxActive - 1 + Cardinality(Requests)
  <2>3. x \in Nat /\ m \in Nat /\ x <= m + bookFaults
    BY <2>1, <2>2
  <2>4. x <= x
    BY <2>3
  <2>5. PlacesCounted' <=> x <= m + bookFaults'
    BY <1>2 DEF PlacesCounted
  <2> HIDE DEF x, m
  <2>6. x <= m + bookFaults'
    BY <1>3, <2>3, <2>4, Slack
  <2> QED BY <2>5, <2>6
<1>7. \A r \in Requests : RequestOK(request[r])'
  BY DEF BookIInv, RequestOK
<1> QED BY <1>1, <1>4, <1>5, <1>6, <1>7 DEF BookIInv

LEMMA FaultKeepsAccounts ==
  ASSUME BookIInv, Fault,
         UNCHANGED <<rows, aged, repeats, uses, ttl, used, uncounted, request, asked>>
  PROVE  BookIInv'
<1>1. rows' \in Seq(RideRow) /\ aged \in 0..Len(rows')
  BY DEF BookIInv, BookTypeOK, RideRow
<1>2. bookFaults' \in 0..MaxBookFaults /\ bookFaults' >= bookFaults
  BY BookingAssumption DEF BookIInv, BookTypeOK, Fault
<1>3. LiveRows' = LiveRows
  BY DEF LiveRows, ActiveRows
<1> QED BY <1>1, <1>2, <1>3, AccountsStay

LEMMA MakeRideKeepsAccounts ==
  ASSUME BookIInv, NEW s \in Schedules, MakeRide(s)
  PROVE  BookIInv'
<1>1. s \in Origins /\ s # Live
  BY ScheduledAssumption
<1>2. rows \in Seq(RideRow) /\ aged \in 0..Len(rows) /\ bookFaults \in 0..MaxBookFaults
  BY DEF BookIInv, BookTypeOK, RideRow
<1>3. RowAdded(s)
  BY DEF MakeRide, RowAdded
<1>4. /\ rows' \in Seq(RideRow) /\ Len(rows') = Len(rows) + 1 /\ Len(rows) \in Nat
      /\ ActiveRows' = ActiveRows \cup {Len(rows) + 1}
      /\ \A n \in ActiveRows : rows'[n] = rows[n]
      /\ rows'[Len(rows) + 1].from = s
  BY <1>1, <1>2, <1>3, AddedRow
<1>5. LiveRows' = LiveRows
  BY <1>1, <1>4 DEF LiveRows
<1>6. aged \in 0..Len(rows')
  BY <1>2, <1>4
<1>7. bookFaults' \in 0..MaxBookFaults /\ bookFaults' >= bookFaults
  BY <1>2, BookingAssumption DEF MakeRide
<1> QED BY <1>4, <1>5, <1>6, <1>7, AccountsStay DEF MakeRide

-----------------------------------------------------------------------------
(* What the invariant says of a job, and how a job and its row move. *)
JobOK(s, j) == /\ j.state = "create" => RidesOf(s) = {}
               /\ j.state # "failed" => j.attempts < DispatchAttempts

ScheduleMoves(s) ==
  \/ schedule' = schedule /\ schedule[s] # "none"
  \/ \E status \in ScheduleStatuses \ {"none"} : schedule' = [schedule EXCEPT ![s] = status]

LEMMA ScheduleMovesTyped ==
  ASSUME SchedTypeOK, NEW s \in Schedules, ScheduleMoves(s)
  PROVE  /\ schedule' \in [Schedules -> ScheduleStatuses] /\ schedule'[s] # "none"
         /\ \A t \in Schedules : t # s => schedule'[t] = schedule[t]
<1>1. schedule \in [Schedules -> ScheduleStatuses]
  BY DEF SchedTypeOK
<1> QED BY <1>1 DEF ScheduleMoves

LEMMA JobMoves ==
  ASSUME SchedIInv, BookIInv', NEW s \in Schedules, NEW j \in Job,
         job' = [job EXCEPT ![s] = j], JobOK(s, j), ScheduleMoves(s),
         cancelling' \in [Schedules -> {"idle", "update", "remove"}],
         rows' = rows
  PROVE  SchedIInv'
<1>1. job' \in [Schedules -> Job] /\ job'[s] = j
      /\ \A t \in Schedules : t # s => job'[t] = job[t]
  BY DEF SchedIInv, SchedTypeOK
<1>2. /\ schedule' \in [Schedules -> ScheduleStatuses] /\ schedule'[s] # "none"
      /\ \A t \in Schedules : t # s => schedule'[t] = schedule[t]
  BY ScheduleMovesTyped DEF SchedIInv
<1>3. SchedTypeOK'
  BY <1>1, <1>2 DEF SchedTypeOK, BookIInv
<1>4. ActiveRows' = ActiveRows /\ \A t \in Schedules : RidesOf(t)' = RidesOf(t)
  BY DEF ActiveRows, RidesOf
<1>5. ASSUME NEW t \in Schedules
      PROVE  /\ job'[t].state = "create" => RidesOf(t)' = {}
             /\ job'[t].state # "failed" => job'[t].attempts < DispatchAttempts
             /\ schedule'[t] = "none" => job'[t].state = "none"
  <2>1. CASE t = s
    BY <1>1, <1>2, <1>4, <2>1 DEF JobOK
  <2>2. CASE t # s
    BY <1>1, <1>2, <1>4, <2>2 DEF SchedIInv
  <2> QED BY <2>1, <2>2
<1>6. OneRidePerBooking'
  BY <1>4 DEF SchedIInv, OneRidePerBooking
<1> QED BY <1>3, <1>5, <1>6 DEF SchedIInv

(* JobTo moves only the state. *)
JobStates == {"none", "add", "delayed", "check", "refuse", "create", "mark",
              "done", "failed", "removed"}

LEMMA JobToKeeps ==
  ASSUME SchedIInv, BookIInv', NEW s \in Schedules, NEW state \in JobStates,
         JobTo(s, state), job[s].state # "failed", ScheduleMoves(s),
         cancelling' \in [Schedules -> {"idle", "update", "remove"}], rows' = rows,
         state = "create" => RidesOf(s) = {}
  PROVE  SchedIInv'
<1> DEFINE j == [job[s] EXCEPT !.state = state]
<1>1. job[s] \in Job /\ job \in [Schedules -> Job]
  BY DEF SchedIInv, SchedTypeOK
<1>2. j \in Job /\ j.state = state /\ j.attempts = job[s].attempts
  BY <1>1 DEF Job, JobStates
<1>3. job' = [job EXCEPT ![s] = j]
  BY <1>1 DEF JobTo
<1>4. JobOK(s, j)
  BY <1>2 DEF SchedIInv, JobOK
<1> HIDE DEF j
<1> QED BY <1>2, <1>3, <1>4, JobMoves

(* The cancel request's read and update touch no job. *)
LEMMA CancellingKeeps ==
  ASSUME SchedIInv, UNCHANGED bookVars, UNCHANGED job, NEW s \in Schedules,
         schedule' = schedule \/ ScheduleMoves(s),
         cancelling' \in [Schedules -> {"idle", "update", "remove"}]
  PROVE  SchedIInv'
<1>1. BookIInv' /\ rows' = rows
  BY StepKeeps DEF SchedIInv, bookVars
<1>2. ActiveRows' = ActiveRows /\ \A t \in Schedules : RidesOf(t)' = RidesOf(t)
  BY <1>1 DEF ActiveRows, RidesOf
<1>3. /\ schedule' \in [Schedules -> ScheduleStatuses]
      /\ \A t \in Schedules : schedule'[t] = "none" => schedule[t] = "none"
  <2>1. schedule \in [Schedules -> ScheduleStatuses]
    BY DEF SchedIInv, SchedTypeOK
  <2> QED BY <2>1, ScheduleMovesTyped DEF SchedIInv
<1>4. SchedTypeOK'
  BY <1>1, <1>3 DEF SchedIInv, SchedTypeOK, BookIInv
<1>5. OneRidePerBooking'
  BY <1>1, <1>2 DEF SchedIInv, OneRidePerBooking
<1>6. \A t \in Schedules : /\ job'[t].state = "create" => RidesOf(t)' = {}
                           /\ job'[t].state # "failed" => job'[t].attempts < DispatchAttempts
                           /\ schedule'[t] = "none" => job'[t].state = "none"
  BY <1>2, <1>3 DEF SchedIInv
<1> QED BY <1>1, <1>4, <1>5, <1>6 DEF SchedIInv

-----------------------------------------------------------------------------
(* One lemma per handler. *)
LEMMA SameBooking ==
  ASSUME SchedIInv, UNCHANGED bookVars
  PROVE  BookIInv' /\ rows' = rows
BY StepKeeps DEF SchedIInv, bookVars

LEMMA JobIsTyped ==
  ASSUME SchedIInv, NEW s \in Schedules
  PROVE  /\ job[s] \in Job /\ job[s].attempts \in 0..DispatchAttempts
         /\ job[s].state # "none" => schedule[s] # "none"
         /\ cancelling \in [Schedules -> {"idle", "update", "remove"}]
         /\ schedule \in [Schedules -> ScheduleStatuses]
BY DEF SchedIInv, SchedTypeOK, Job

LEMMA ScheduleKeeps ==
  ASSUME SchedIInv, NEW s \in Schedules, Insert(s) \/ Add(s) \/ AddFails(s)
  PROVE  SchedIInv'
<1>1. CASE Insert(s)
  <2>1. BookIInv' /\ rows' = rows
    BY <1>1, SameBooking DEF Insert
  <2>2. ScheduleMoves(s)
    BY <1>1 DEF Insert, ScheduleMoves, ScheduleStatuses
  <2>3. job[s].state = "none"
    BY <1>1 DEF Insert, SchedIInv
  <2> QED BY <1>1, <2>1, <2>2, <2>3, JobIsTyped, JobToKeeps DEF Insert, JobStates
<1>2. CASE Add(s)
  <2>1. BookIInv' /\ rows' = rows
    BY <1>2, SameBooking DEF Add
  <2>2. ScheduleMoves(s)
    BY <1>2, JobIsTyped DEF Add, ScheduleMoves
  <2> QED BY <1>2, <2>1, <2>2, JobIsTyped, JobToKeeps DEF Add, JobStates
<1>3. CASE AddFails(s)
  <2>1. BookIInv'
    BY <1>3, FaultKeepsAccounts DEF AddFails, SchedIInv
  <2>2. ScheduleMoves(s)
    BY <1>3, JobIsTyped DEF AddFails, ScheduleMoves
  <2> QED BY <1>3, <2>1, <2>2, JobIsTyped, JobToKeeps DEF AddFails, JobStates
<1> QED BY <1>1, <1>2, <1>3

LEMMA DispatchKeeps ==
  ASSUME SchedIInv, NEW s \in Schedules,
         DispatchRead(s) \/ CheckRider(s) \/ RefuseBooking(s) \/ MarkDispatched(s)
  PROVE  SchedIInv'
<1>1. BookIInv' /\ rows' = rows
  BY SameBooking DEF DispatchRead, CheckRider, RefuseBooking, MarkDispatched
<1>2. job[s].state \notin {"none", "failed"} /\ schedule[s] # "none"
  BY JobIsTyped DEF DispatchRead, CheckRider, RefuseBooking, MarkDispatched
<1>3. ScheduleMoves(s)
  BY <1>2 DEF DispatchRead, CheckRider, RefuseBooking, MarkDispatched, ScheduleMoves,
              ScheduleStatuses
<1>4. cancelling' \in [Schedules -> {"idle", "update", "remove"}]
  BY JobIsTyped DEF DispatchRead, CheckRider, RefuseBooking, MarkDispatched
<1>5. \E state \in JobStates : JobTo(s, state) /\ (state = "create" => RidesOf(s) = {})
  <2>1. CASE CheckRider(s)
    <3>1. ActiveRows = {} => RidesOf(s) = {}
      BY DEF RidesOf
    <3> QED BY <2>1, <3>1 DEF CheckRider, JobStates
  <2>2. CASE DispatchRead(s) \/ RefuseBooking(s) \/ MarkDispatched(s)
    BY <2>2 DEF DispatchRead, RefuseBooking, MarkDispatched, JobStates
  <2> QED BY <2>1, <2>2
<1> QED BY <1>1, <1>2, <1>3, <1>4, <1>5, JobToKeeps

LEMMA RestartKeeps ==
  ASSUME SchedIInv, NEW s \in Schedules, DispatchThrows(s) \/ DispatchDies(s)
  PROVE  SchedIInv'
<1>1. job[s].state \notin {"none", "failed"} /\ schedule[s] # "none"
      /\ schedule' = schedule /\ cancelling' = cancelling
  BY JobIsTyped DEF DispatchThrows, DispatchDies, Running
<1>2. ScheduleMoves(s)
  BY <1>1 DEF ScheduleMoves
<1>3. CASE DispatchThrows(s)
  <2> DEFINE n == job[s].attempts + 1
             j == [state |-> IF n < DispatchAttempts THEN "delayed" ELSE "failed",
                   attempts |-> n]
  <2>1. BookIInv' /\ rows' = rows
    BY <1>3, SameBooking DEF DispatchThrows
  <2>2. job[s].attempts \in 0..DispatchAttempts /\ job[s].attempts < DispatchAttempts
    BY <1>1, JobIsTyped DEF SchedIInv
  <2>3. n \in 0..DispatchAttempts
    BY <2>2, ScheduledAssumption
  <2>4. job' = [job EXCEPT ![s] = j]
    BY <1>3 DEF DispatchThrows
  <2>5. j \in Job /\ JobOK(s, j)
    BY <2>3 DEF Job, JobOK
  <2> HIDE DEF j
  <2> QED BY <1>1, <1>2, <2>1, <2>4, <2>5, JobIsTyped, JobMoves
<1>4. CASE DispatchDies(s)
  <2>1. BookIInv' /\ rows' = rows
    BY <1>4, FaultKeepsAccounts DEF DispatchDies, SchedIInv
  <2> QED BY <1>1, <1>2, <1>4, <2>1, JobIsTyped, JobToKeeps DEF DispatchDies, JobStates
<1> QED BY <1>3, <1>4

(* The one step that makes a booking's ride. *)
LEMMA MakeRideKeeps ==
  ASSUME SchedIInv, NEW s \in Schedules, MakeRide(s)
  PROVE  SchedIInv'
<1>1. BookIInv'
  BY MakeRideKeepsAccounts DEF SchedIInv
<1>2. /\ rows \in Seq(RideRow) /\ s \in Origins /\ RowAdded(s) /\ RidesOf(s) = {}
      /\ job[s].state = "create"
  BY ScheduledAssumption
     DEF MakeRide, RowAdded, SchedIInv, BookIInv, BookTypeOK, RideRow
<1>3. /\ ActiveRows' = ActiveRows \cup {Len(rows) + 1}
      /\ \A n \in ActiveRows : rows'[n] = rows[n]
      /\ rows'[Len(rows) + 1].from = s
      /\ Len(rows) + 1 \notin ActiveRows
  BY <1>2, AddedRow
<1>4. OneRidePerBooking'
  BY <1>2, <1>3 DEF SchedIInv, OneRidePerBooking, RidesOf
<1>5. \A t \in Schedules : t # s /\ RidesOf(t) = {} => RidesOf(t)' = {}
  BY <1>3 DEF RidesOf
<1> DEFINE j == [job[s] EXCEPT !.state = "mark"]
<1>6. job[s] \in Job /\ job \in [Schedules -> Job]
  BY DEF SchedIInv, SchedTypeOK
<1>7. j \in Job /\ j.state = "mark" /\ j.attempts = job[s].attempts
  BY <1>6 DEF Job
<1>8. job' = [job EXCEPT ![s] = j]
  BY <1>6 DEF MakeRide, JobTo
<1> HIDE DEF j
<1>9. job' \in [Schedules -> Job] /\ job'[s] = j
      /\ \A t \in Schedules : t # s => job'[t] = job[t]
  BY <1>6, <1>7, <1>8
<1>10. SchedTypeOK'
  BY <1>1, <1>9, JobIsTyped DEF SchedTypeOK, BookIInv, MakeRide
<1>11. ASSUME NEW t \in Schedules
       PROVE  /\ job'[t].state = "create" => RidesOf(t)' = {}
              /\ job'[t].state # "failed" => job'[t].attempts < DispatchAttempts
              /\ schedule'[t] = "none" => job'[t].state = "none"
  <2>1. schedule' = schedule
    BY DEF MakeRide
  <2>2. CASE t = s
    BY <1>2, <1>7, <1>9, <2>1, <2>2 DEF SchedIInv
  <2>3. CASE t # s
    BY <1>5, <1>9, <2>1, <2>3 DEF SchedIInv
  <2> QED BY <2>2, <2>3
<1> QED BY <1>1, <1>4, <1>10, <1>11 DEF SchedIInv

LEMMA CancelKeeps ==
  ASSUME SchedIInv, NEW s \in Schedules,
         CancelRead(s) \/ CancelWrite(s) \/ CancelRemove(s)
  PROVE  SchedIInv'
<1>1. cancelling' \in [Schedules -> {"idle", "update", "remove"}]
  BY JobIsTyped DEF CancelRead, CancelWrite, CancelRemove
<1>2. UNCHANGED bookVars
  BY DEF CancelRead, CancelWrite, CancelRemove
<1>3. CASE CancelRead(s)
  BY <1>1, <1>2, <1>3, CancellingKeeps DEF CancelRead
<1>4. CASE CancelWrite(s)
  <2>1. ScheduleMoves(s)
    BY <1>4 DEF CancelWrite, ScheduleMoves, ScheduleStatuses
  <2> QED BY <1>1, <1>2, <1>4, <2>1, CancellingKeeps DEF CancelWrite
<1>5. CASE CancelRemove(s) /\ job[s].state = "delayed"
  <2>1. BookIInv' /\ rows' = rows
    BY <1>2, SameBooking
  <2>2. ScheduleMoves(s)
    BY <1>5, JobIsTyped DEF CancelRemove, ScheduleMoves
  <2> QED BY <1>1, <1>5, <2>1, <2>2, JobToKeeps DEF CancelRemove, JobStates
<1>6. CASE CancelRemove(s) /\ job[s].state # "delayed"
  BY <1>1, <1>2, <1>6, CancellingKeeps DEF CancelRemove
<1> QED BY <1>3, <1>4, <1>5, <1>6

(* The rider's live requests beside the bookings. *)
LEMMA RequestsKeep ==
  ASSUME SchedIInv, [BookNext]_bookVars, UNCHANGED schedVars
  PROVE  SchedIInv'
<1>1. BookIInv'
  BY StepKeeps DEF SchedIInv
<1>2. rows \in Seq(RideRow)
  BY DEF SchedIInv, BookIInv, BookTypeOK, RideRow
<1>3. /\ OneRidePerBooking'
      /\ \A s \in Schedules : RidesOf(s) = {} => RidesOf(s)' = {}
  BY <1>2, BookingMovesRows, BookingKeepsRides DEF SchedIInv
<1>4. SchedTypeOK'
  BY <1>1 DEF SchedIInv, SchedTypeOK, BookIInv, schedVars
<1> QED BY <1>1, <1>3, <1>4 DEF SchedIInv, schedVars

-----------------------------------------------------------------------------
LEMMA InitSchedIInv == ASSUME RiderInit PROVE SchedIInv
<1>1. BookIInv
  BY InitHolds DEF RiderInit
<1>2. rows = <<>>
  BY DEF RiderInit, BookInit
<1>3. ActiveRows = {} /\ OneRidePerBooking /\ \A s \in Schedules : RidesOf(s) = {}
  BY <1>2 DEF ActiveRows, OneRidePerBooking, RidesOf
<1>4. [state |-> "none", attempts |-> 0] \in Job /\ 0 < DispatchAttempts
  BY ScheduledAssumption DEF Job
<1>5. SchedTypeOK
  BY <1>1, <1>4 DEF RiderInit, SchedInit, SchedTypeOK, ScheduleStatuses, BookIInv
<1> QED BY <1>1, <1>3, <1>4, <1>5 DEF SchedIInv, RiderInit, SchedInit

LEMMA RiderStepKeeps == ASSUME SchedIInv, [RiderNext]_allBookVars PROVE SchedIInv'
<1>1. CASE BookNext /\ UNCHANGED schedVars
  BY <1>1, RequestsKeep
<1>2. CASE SchedNext
  <2> PICK s \in Schedules :
        \/ Insert(s) \/ Add(s) \/ AddFails(s) \/ DispatchStep(s) \/ DispatchDies(s)
        \/ CancelRead(s) \/ CancelWrite(s) \/ CancelRemove(s)
    BY <1>2 DEF SchedNext
  <2> QED BY ScheduleKeeps, DispatchKeeps, RestartKeeps, MakeRideKeeps, CancelKeeps
             DEF DispatchStep
<1>3. CASE UNCHANGED allBookVars
  BY <1>3, RequestsKeep DEF allBookVars
<1> QED BY <1>1, <1>2, <1>3 DEF RiderNext

LEMMA SchedInductive == RiderSpec => []SchedIInv
BY InitSchedIInv, RiderStepKeeps, PTL DEF RiderSpec

(* Every variable of requests and bookings keeps its shape: no job uses    *)
(* more than its attempts, for any number of bookings and requests         *)
(* (dispatch 109-172).                                                     *)
THEOREM SchedTypeCorrect == RiderSpec => []SchedTypeOK
<1>1. SchedIInv => SchedTypeOK
  BY DEF SchedIInv
<1> QED BY <1>1, SchedInductive, PTL

(* A dispatch that is retried, restarted or cancelled half-way never gives *)
(* a booking a second ride while the first is under way (dispatch 103-172).*)
THEOREM BookedRideIsOne == RiderSpec => []OneRidePerBooking
<1>1. SchedIInv => OneRidePerBooking
  BY DEF SchedIInv
<1> QED BY <1>1, SchedInductive, PTL

(* Beside bookings, which pass neither the guard nor the promo, the limits *)
(* on a rider's live requests hold as they do without (requestRide 89-166, *)
(* dispatch 121-165).                                                      *)
THEOREM LimitsHoldBesideBookings ==
  RiderSpec => [](PromoNeverOverused /\ UsesAccountedFor /\ ActiveRidesBounded)
<1>1. SchedIInv => PromoNeverOverused /\ UsesAccountedFor /\ ActiveRidesBounded
  BY LimitsFollow DEF SchedIInv
<1> QED BY <1>1, SchedInductive, PTL
=============================================================================
