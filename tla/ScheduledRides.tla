---------------------------- MODULE ScheduledRides ----------------------------
(***************************************************************************)
(* ScheduledRidesService and its worker, beside the rider's live requests: *)
(* a booking is a row and a delayed job; when the job fires, the ride is   *)
(* made through createRide.  Dispatch and cancellation read the row, go on *)
(* for some awaits and then write it without looking at it again.          *)
(* CheckRiderNot, RefuseBookingSilently and DispatchThrowsOnce, used by no *)
(* action, are defective forms of the definitions after them.              *)
(***************************************************************************)
EXTENDS Booking

CONSTANTS
  Schedules,          \* the rider's bookings
  DispatchAttempts    \* the queue's attempts per job

ASSUME ScheduledAssumption ==
  /\ Schedules \subseteq Origins \ {Live} /\ IsFiniteSet(Schedules)
  /\ DispatchAttempts \in Nat \ {0}

VARIABLES
  schedule,     \* scheduled_rides.status
  job,          \* the scheduled-<id> jobs
  cancelling    \* the cancel request of each booking

schedVars == <<schedule, job, cancelling>>
allBookVars == <<bookVars, schedVars>>

ScheduleStatuses == {"none", "PENDING", "DISPATCHED", "CANCELLED"}
Job == [state : {"none", "add", "delayed", "check", "refuse", "create", "mark",
                 "done", "failed", "removed"},
        attempts : 0..DispatchAttempts]
Running == {"check", "refuse", "create", "mark"}

SchedInit == /\ schedule = [s \in Schedules |-> "none"]
             /\ job = [s \in Schedules |-> [state |-> "none", attempts |-> 0]]
             /\ cancelling = [s \in Schedules |-> "idle"]

JobTo(s, state) == job' = [job EXCEPT ![s].state = state]

-----------------------------------------------------------------------------
(* schedule: insert, enqueue.  Without its job a booking stays PENDING. *)
Insert(s) ==
  /\ schedule[s] = "none"
  /\ schedule' = [schedule EXCEPT ![s] = "PENDING"]
  /\ JobTo(s, "add")
  /\ UNCHANGED <<bookVars, cancelling>>

Add(s) == /\ job[s].state = "add"
          /\ JobTo(s, "delayed")
          /\ UNCHANGED <<bookVars, schedule, cancelling>>

AddFails(s) ==
  /\ job[s].state = "add"
  /\ Fault
  /\ JobTo(s, "none")
  /\ UNCHANGED <<rows, aged, repeats, uses, ttl, used, uncounted, request, asked, schedule, cancelling>>

-----------------------------------------------------------------------------
(* The worker's dispatch. *)
DispatchRead(s) ==
  /\ job[s].state = "delayed"
  /\ JobTo(s, IF schedule[s] = "PENDING" THEN "check" ELSE "done")
  /\ UNCHANGED <<bookVars, schedule, cancelling>>

CheckRiderNot(s) ==
  /\ job[s].state = "check"
  /\ JobTo(s, "create")
  /\ UNCHANGED <<bookVars, schedule, cancelling>>
CheckRider(s) ==
  /\ job[s].state = "check"
  /\ JobTo(s, IF ActiveRows = {} THEN "create" ELSE "refuse")
  /\ UNCHANGED <<bookVars, schedule, cancelling>>

RefuseBookingSilently(s) ==
  /\ job[s].state = "refuse"
  /\ JobTo(s, "done")
  /\ UNCHANGED <<bookVars, schedule, cancelling>>
RefuseBooking(s) ==
  /\ job[s].state = "refuse"
  /\ schedule' = [schedule EXCEPT ![s] = "CANCELLED"]
  /\ JobTo(s, "done")
  /\ UNCHANGED <<bookVars, cancelling>>

(* Quote, config and createRide; no fraud guard, no promo. *)
MakeRide(s) ==
  /\ job[s].state = "create"
  /\ NewRide(s)
  /\ JobTo(s, "mark")
  /\ UNCHANGED <<aged, repeats, uses, ttl, used, uncounted, request, asked, bookFaults,
                 schedule, cancelling>>

MarkDispatched(s) ==
  /\ job[s].state = "mark"
  /\ schedule' = [schedule EXCEPT ![s] = "DISPATCHED"]
  /\ JobTo(s, "done")
  /\ UNCHANGED <<bookVars, cancelling>>

(* Any call of dispatch throws, a commit whose reply is lost included: the *)
(* queue tries again.                                                      *)
DispatchThrowsOnce(s) ==
  LET n == job[s].attempts + 1 IN
  /\ job[s].state \in Running
  /\ job' = [job EXCEPT ![s] =
               [state |-> IF n <= DispatchAttempts THEN "delayed" ELSE "failed",
                attempts |-> n]]
  /\ UNCHANGED <<bookVars, schedule, cancelling>>
DispatchThrows(s) ==
  LET n == job[s].attempts + 1 IN
  /\ job[s].state \in Running
  /\ job' = [job EXCEPT ![s] =
               [state |-> IF n < DispatchAttempts THEN "delayed" ELSE "failed",
                attempts |-> n]]
  /\ UNCHANGED <<bookVars, schedule, cancelling>>

(* The worker dies; the stalled job starts over. *)
DispatchDies(s) ==
  /\ job[s].state \in Running
  /\ Fault
  /\ JobTo(s, "delayed")
  /\ UNCHANGED <<rows, aged, repeats, uses, ttl, used, uncounted, request, asked, schedule, cancelling>>

-----------------------------------------------------------------------------
(* cancel: read, update, remove the job unless a worker holds it. *)
CancelRead(s) ==
  /\ cancelling[s] = "idle" /\ schedule[s] = "PENDING"
  /\ cancelling' = [cancelling EXCEPT ![s] = "update"]
  /\ UNCHANGED <<bookVars, schedule, job>>

CancelWrite(s) ==
  /\ cancelling[s] = "update"
  /\ schedule' = [schedule EXCEPT ![s] = "CANCELLED"]
  /\ cancelling' = [cancelling EXCEPT ![s] = "remove"]
  /\ UNCHANGED <<bookVars, job>>

CancelRemove(s) ==
  /\ cancelling[s] = "remove"
  /\ cancelling' = [cancelling EXCEPT ![s] = "idle"]
  /\ IF job[s].state = "delayed" THEN JobTo(s, "removed") ELSE UNCHANGED job
  /\ UNCHANGED <<bookVars, schedule>>

DispatchStep(s) == \/ DispatchRead(s) \/ CheckRider(s) \/ RefuseBooking(s)
                   \/ MakeRide(s) \/ MarkDispatched(s) \/ DispatchThrows(s)

SchedNext ==
  \E s \in Schedules :
    \/ Insert(s) \/ Add(s) \/ AddFails(s)
    \/ DispatchStep(s) \/ DispatchDies(s)
    \/ CancelRead(s) \/ CancelWrite(s) \/ CancelRemove(s)

RiderInit == BookInit /\ SchedInit
RiderNext == \/ BookNext /\ UNCHANGED schedVars
             \/ SchedNext

(* Redis and BullMQ deliver a job whose delay has passed. *)
DispatchFairness == \A s \in Schedules : WF_allBookVars(DispatchStep(s))

RiderSpec == RiderInit /\ [][RiderNext]_allBookVars /\ DispatchFairness

-----------------------------------------------------------------------------
(* Every variable of the rider's bookings keeps its shape: no job runs more *)
(* than its attempts (dispatch 109-172).                                    *)
SchedTypeOK == /\ BookTypeOK
               /\ schedule \in [Schedules -> ScheduleStatuses]
               /\ job \in [Schedules -> Job]
               /\ cancelling \in [Schedules -> {"idle", "update", "remove"}]

(* A booking never has two rides under way: a retried or restarted         *)
(* dispatch finds the first one and gives up (dispatch 103-108: "Skips if  *)
(* already dispatched").                                                   *)
OneRidePerBooking ==
  \A m, n \in ActiveRows : rows[m].from = rows[n].from /\ rows[m].from # Live => m = n

(* A booking whose job is queued is settled: it is dispatched or           *)
(* cancelled, or its job has used up its attempts.                         *)
BookingsSettle ==
  \A s \in Schedules : job[s].state = "delayed" ~>
                         schedule[s] # "PENDING" \/ job[s].state = "failed"

-----------------------------------------------------------------------------
(* Why: a job is about to make a ride only while none of its booking's is  *)
(* under way, nobody else makes one for that booking, a job that may still   *)
(* throw has an attempt left, and a booking without a row has no job.       *)
RidesOf(s) == {n \in ActiveRows : rows[n].from = s}

SchedIInv ==
  /\ BookIInv /\ SchedTypeOK
  /\ \A s \in Schedules :
       /\ job[s].state = "create" => RidesOf(s) = {}
       /\ job[s].state # "failed" => job[s].attempts < DispatchAttempts
       /\ schedule[s] = "none" => job[s].state = "none"
  /\ OneRidePerBooking
=============================================================================
