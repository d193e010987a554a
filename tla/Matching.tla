------------------------------- MODULE Matching -------------------------------
(***************************************************************************)
(* The dispatch engine composed with RidesService: MatchingService, its    *)
(* BullMQ worker, the drivers' accept and reject calls, the offer and      *)
(* claim keys in Redis, and the drivers table.                             *)
(*                                                                         *)
(* proc[<<r, w>>] is a thread working on ride r: the queue job's attempt   *)
(* when w = Worker, else driver w's accept-ride request.  Both end up in   *)
(* finalizeMatch, which is where they race.  Every await is a step.        *)
(*                                                                         *)
(* A definition whose name adds what is wrong to another's (PollClaim,     *)
(* PollClaimForever) is a defective form of it, part of no specification:  *)
(* the properties are shown to tell the two apart.                         *)
(***************************************************************************)
EXTENDS Rides

CONSTANTS
  Worker,
  MaxCandidates,    \* matching.maxCandidates
  Attempts,         \* the queue's attempts per job
  RideOps,          \* the rider's and driver's ride operations that arrive
  StatusChoices,    \* the statuses drivers set for themselves
  Faults,           \* the faults of this environment
  MaxCuts           \* bound: threads of a ride cut short

DriverStatuses == {"ONLINE", "OFFLINE", "ON_RIDE"}

(* enqueue: the queue rejects a job; crash: an instance dies; error: an    *)
(* await of a live thread throws (the database, Redis or the event bus);   *)
(* restore: the spawned driver restore fails; slow: a thread stays between *)
(* two of its awaits for longer than the claim's TTL.                      *)
ASSUME MatchingAssumption ==
  /\ Worker \notin Drivers
  /\ RideOps \subseteq ApiOps
  /\ StatusChoices \subseteq DriverStatuses
  /\ Faults \subseteq {"enqueue", "crash", "error", "restore", "slow"}
  /\ Attempts \in Nat \ {0} /\ MaxCandidates \in Nat /\ MaxCuts \in Nat

VARIABLES
  hedged,     \* matching.hedged, fixed at deployment
  driver,     \* drivers.status
  offer,      \* the offer:<ride>:<driver> keys alive
  claim,      \* the ride:claim:<ride> keys
  job,        \* the match-<ride> jobs
  proc,       \* the matching threads
  told,       \* <<ride, driver>> answered accepted: true
  cut         \* per ride: threads cut short, and whether one was between its moves

matchVars == <<hedged, driver, offer, claim, job, proc, told, cut>>
vars == <<ridesVars, matchVars>>

Threads == Rides \X (Drivers \cup {Worker})
Thread == [pc : {"idle", "find", "send", "window", "wait", "noDrivers", "preread",
                 "claim", "withdraw", "finalize", "transition", "commit",
                 "markDriver", "release"},
           op : {"none", "match", "accept", "cancel"},
           driver : Drivers \cup {NoDriver},
           seen : Statuses \cup {"NONE"},
           todo : SUBSET Drivers]
NoThread == [pc |-> "idle", op |-> "none", driver |-> NoDriver, seen |-> "NONE",
             todo |-> {}]
Job == [state : {"none", "lost", "queued", "active", "done", "failed"},
        attempts : Nat, stalls : 0..1]
Cuts == [times : 0..MaxCuts, deciding : BOOLEAN]
Awaiting == {"REQUESTED", "MATCHING"}

(* A thread on its way from MATCHING to ACCEPTED. *)
Decides(t) == /\ t.op = "accept"
              /\ \/ t.pc = "transition"
                 \/ t.pc = "commit" /\ t.seen = "MATCHING"

(* A thread that owns a claim and has not released it yet. *)
Finalizing(t) ==
  \/ t.pc \in {"withdraw", "finalize", "markDriver", "release"}
  \/ t.pc \in {"transition", "commit"} /\ t.op # "cancel"

-----------------------------------------------------------------------------
MInit == /\ Init
         /\ hedged \in BOOLEAN
         /\ driver = [d \in Drivers |-> "OFFLINE"]
         /\ offer = {}
         /\ claim = [r \in Rides |-> NoDriver]
         /\ job = [r \in Rides |-> [state |-> "none", attempts |-> 0, stalls |-> 0]]
         /\ proc = [p \in Threads |-> NoThread]
         /\ told = {}
         /\ cut = [r \in Rides |-> [times |-> 0, deciding |-> FALSE]]

Goto(p, pc) == proc' = [proc EXCEPT ![p].pc = pc]

(* How a thread ends.  A worker that returns completes its job, one that   *)
(* throws has BullMQ retry it; a handler answers, or throws to its client. *)
Return(p) ==
  /\ proc' = [proc EXCEPT ![p] = NoThread]
  /\ IF p[2] = Worker
     THEN /\ job' = [job EXCEPT ![p[1]].state = "done"]
          /\ UNCHANGED told
     ELSE /\ told' = told \cup {p}
          /\ UNCHANGED job

Throw(p) ==
  /\ proc' = [proc EXCEPT ![p] = NoThread]
  /\ UNCHANGED told
  /\ job' = IF p[2] # Worker THEN job
            ELSE [job EXCEPT ![p[1]].attempts = @ + 1,
                             ![p[1]].state = IF job[p[1]].attempts + 1 < Attempts
                                             THEN "queued" ELSE "failed"]

-----------------------------------------------------------------------------
(* createRide's second half: the job is added after the commit. *)
Enqueue(r) ==
  /\ Exists(r) /\ job[r].state = "none"
  /\ \/ job' = [job EXCEPT ![r].state = "queued"]
     \/ "enqueue" \in Faults /\ job' = [job EXCEPT ![r].state = "lost"]
  /\ UNCHANGED <<ridesVars, hedged, driver, offer, claim, proc, told, cut>>

(* matchRide: a worker takes the job and reads the ride. *)
MatchRide(r) ==
  /\ job[r].state = "queued"
  /\ IF row[r].status = "REQUESTED"
     THEN /\ job' = [job EXCEPT ![r].state = "active"]
          /\ Goto(<<r, Worker>>, "find")
     ELSE /\ job' = [job EXCEPT ![r].state = "done"]
          /\ UNCHANGED proc
  /\ UNCHANGED <<ridesVars, hedged, driver, offer, claim, told, cut>>

(* dispatchOffers: which ONLINE drivers are near and fresh, and how they   *)
(* rank, is the environment's choice.                                      *)
FindDrivers(r) ==
  LET p == <<r, Worker>> IN
  /\ proc[p].pc = "find"
  /\ \E found \in SUBSET {d \in Drivers : driver[d] = "ONLINE"} :
       /\ Cardinality(found) <= MaxCandidates
       /\ proc' = [proc EXCEPT ![p].pc = IF found = {} THEN "noDrivers" ELSE "send",
                               ![p].todo = found]
  /\ UNCHANGED <<ridesVars, hedged, driver, offer, claim, job, told, cut>>

(* sendOffer to the next candidate: hedged goes straight on to the next    *)
(* one, sequential gives it a window first.                                *)
SendOffer(r) ==
  LET p == <<r, Worker>> IN
  /\ proc[p].pc = "send"
  /\ \E d \in proc[p].todo :
       /\ offer' = offer \cup {<<r, d>>}
       /\ proc' = [proc EXCEPT ![p].todo = @ \ {d},
                               ![p].pc = IF ~hedged THEN "window"
                                         ELSE IF proc[p].todo = {d} THEN "wait" ELSE "send"]
  /\ UNCHANGED <<ridesVars, hedged, driver, claim, job, told, cut>>

WindowEnds(r) ==
  LET p == <<r, Worker>> IN
  /\ proc[p].pc = "window"
  /\ proc' = [proc EXCEPT
       ![p].pc = IF claim[r] # NoDriver \/ proc[p].todo = {} THEN "wait" ELSE "send",
       ![p].todo = IF claim[r] # NoDriver THEN {} ELSE @]
  /\ UNCHANGED <<ridesVars, hedged, driver, offer, claim, job, told, cut>>

(* waitForClaim: a poll that finds the claim, or the deadline, which lies  *)
(* behind the TTL of every offer this attempt sent.                        *)
PollClaimForever(r) ==
  LET p == <<r, Worker>> IN
  /\ proc[p].pc = "wait" /\ claim[r] # NoDriver
  /\ proc' = [proc EXCEPT ![p].pc = "finalize", ![p].driver = claim[r]]
  /\ UNCHANGED <<ridesVars, hedged, driver, offer, claim, job, told, cut>>

PollClaim(r) ==
  LET p == <<r, Worker>> IN
  /\ proc[p].pc = "wait"
  /\ IF claim[r] # NoDriver
     THEN proc' = [proc EXCEPT ![p].pc = "finalize", ![p].driver = claim[r]]
     ELSE /\ \A d \in Drivers : <<r, d>> \notin offer
          /\ Goto(p, "noDrivers")
  /\ UNCHANGED <<ridesVars, hedged, driver, offer, claim, job, told, cut>>

(* handleNoDrivers: its own read, then cancel's. *)
NoDriversInMatching(r) ==
  LET p == <<r, Worker>> IN
  /\ proc[p].pc = "noDrivers"
  /\ IF row[r].status = "MATCHING"
     THEN Goto(p, "preread") /\ UNCHANGED <<job, told>>
     ELSE Return(p)
  /\ UNCHANGED <<ridesVars, hedged, driver, offer, claim, cut>>

NoDrivers(r) ==
  LET p == <<r, Worker>> IN
  /\ proc[p].pc = "noDrivers"
  /\ IF row[r].status \in Awaiting
     THEN Goto(p, "preread") /\ UNCHANGED <<job, told>>
     ELSE Return(p)
  /\ UNCHANGED <<ridesVars, hedged, driver, offer, claim, cut>>

CancelPreRead(r) ==
  LET p == <<r, Worker>> IN
  /\ proc[p].pc = "preread"
  /\ IF CanCancel(row[r].status)
     THEN /\ proc' = [proc EXCEPT ![p].pc = "transition", ![p].op = "cancel"]
          /\ UNCHANGED <<job, told>>
     ELSE Throw(p)
  /\ UNCHANGED <<ridesVars, hedged, driver, offer, claim, cut>>

-----------------------------------------------------------------------------
(* handleDriverResponse: the offer key must be alive.  A rejection deletes *)
(* it and is done.                                                         *)
Accept(r, d) ==
  /\ proc[<<r, d>>].pc = "idle" /\ <<r, d>> \in offer
  /\ Goto(<<r, d>>, "claim")
  /\ UNCHANGED <<ridesVars, hedged, driver, offer, claim, job, told, cut>>

Reject(r, d) ==
  /\ proc[<<r, d>>].pc = "idle" /\ <<r, d>> \in offer
  /\ offer' = offer \ {<<r, d>>}
  /\ UNCHANGED <<ridesVars, hedged, driver, claim, job, proc, told, cut>>

(* SET claim NX EX 30. *)
ClaimNotExclusive(r, d) ==
  LET p == <<r, d>> IN
  /\ proc[p].pc = "claim"
  /\ claim' = [claim EXCEPT ![r] = d]
  /\ proc' = [proc EXCEPT ![p].pc = "withdraw", ![p].driver = d]
  /\ UNCHANGED <<ridesVars, hedged, driver, offer, job, told, cut>>

Claim(r, d) ==
  LET p == <<r, d>> IN
  /\ proc[p].pc = "claim"
  /\ IF claim[r] = NoDriver
     THEN /\ claim' = [claim EXCEPT ![r] = d]
          /\ proc' = [proc EXCEPT ![p].pc = "withdraw", ![p].driver = d]
     ELSE /\ proc' = [proc EXCEPT ![p] = NoThread]
          /\ UNCHANGED claim
  /\ UNCHANGED <<ridesVars, hedged, driver, offer, job, told, cut>>

(* The claimant's own offer is deleted; the other offers stay. *)
Withdraw(r, d) ==
  LET p == <<r, d>> IN
  /\ proc[p].pc = "withdraw"
  /\ offer' = offer \ {p}
  /\ Goto(p, "finalize")
  /\ UNCHANGED <<ridesVars, hedged, driver, claim, job, told, cut>>

-----------------------------------------------------------------------------
(* finalizeMatch, the same in a worker and in a handler. *)
FinalizeUnread(p) ==
  /\ proc[p].pc = "finalize"
  /\ proc' = [proc EXCEPT ![p].pc = "transition",
               ![p].op = IF row[p[1]].status = "REQUESTED" THEN "match" ELSE "accept"]
  /\ UNCHANGED <<ridesVars, hedged, driver, offer, claim, job, told, cut>>

FinalizeInMatching(p) ==
  /\ proc[p].pc = "finalize"
  /\ IF row[p[1]].status = "MATCHING"
     THEN /\ proc' = [proc EXCEPT ![p].pc = "transition", ![p].op = "accept"]
          /\ UNCHANGED <<job, told>>
     ELSE Return(p)
  /\ UNCHANGED <<ridesVars, hedged, driver, offer, claim, cut>>

FinalizeRead(p) ==
  LET status == row[p[1]].status IN
  /\ proc[p].pc = "finalize"
  /\ IF status \in Awaiting
     THEN /\ proc' = [proc EXCEPT ![p].pc = "transition",
                       ![p].op = IF status = "REQUESTED" THEN "match" ELSE "accept"]
          /\ UNCHANGED <<job, told>>
     ELSE Return(p)
  /\ UNCHANGED <<ridesVars, hedged, driver, offer, claim, cut>>

(* transition(): its read ... *)
ThreadObserveUnasserted(p) ==
  /\ proc[p].pc = "transition"
  /\ proc' = [proc EXCEPT ![p].pc = "commit", ![p].seen = row[p[1]].status]
  /\ UNCHANGED <<ridesVars, hedged, driver, offer, claim, job, told, cut>>

ThreadObserve(p) ==
  LET status == row[p[1]].status IN
  /\ proc[p].pc = "transition"
  /\ IF AssertTransition(status, Target[proc[p].op])
     THEN /\ proc' = [proc EXCEPT ![p].pc = "commit", ![p].seen = status]
          /\ UNCHANGED <<job, told>>
     ELSE Throw(p)
  /\ UNCHANGED <<ridesVars, hedged, driver, offer, claim, cut>>

(* ... and its transaction; then finalizeMatch goes on to ACCEPTED, to the *)
(* driver's row, or handleNoDrivers is done.                               *)
ThreadFrame(p) ==
  LET op == proc[p].op IN
  [pc |-> "commit", op |-> op, ride |-> p[1], by |-> "SYSTEM",
   who |-> IF op = "accept" THEN proc[p].driver ELSE Rider,
   reason |-> IF op = "cancel" THEN "NO_DRIVER_FOUND" ELSE "none",
   fee |-> 0, seen |-> proc[p].seen, restore |-> NoDriver]

ThreadCommit(p) ==
  LET f == ThreadFrame(p) IN
  /\ proc[p].pc = "commit"
  /\ IF Wins(f)
     THEN /\ Write(f.ride, Patched(row[f.ride], f))
          /\ CASE f.op = "match" ->
                    /\ proc' = [proc EXCEPT ![p].pc = "transition", ![p].op = "accept"]
                    /\ UNCHANGED <<job, told>>
               [] f.op = "accept" -> Goto(p, "markDriver") /\ UNCHANGED <<job, told>>
               [] OTHER -> Return(p)
     ELSE Throw(p) /\ UNCHANGED <<row, log>>
  /\ UNCHANGED <<late, call, restoring, hedged, driver, offer, claim, cut>>

MarkDriverBusy(p) ==
  /\ proc[p].pc = "markDriver"
  /\ driver' = [driver EXCEPT ![proc[p].driver] = "BUSY"]
  /\ Goto(p, "release")
  /\ UNCHANGED <<ridesVars, hedged, offer, claim, job, told, cut>>

MarkDriver(p) ==
  /\ proc[p].pc = "markDriver"
  /\ driver' = [driver EXCEPT ![proc[p].driver] = "ON_RIDE"]
  /\ Goto(p, "release")
  /\ UNCHANGED <<ridesVars, hedged, offer, claim, job, told, cut>>

(* DEL claim, whoever holds it by now. *)
ReleaseClaim(p) ==
  /\ proc[p].pc = "release"
  /\ claim' = [claim EXCEPT ![p[1]] = NoDriver]
  /\ Return(p)
  /\ UNCHANGED <<ridesVars, hedged, driver, offer, cut>>

-----------------------------------------------------------------------------
(* Redis expiry.  A claim outlives every thread that works on it, unless   *)
(* the environment has slow threads.                                       *)
OfferExpires(r, d) ==
  /\ <<r, d>> \in offer
  /\ offer' = offer \ {<<r, d>>}
  /\ UNCHANGED <<ridesVars, hedged, driver, claim, job, proc, told, cut>>

ClaimExpires(r) ==
  /\ claim[r] # NoDriver
  /\ "slow" \in Faults \/ \A w \in Drivers \cup {Worker} : ~Finalizing(proc[<<r, w>>])
  /\ claim' = [claim EXCEPT ![r] = NoDriver]
  /\ UNCHANGED <<ridesVars, hedged, driver, offer, job, proc, told, cut>>

(* PUT /drivers/status: any status, at any time. *)
SetStatus(d, status) ==
  /\ driver[d] # status
  /\ driver' = [driver EXCEPT ![d] = status]
  /\ UNCHANGED <<ridesVars, hedged, offer, claim, job, proc, told, cut>>

(* DriversService.completeRide, spawned by a completion. *)
RestoreDriver(r, d) ==
  /\ RestoreEnds(r, d)
  /\ \/ driver' = [driver EXCEPT ![d] = "ONLINE"]
     \/ "restore" \in Faults /\ UNCHANGED driver
  /\ UNCHANGED <<hedged, offer, claim, job, proc, told, cut>>

(* A thread does not get to its end; between: it was between the two moves *)
(* of finalizeMatch.                                                       *)
CutShort(p, between) ==
  LET r == p[1] IN
  /\ cut[r].times < MaxCuts
  /\ cut' = [cut EXCEPT ![r] = [times |-> cut[r].times + 1,
                               deciding |-> cut[r].deciding \/ between]]

(* The instance running a thread dies.  A worker's job is found stalled:   *)
(* it is queued once more, the second time it fails.                       *)
Crash(p) ==
  /\ "crash" \in Faults
  /\ proc[p].pc # "idle"
  /\ CutShort(p, Decides(proc[p]))
  /\ proc' = [proc EXCEPT ![p] = NoThread]
  /\ job' = IF p[2] # Worker THEN job
            ELSE [job EXCEPT ![p[1]].state = IF job[p[1]].stalls = 0
                                             THEN "queued" ELSE "failed",
                             ![p[1]].stalls = 1]
  /\ UNCHANGED <<ridesVars, hedged, driver, offer, claim, told>>

(* The await a live thread is at throws, and nothing catches it: matchRide's *)
(* first read when the worker is about to take the job, else any of those   *)
(* that follow.  What the thread has written and set stays.                 *)
AwaitFails(p) ==
  /\ "error" \in Faults
  /\ \/ proc[p].pc # "idle"
     \/ p[2] = Worker /\ job[p[1]].state = "queued"
  /\ CutShort(p, Decides(proc[p]))
  /\ Throw(p)
  /\ UNCHANGED <<ridesVars, hedged, driver, offer, claim>>

(* The transaction commits and its reply is lost: the thread throws all the *)
(* same.                                                                    *)
CommitUnanswered(p) ==
  LET f == ThreadFrame(p) IN
  /\ "error" \in Faults
  /\ proc[p].pc = "commit" /\ Wins(f)
  /\ Write(f.ride, Patched(row[f.ride], f))
  /\ CutShort(p, f.op = "match")
  /\ Throw(p)
  /\ UNCHANGED <<late, call, restoring, hedged, driver, offer, claim>>

-----------------------------------------------------------------------------
WorkerStep(r) == \/ MatchRide(r) \/ FindDrivers(r) \/ SendOffer(r) \/ WindowEnds(r)
                 \/ PollClaim(r) \/ NoDrivers(r) \/ CancelPreRead(r)

ThreadStep(p) == \/ FinalizeRead(p) \/ ThreadObserve(p) \/ ThreadCommit(p)
                 \/ MarkDriver(p) \/ ReleaseClaim(p)

HandlerStep(r, d) == Claim(r, d) \/ Withdraw(r, d)

RideStep == /\ \/ \E r \in Rides : CreateRide(r)
               \/ Arrives(RideOps)
               \/ \E c \in Calls : PreRead(c) \/ Observe(c) \/ Commit(c)
            /\ UNCHANGED matchVars

(* Nothing is left to do: every ride has used its events, no job waits, no *)
(* thread or call is between two awaits and no key is alive.               *)
MRest == /\ Rest
         /\ \A p \in Threads : proc[p].pc = "idle"
         /\ \A r \in Rides : job[r].state \in {"lost", "done", "failed"}
         /\ offer = {} /\ \A r \in Rides : claim[r] = NoDriver
         /\ UNCHANGED matchVars

MNext == \/ RideStep \/ MRest
         \/ \E r \in Rides : Enqueue(r) \/ WorkerStep(r) \/ ClaimExpires(r)
         \/ \E r \in Rides, d \in Drivers :
              \/ Accept(r, d) \/ Reject(r, d) \/ HandlerStep(r, d)
              \/ OfferExpires(r, d) \/ RestoreDriver(r, d)
         \/ \E p \in Threads : ThreadStep(p) \/ Crash(p) \/ AwaitFails(p) \/ CommitUnanswered(p)
         \/ \E d \in Drivers, s \in StatusChoices : SetStatus(d, s)

MSpec == MInit /\ [][MNext]_vars

(* A live process takes its next step, an offer key's TTL runs out, and the *)
(* queue hands out the jobs it holds.  Nobody has to answer an offer, and   *)
(* no ride operation has to arrive.                                         *)
Fairness ==
  /\ \A r \in Rides : WF_vars(Enqueue(r)) /\ WF_vars(WorkerStep(r))
  /\ \A r \in Rides, d \in Drivers :
       WF_vars(HandlerStep(r, d)) /\ WF_vars(OfferExpires(r, d))
  /\ \A p \in Threads : WF_vars(ThreadStep(p))

FairSpec == MSpec /\ Fairness

-----------------------------------------------------------------------------
(* Every variable of the dispatch engine keeps its shape. *)
MTypeOK ==
  /\ TypeOK
  /\ hedged \in BOOLEAN
  /\ driver \in [Drivers -> DriverStatuses]
  /\ offer \subseteq Rides \X Drivers
  /\ claim \in [Rides -> Drivers \cup {NoDriver}]
  /\ job \in [Rides -> Job]
  /\ proc \in [Threads -> Thread]
  /\ told \subseteq Rides \X Drivers
  /\ cut \in [Rides -> Cuts]

(* The claim key is what keeps finalizeMatch exclusive: as long as a ride   *)
(* waits for a driver, whoever finalizes it, worker or handler, does so for *)
(* the driver that holds the claim (handleDriverResponse 286-295).          *)
ClaimGuardsAcceptance ==
  \A p \in Threads :
    Finalizing(proc[p]) /\ row[p[1]].status \in Awaiting
      => proc[p].driver = claim[p[1]]

(* A ride is never given to a second driver, through retries, expired keys, *)
(* crashes and worker and handler finalizing side by side (the worker's     *)
(* comment: "only one driver can ever accept").                             *)
AssignmentIsFinal ==
  [][\A r \in Rides : Exists(r) /\ row[r].driver # NoDriver
                        => row'[r].driver = row[r].driver]_vars

(* The driver completeRide remembered before its transition is still the    *)
(* ride's driver when the restore runs.                                     *)
RestoresBelong ==
  \A r \in Rides, d \in Drivers :
    restoring[<<r, d>>] > 0 => row[r].status = "COMPLETED" /\ row[r].driver = d

(* The queue gave the job up, and each time its thread was cut short. *)
GivenUp(r) ==
  /\ job[r].state = "failed"
  /\ \/ job[r].attempts >= Attempts /\ cut[r].times >= Attempts
     \/ job[r].stalls = 1 /\ cut[r].times >= 2

(* How dispatch can give a ride up: once its job is over and no thread     *)
(* works on it, a ride still waits only if its threads were cut short.  One *)
(* left REQUESTED has a failed job, which spent all its attempts or stalled *)
(* twice, every time on a thread that died or threw; one left MATCHING was  *)
(* left by a thread that died or threw between the two moves of             *)
(* finalizeMatch (matching.service.ts:322-328), which matchRide's guard     *)
(* (line 75) keeps every retry from repairing.  Lost races, failed asserts, *)
(* expired keys and rejections never do it.                                 *)
NoRideAbandoned ==
  \A r \in Rides :
    /\ job[r].state \in {"done", "failed"}
    /\ \A w \in Drivers \cup {Worker} : proc[<<r, w>>].pc = "idle"
    => /\ row[r].status = "REQUESTED" => GivenUp(r)
       /\ row[r].status = "MATCHING" => cut[r].deciding

(* Every requested ride is eventually decided: a driver takes it, or it is  *)
(* cancelled.  The e2e test calls it "cancels with NO_DRIVER_FOUND instead  *)
(* of hanging" (test/ride.e2e-spec.ts:196); matching.worker.ts:9-10         *)
(* promises it across crashes too.                                          *)
EveryRideDecided ==
  \A r \in Rides : Exists(r) ~> row[r].status \notin Awaiting \cup {"NONE"}

(* A driver who won the claim while the ride was waiting gets the ride,     *)
(* unless the ride is cancelled first, whichever of the handler and the     *)
(* worker survives their race to finalize (finalizeMatch 317-332).          *)
ClaimIsHonoured ==
  \A r \in Rides, d \in Drivers :
    claim[r] = d /\ row[r].status \in Awaiting
      ~> Exists(r) /\ (row[r].driver = d \/ row[r].status = "CANCELLED")

(* "first accept wins, no double-acceptance possible" (matching.service.ts  *)
(* :286): no two drivers are told that they have the ride.                  *)
OneAcceptance == \A p, q \in told : p[1] = q[1] => p = q

(* "no way to double-book" (driver-ride-actions.controller.ts:36): no       *)
(* driver drives two rides at once.                                         *)
NoDoubleBooking ==
  \A r, q \in Rides :
    /\ row[r].status \in DriverActive /\ row[q].status \in DriverActive
    /\ row[r].driver = row[q].driver
    => r = q

-----------------------------------------------------------------------------
(* The inductive invariant behind the safety properties.  Work on a ride   *)
(* begins only once it exists; a thread that finalizes works for a driver; *)
(* one past its reads holds a status from which its move is legal; and     *)
(* once the ride has its driver, whoever still wants to accept it does so  *)
(* for that driver.                                                        *)
RideIsKnown ==
  /\ \A p \in Threads : proc[p].pc # "idle" => Exists(p[1])
  /\ \A r \in Rides, d \in Drivers : <<r, d>> \in offer => Exists(r)

ThreadOK(t, ride) ==
  /\ Finalizing(t) => t.driver \in Drivers
  /\ t.pc \in {"transition", "commit"} => t.op \in {"match", "accept", "cancel"}
  /\ t.pc = "commit" => AssertTransition(t.seen, Target[t.op])
  /\ t.pc \in {"markDriver", "release"} => ride.status \notin Awaiting
  /\ t.pc \in {"transition", "commit"} /\ t.op = "accept" /\ ride.driver # NoDriver
       => ride.driver = t.driver

ThreadsOK == \A p \in Threads : ThreadOK(proc[p], row[p[1]])

DriverFollowsStatus ==
  \A r \in Rides : Exists(r) =>
    /\ row[r].status \in Awaiting => row[r].driver = NoDriver
    /\ row[r].status = "ACCEPTED" => row[r].driver # NoDriver

CallersOnlyOperate ==
  \A c \in Calls : call[c] # Idle =>
    /\ call[c].op \in ApiOps
    /\ call[c].restore # NoDriver => call[c].restore = row[call[c].ride].driver

MIInv == /\ IInv
         /\ MTypeOK
         /\ RideIsKnown
         /\ ThreadsOK
         /\ DriverFollowsStatus
         /\ CallersOnlyOperate
         /\ ClaimGuardsAcceptance
         /\ RestoresBelong

(* Why no ride is abandoned: until it is MATCHING its job is not over but  *)
(* for cut threads, which its attempts and stalls count, and no thread has *)
(* lost its read of REQUESTED; the thread that made it MATCHING goes on to *)
(* ACCEPTED, and only a decision, or its own end, can make that fail.      *)
StartsMatch(t) == /\ t.pc \in {"transition", "commit"} => t.op # "accept"
                  /\ t.pc = "commit" => t.seen = "REQUESTED"
JobRuns(r) == /\ job[r].state # "done"
              /\ job[r].state = "failed" => GivenUp(r)
              /\ job[r].attempts + job[r].stalls <= cut[r].times
SomeoneDecides ==
  \A r \in Rides :
    /\ job[r].state # "none" => Exists(r)
    /\ job[r].state = "none" => job[r].attempts = 0 /\ job[r].stalls = 0
    /\ row[r].status = "REQUESTED" =>
         /\ JobRuns(r)
         /\ \A w \in Drivers \cup {Worker} : StartsMatch(proc[<<r, w>>])
    /\ row[r].status = "MATCHING" /\ ~cut[r].deciding =>
         \E w \in Drivers \cup {Worker} : Decides(proc[<<r, w>>])
=============================================================================
