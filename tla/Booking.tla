------------------------------- MODULE Booking -------------------------------
(***************************************************************************)
(* RidesService.requestRide for one rider and one promo code: the fraud    *)
(* guard, the promo claim in Redis, createRide and the compensation when   *)
(* it fails.  Fraud counts, the usage key and the rider's rows are shared  *)
(* by the rider's concurrent requests; every await is a step.              *)
(*                                                                         *)
(* Quote and price are the subject of Fares and Pricing: here they succeed   *)
(* or the request ends.  Definitions such as CreateFailsForgetful, used by *)
(* no action, are defective forms of the definition after them.            *)
(***************************************************************************)
EXTENDS Integers, Sequences, FiniteSets

CONSTANTS
  Requests,       \* how many requests of the rider are handled at once
  Origins,        \* where a ride comes from: a live request, a scheduled booking
  Live,
  MaxActive,      \* fraud.maxConcurrentActiveRides
  MaxPerHour,     \* fraud.maxRidesPerHour
  MaxRepeats,     \* fraud.maxDuplicateRequests
  MaxUses,        \* promos.maxUsesPerUser
  MaxAsked,       \* bound: requests in a run
  MaxBookFaults   \* bound: errors and crashes in a run

ASSUME BookingAssumption ==
  /\ IsFiniteSet(Requests) /\ Live \in Origins
  /\ MaxActive \in Nat \ {0} /\ MaxPerHour \in Nat \ {0}
  /\ MaxRepeats \in Nat /\ MaxUses \in Nat
  /\ MaxAsked \in Nat /\ MaxBookFaults \in Nat

VARIABLES
  rows,         \* the rider's rows of the rides table, oldest first
  aged,         \* how many of them are more than an hour old
  repeats,      \* fraud:dup:<rider>:<pickup>, one pickup point
  uses,         \* promo:<id>:user:<rider>, 0 while there is no such key
  ttl,          \* its time to live: a request is short beside the 90 days
  used,         \* ghost: the discounted rides since the key last expired
  uncounted,    \* ghost: uses held or given back that the counter lacks
  request,      \* the requests being handled
  asked,
  bookFaults

bookVars == <<rows, aged, repeats, uses, ttl, used, uncounted, request, asked, bookFaults>>

Checks == {"velocity", "active", "read", "write"}
Idle == [pc |-> "idle", code |-> FALSE, todo |-> {}, seen |-> 0, passed |-> TRUE]
RequestState == [pc : {"idle", "guard", "incr", "expire", "refuse", "create", "release"},
                 code : BOOLEAN,        \* dto.promoCode is given
                 todo : SUBSET Checks,  \* the checks of the guard that are not done
                 seen : Nat,            \* the duplicate count this request read, plus one
                 passed : BOOLEAN]

BookInit == /\ rows = <<>> /\ aged = 0
            /\ repeats = 0
            /\ uses = 0 /\ ttl = "absent" /\ used = 0 /\ uncounted = 0
            /\ request = [r \in Requests |-> Idle]
            /\ asked = 0 /\ bookFaults = 0

ActiveRows == {n \in DOMAIN rows : rows[n].active}
Goto(r, pc) == request' = [request EXCEPT ![r].pc = pc]
Answer(r) == request' = [request EXCEPT ![r] = Idle]
Fault == bookFaults < MaxBookFaults /\ bookFaults' = bookFaults + 1

-----------------------------------------------------------------------------
(* The fraud guard: three checks side by side, the third a GET and a SET.  *)
(* A refusal is final, the checks still running keep their effects.        *)
Ask(r, withCode) ==
  /\ request[r] = Idle /\ asked < MaxAsked
  /\ asked' = asked + 1
  /\ request' = [request EXCEPT ![r] =
       [Idle EXCEPT !.pc = "guard", !.code = withCode, !.todo = Checks]]
  /\ UNCHANGED <<rows, aged, repeats, uses, ttl, used, uncounted, bookFaults>>

AfterGuard(q) == IF q.todo # {} THEN q
                 ELSE IF ~q.passed THEN Idle
                 ELSE [q EXCEPT !.pc = IF q.code THEN "incr" ELSE "create", !.seen = 0]
Checked(r, check, ok) ==
  LET q == request[r] IN
  request' = [request EXCEPT ![r] =
    AfterGuard([q EXCEPT !.todo = q.todo \ {check}, !.passed = q.passed /\ ok])]

GuardVelocity(r) ==
  /\ "velocity" \in request[r].todo
  /\ Checked(r, "velocity", Len(rows) - aged < MaxPerHour)
  /\ UNCHANGED <<rows, aged, repeats, uses, ttl, used, uncounted, asked, bookFaults>>

GuardConcurrencyLate(r) ==
  /\ "active" \in request[r].todo
  /\ Checked(r, "active", Cardinality(ActiveRows) <= MaxActive)
  /\ UNCHANGED <<rows, aged, repeats, uses, ttl, used, uncounted, asked, bookFaults>>
GuardConcurrency(r) ==
  /\ "active" \in request[r].todo
  /\ Checked(r, "active", Cardinality(ActiveRows) < MaxActive)
  /\ UNCHANGED <<rows, aged, repeats, uses, ttl, used, uncounted, asked, bookFaults>>

GuardDuplicateRead(r) ==
  /\ "read" \in request[r].todo
  /\ request' = [request EXCEPT ![r].todo = @ \ {"read"}, ![r].seen = repeats + 1]
  /\ UNCHANGED <<rows, aged, repeats, uses, ttl, used, uncounted, asked, bookFaults>>

GuardDuplicateWrite(r) ==
  /\ "write" \in request[r].todo /\ "read" \notin request[r].todo
  /\ repeats' = request[r].seen
  /\ Checked(r, "write", request[r].seen <= MaxRepeats)
  /\ UNCHANGED <<rows, aged, uses, ttl, used, uncounted, asked, bookFaults>>

(* An error that is not a refusal, and comes before one, opens the guard;  *)
(* a repeat that was still to be counted goes uncounted.                   *)
GuardSkipped(r) ==
  /\ request[r].pc = "guard" /\ request[r].passed
  /\ Fault
  /\ request' = [request EXCEPT ![r] = AfterGuard([@ EXCEPT !.todo = {}])]
  /\ UNCHANGED <<rows, aged, repeats, uses, ttl, used, uncounted, asked>>

(* No fare config, no route: refused like by a check.  No such promo: the  *)
(* request ends.                                                           *)
NotFound(r) ==
  /\ \/ request[r].pc = "guard" /\ request' = [request EXCEPT ![r].passed = FALSE]
     \/ request[r].pc = "incr" /\ Answer(r)
  /\ UNCHANGED <<rows, aged, repeats, uses, ttl, used, uncounted, asked, bookFaults>>

-----------------------------------------------------------------------------
(* redeem: INCR, EXPIRE on the first use, DECR above the limit.  INCR and  *)
(* DECR make a key that is not there, one without a TTL; EXPIRE does not.  *)
Lives == {"absent", "none", "later", "soon"}
AfterIncr(n) == IF n > MaxUses THEN "refuse" ELSE "create"
Touch == ttl' = IF ttl = "absent" THEN "none" ELSE ttl

RedeemIncrUnchecked(r) ==
  /\ request[r].pc = "incr"
  /\ uses' = uses + 1 /\ Touch
  /\ Goto(r, IF uses = 0 THEN "expire" ELSE "create")
  /\ UNCHANGED <<rows, aged, repeats, used, uncounted, asked, bookFaults>>
RedeemIncr(r) ==
  /\ request[r].pc = "incr"
  /\ uses' = uses + 1 /\ Touch
  /\ Goto(r, IF uses = 0 THEN "expire" ELSE AfterIncr(uses + 1))
  /\ UNCHANGED <<rows, aged, repeats, used, uncounted, asked, bookFaults>>

RedeemExpire(r) ==
  /\ request[r].pc = "expire"
  /\ ttl' = IF ttl = "absent" THEN ttl ELSE "later"
  /\ Goto(r, AfterIncr(1))
  /\ UNCHANGED <<rows, aged, repeats, uses, used, uncounted, asked, bookFaults>>

RedeemDecr(r) ==
  /\ request[r].pc = "refuse"
  /\ uses' = uses - 1 /\ Touch
  /\ Answer(r)
  /\ UNCHANGED <<rows, aged, repeats, used, uncounted, asked, bookFaults>>

(* createRide commits the ride; a failed enqueue is logged and changes     *)
(* nothing here.                                                           *)
NewRide(from) == rows' = Append(rows, [active |-> TRUE, from |-> from])

CreateRide(r) ==
  /\ request[r].pc = "create"
  /\ NewRide(Live)
  /\ used' = IF request[r].code THEN used + 1 ELSE used
  /\ Answer(r)
  /\ UNCHANGED <<aged, repeats, uses, ttl, uncounted, asked, bookFaults>>

CreateFailsForgetful(r) ==
  /\ request[r].pc = "create" /\ Answer(r)
  /\ UNCHANGED <<rows, aged, repeats, uses, ttl, used, uncounted, asked, bookFaults>>
CreateFails(r) ==
  /\ request[r].pc = "create"
  /\ IF request[r].code THEN Goto(r, "release") ELSE Answer(r)
  /\ UNCHANGED <<rows, aged, repeats, uses, ttl, used, uncounted, asked, bookFaults>>

(* The commit succeeds and its reply is lost: createRide throws, and the   *)
(* use of a ride that exists is given back.                                *)
CreateReplyLost(r) ==
  /\ request[r].pc = "create"
  /\ Fault
  /\ NewRide(Live)
  /\ IF request[r].code
     THEN Goto(r, "release") /\ used' = used + 1 /\ uncounted' = uncounted + 1
     ELSE Answer(r) /\ UNCHANGED <<used, uncounted>>
  /\ UNCHANGED <<aged, repeats, uses, ttl, asked>>

Release(r) ==
  /\ request[r].pc = "release"
  /\ uses' = uses - 1 /\ Touch
  /\ Answer(r)
  /\ UNCHANGED <<rows, aged, repeats, used, uncounted, asked, bookFaults>>

(* Redis refuses EXPIRE, a DECR or the release, or the process dies: the   *)
(* handler is over and what it claimed stays claimed.                      *)
RequestLost(r) ==
  /\ request[r].pc \notin {"idle", "guard"}
  /\ Fault
  /\ Answer(r)
  /\ UNCHANGED <<rows, aged, repeats, uses, ttl, used, uncounted, asked>>

-----------------------------------------------------------------------------
(* Time and the rest of the ride. *)
RideEnds(n) ==
  /\ n \in ActiveRows
  /\ rows' = [rows EXCEPT ![n].active = FALSE]
  /\ UNCHANGED <<aged, repeats, uses, ttl, used, uncounted, request, asked, bookFaults>>

HourPasses == /\ aged < Len(rows)
              /\ aged' = aged + 1
              /\ UNCHANGED <<rows, repeats, uses, ttl, used, uncounted, request, asked, bookFaults>>

DuplicateWindowEnds ==
  /\ repeats # 0
  /\ repeats' = 0
  /\ UNCHANGED <<rows, aged, uses, ttl, used, uncounted, request, asked, bookFaults>>

(* The requests that hold a use of the promo, and those refused one that   *)
(* have not given it back yet.                                             *)
Claims == {r \in Requests : /\ request[r].code
                            /\ \/ request[r].pc \in {"create", "release"}
                               \/ request[r].pc = "expire" /\ MaxUses # 0}
Refusals == {r \in Requests : /\ request[r].code
                              /\ \/ request[r].pc = "refuse"
                                 \/ request[r].pc = "expire" /\ MaxUses = 0}

(* The TTL is set by the first use alone and runs on under later requests. *)
(* No request lasts from the setting to the end.                           *)
UsageAges ==
  /\ ttl = "later" /\ \A r \in Requests : ~request[r].code
  /\ ttl' = "soon"
  /\ UNCHANGED <<rows, aged, repeats, uses, used, uncounted, request, asked, bookFaults>>

UsageExpires ==
  /\ ttl = "soon"
  /\ uses' = 0 /\ ttl' = "absent" /\ used' = 0
  /\ uncounted' = Cardinality(Claims) + Cardinality(Refusals)
  /\ UNCHANGED <<rows, aged, repeats, request, asked, bookFaults>>

RequestStep(r) ==
  \/ \E withCode \in BOOLEAN : Ask(r, withCode)
  \/ GuardVelocity(r) \/ GuardConcurrency(r)
  \/ GuardDuplicateRead(r) \/ GuardDuplicateWrite(r) \/ GuardSkipped(r) \/ NotFound(r)
  \/ RedeemIncr(r) \/ RedeemExpire(r) \/ RedeemDecr(r)
  \/ CreateRide(r) \/ CreateFails(r) \/ CreateReplyLost(r) \/ Release(r)
  \/ RequestLost(r)

TimePasses == HourPasses \/ DuplicateWindowEnds \/ UsageAges \/ UsageExpires

BookNext == \/ \E r \in Requests : RequestStep(r)
            \/ \E n \in DOMAIN rows : RideEnds(n)
            \/ TimePasses

BookSpec == BookInit /\ [][BookNext]_bookVars

-----------------------------------------------------------------------------
(* Every variable of the booking keeps its shape; the usage counter may be *)
(* negative, the duplicate counter not (redeem 81-90, release 104-116).    *)
BookTypeOK ==
  /\ rows \in Seq([active : BOOLEAN, from : Origins]) /\ aged \in 0..Len(rows)
  /\ repeats \in Nat
  /\ uses \in Int /\ ttl \in Lives /\ used \in Nat /\ uncounted \in Nat
  /\ request \in [Requests -> RequestState]
  /\ asked \in 0..MaxAsked /\ bookFaults \in 0..MaxBookFaults

(* The limit on active rides is checked before the ride exists, so each    *)
(* request in flight may exceed it by one, and no more: the guard counts   *)
(* whatever it lets through (guardConcurrency 81-102).                     *)
LiveRows == {n \in ActiveRows : rows[n].from = Live}
ActiveRidesBounded ==
  Cardinality(LiveRows) <= MaxActive - 1 + Cardinality(Requests) + bookFaults

(* However many requests race for the last use, a rider has no more        *)
(* discounted rides in a life of the key than the promo allows, and one    *)
(* more for each use that was held when the key expired or was given back  *)
(* though its ride exists (redeem 62-91, requestRide 130-154).             *)
PromoNeverOverused == used <= MaxUses + uncounted

(* A use is consumed by a ride, held by a request, or lost to an error: a  *)
(* request that fails gives back what it claimed (requestRide 147-154).    *)
UsesAccountedFor ==
  LET accounted == used + Cardinality(Claims) + Cardinality(Refusals) - uncounted
  IN  accounted <= uses /\ uses <= accounted + bookFaults

-----------------------------------------------------------------------------
(* Why: a request past the guard's third check has a place that the bound  *)
(* on active rides already counts, and one that holds a use of the promo   *)
(* is already among the uses allowed.                                      *)
RequestOK(q) ==
  /\ q.pc \in {"incr", "expire", "refuse", "release"} => q.code
  /\ q.pc # "guard" => q.todo = {} /\ q.passed

Passed(q) == q.pc # "idle" /\ "active" \notin q.todo /\ q.passed
InFlight == {r \in Requests : Passed(request[r])}

PlacesCounted == Cardinality(LiveRows) + Cardinality(InFlight)
                   <= MaxActive - 1 + Cardinality(Requests) + bookFaults

UsesAllowed == used + Cardinality(Claims) <= MaxUses + uncounted

BookIInv == /\ BookTypeOK
            /\ \A r \in Requests : RequestOK(request[r])
            /\ UsesAccountedFor /\ UsesAllowed
            /\ PlacesCounted
=============================================================================
