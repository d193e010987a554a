---------------------------- MODULE MatchingProofs ----------------------------
(***************************************************************************)
(* The dispatch engine keeps MIInv for any number of rides, drivers, calls,*)
(* retries and crashes, as long as no live thread outlasts the claim's     *)
(* TTL.  The claim's exclusion, the finality of an assignment and the      *)
(* ride's life cycle follow; with SomeoneDecides, that no ride is dropped. *)
(***************************************************************************)
EXTENDS Matching, RidesProofs

LEMMA NoThreadOK ==
  /\ NoThread \in Thread /\ NoThread.pc = "idle" /\ ~Finalizing(NoThread)
  /\ \A ride : ThreadOK(NoThread, ride)
BY DEF NoThread, Thread, Finalizing, ThreadOK

(* How a thread ends keeps the types of the job and of the answers. *)
LEMMA EndTypes ==
  ASSUME MIInv, NEW p \in Threads, Return(p) \/ Throw(p)
  PROVE  /\ proc' = [proc EXCEPT ![p] = NoThread]
         /\ job' \in [Rides -> Job] /\ told' \subseteq Rides \X Drivers
<1>1. p[1] \in Rides /\ p[2] \in Drivers \cup {Worker}
      /\ (p[2] # Worker => p \in Rides \X Drivers)
  BY DEF Threads
<1>2. job \in [Rides -> Job] /\ told \subseteq Rides \X Drivers
  BY DEF MIInv, MTypeOK
<1>3. CASE Return(p)
  BY <1>1, <1>2, <1>3 DEF Return, Job
<1>4. CASE Throw(p)
  BY <1>1, <1>2, <1>4 DEF Throw, Job
<1> QED BY <1>3, <1>4 DEF Return, Throw

(* What the rides' part of the invariant needs of a step that leaves the   *)
(* rides alone: nothing.                                                   *)
LEMMA RidesUntouched ==
  ASSUME MIInv, UNCHANGED ridesVars
  PROVE  IInv' /\ DriverFollowsStatus' /\ CallersOnlyOperate' /\ RestoresBelong'
<1>1. IInv'
  BY StepIInv DEF MIInv
<1>2. UNCHANGED <<row, call, restoring>>
  BY DEF ridesVars
<1> QED BY <1>1, <1>2 DEF MIInv, DriverFollowsStatus, CallersOnlyOperate, RestoresBelong, Exists

(* A step of one thread, which may change the claim of its ride: it is     *)
(* enough that the thread is fit for the ride as it stands, and that every  *)
(* other thread that finalizes a waiting ride does so for the new claim.   *)
LEMMA ClaimMoves ==
  ASSUME MIInv, UNCHANGED ridesVars, hedged' = hedged,
         NEW p \in Threads, NEW c \in Drivers \cup {NoDriver},
         claim' = [claim EXCEPT ![p[1]] = c],
         \A q \in Threads :
           q # p /\ q[1] = p[1] /\ Finalizing(proc[q]) /\ row[p[1]].status \in Awaiting
             => proc[q].driver = c,
         NEW t \in Thread, proc' = [proc EXCEPT ![p] = t],
         t.pc # "idle" => Exists(p[1]),
         ThreadOK(t, row[p[1]]),
         Finalizing(t) /\ row[p[1]].status \in Awaiting => t.driver = c,
         driver' \in [Drivers -> DriverStatuses],
         offer' \subseteq Rides \X Drivers, \A o \in offer' : o \in offer \/ Exists(o[1]),
         job' \in [Rides -> Job], told' \subseteq Rides \X Drivers,
         cut' \in [Rides -> Cuts]
  PROVE  MIInv'
<1>1. IInv' /\ DriverFollowsStatus' /\ CallersOnlyOperate' /\ RestoresBelong'
  BY RidesUntouched
<1>2. row' = row /\ p[1] \in Rides
  BY DEF ridesVars, Threads
<1>3. /\ proc' \in [Threads -> Thread]
      /\ proc'[p] = t
      /\ \A q \in Threads : q # p => proc'[q] = proc[q]
  BY DEF MIInv, MTypeOK
<1>4. /\ claim' \in [Rides -> Drivers \cup {NoDriver}]
      /\ claim'[p[1]] = c
      /\ \A r \in Rides : r # p[1] => claim'[r] = claim[r]
  BY <1>2 DEF MIInv, MTypeOK
<1>5. MTypeOK'
  BY <1>1, <1>3, <1>4 DEF MIInv, MTypeOK, IInv
<1>6. RideIsKnown'
  <2>1. ASSUME NEW q \in Threads, proc'[q].pc # "idle" PROVE Exists(q[1])'
    BY <1>2, <1>3, <2>1 DEF MIInv, RideIsKnown, Exists
  <2>2. ASSUME NEW r \in Rides, NEW d \in Drivers, <<r, d>> \in offer' PROVE Exists(r)'
    BY <1>2, <2>2 DEF MIInv, RideIsKnown, Exists
  <2> QED BY <2>1, <2>2 DEF RideIsKnown
<1>7. ThreadsOK'
  <2> SUFFICES ASSUME NEW q \in Threads PROVE ThreadOK(proc'[q], row[q[1]])
    BY <1>2 DEF ThreadsOK, ThreadOK, Finalizing
  <2> QED BY <1>3 DEF MIInv, ThreadsOK
<1>8. ClaimGuardsAcceptance'
  <2> SUFFICES ASSUME NEW q \in Threads, Finalizing(proc'[q]), row[q[1]].status \in Awaiting
               PROVE  proc'[q].driver = claim'[q[1]]
    BY <1>2 DEF ClaimGuardsAcceptance, Finalizing
  <2>1. q[1] \in Rides
    BY DEF Threads
  <2>2. CASE q = p
    BY <1>3, <1>4, <2>2
  <2>3. CASE q # p /\ q[1] = p[1]
    BY <1>3, <1>4, <2>3
  <2>4. CASE q # p /\ q[1] # p[1]
    BY <1>3, <1>4, <2>1, <2>4 DEF MIInv, ClaimGuardsAcceptance
  <2> QED BY <2>2, <2>3, <2>4
<1> QED BY <1>1, <1>5, <1>6, <1>7, <1>8 DEF MIInv

(* A step of one thread that leaves the claims alone. *)
LEMMA ThreadMoves ==
  ASSUME MIInv, UNCHANGED ridesVars, hedged' = hedged, claim' = claim,
         NEW p \in Threads, NEW t \in Thread, proc' = [proc EXCEPT ![p] = t],
         t.pc # "idle" => Exists(p[1]),
         ThreadOK(t, row[p[1]]),
         Finalizing(t) /\ row[p[1]].status \in Awaiting => t.driver = claim[p[1]],
         driver' \in [Drivers -> DriverStatuses],
         offer' \subseteq Rides \X Drivers, \A o \in offer' : o \in offer \/ Exists(o[1]),
         job' \in [Rides -> Job], told' \subseteq Rides \X Drivers,
         cut' \in [Rides -> Cuts]
  PROVE  MIInv'
<1> DEFINE c == claim[p[1]]
<1>1. c \in Drivers \cup {NoDriver} /\ claim' = [claim EXCEPT ![p[1]] = c]
  BY DEF MIInv, MTypeOK, Threads
<1>2. \A q \in Threads :
        q # p /\ q[1] = p[1] /\ Finalizing(proc[q]) /\ row[p[1]].status \in Awaiting
          => proc[q].driver = c
  BY DEF MIInv, ClaimGuardsAcceptance
<1> HIDE DEF c
<1>3. Finalizing(t) /\ row[p[1]].status \in Awaiting => t.driver = c
  BY DEF c
<1> QED BY <1>1, <1>2, <1>3, ClaimMoves

LEMMA CutStays ==
  ASSUME MIInv, cut' = cut
  PROVE  cut' \in [Rides -> Cuts]
BY DEF MIInv, MTypeOK

(* A thread that ends. *)
LEMMA ThreadEnds ==
  ASSUME MIInv, NEW p \in Threads, Return(p) \/ Throw(p),
         UNCHANGED <<ridesVars, hedged, driver, offer, claim>>,
         cut' \in [Rides -> Cuts]
  PROVE  MIInv'
<1>1. /\ proc' = [proc EXCEPT ![p] = NoThread]
      /\ job' \in [Rides -> Job] /\ told' \subseteq Rides \X Drivers
  BY EndTypes
<1> QED BY <1>1, NoThreadOK, ThreadMoves DEF MIInv, MTypeOK

(* A step that moves no thread and leaves the claims alone. *)
LEMMA KeysMove ==
  ASSUME MIInv, UNCHANGED <<ridesVars, hedged, claim, proc>>,
         driver' \in [Drivers -> DriverStatuses],
         offer' \subseteq offer, job' \in [Rides -> Job], told' = told, cut' = cut
  PROVE  MIInv'
<1>1. IInv' /\ DriverFollowsStatus' /\ CallersOnlyOperate' /\ RestoresBelong'
  BY RidesUntouched
<1>2. row' = row
  BY DEF ridesVars
<1>3. MTypeOK'
  BY <1>1 DEF MIInv, MTypeOK, IInv
<1>4. RideIsKnown' /\ ThreadsOK' /\ ClaimGuardsAcceptance'
  BY <1>2 DEF MIInv, RideIsKnown, Exists, ThreadsOK, ThreadOK, ClaimGuardsAcceptance, Finalizing
<1> QED BY <1>1, <1>3, <1>4 DEF MIInv

(* A thread that goes on while it dispatches offers: it owns no claim. *)
LEMMA Dispatches ==
  ASSUME MIInv, NEW p \in Threads, Exists(p[1]), NEW t \in Thread,
         t.pc \in {"find", "send", "window", "wait", "noDrivers", "preread", "claim"},
         proc' = [proc EXCEPT ![p] = t],
         offer' \subseteq Rides \X Drivers, \A o \in offer' : o \in offer \/ o[1] = p[1],
         job' \in [Rides -> Job],
         UNCHANGED <<ridesVars, hedged, driver, claim, told, cut>>
  PROVE  MIInv'
<1>1. ~Finalizing(t) /\ ThreadOK(t, row[p[1]])
  BY DEF Finalizing, ThreadOK
<1> QED BY <1>1, ThreadMoves DEF MIInv, MTypeOK

(* A thread at work has its type, and its ride exists. *)
LEMMA AtWork ==
  ASSUME MIInv, NEW p \in Threads
  PROVE  /\ proc[p] \in Thread /\ ThreadOK(proc[p], row[p[1]])
         /\ proc[p].pc # "idle" => Exists(p[1])
         /\ Finalizing(proc[p]) /\ row[p[1]].status \in Awaiting
              => proc[p].driver = claim[p[1]]
         /\ p[1] \in Rides
         /\ job \in [Rides -> Job] /\ offer \subseteq Rides \X Drivers
         /\ driver \in [Drivers -> DriverStatuses] /\ told \subseteq Rides \X Drivers
         /\ claim[p[1]] \in Drivers \cup {NoDriver} /\ cut \in [Rides -> Cuts]
BY DEF MIInv, MTypeOK, ThreadsOK, RideIsKnown, ClaimGuardsAcceptance, Threads

LEMMA GotoMoves ==
  ASSUME MIInv, NEW p \in Threads
  PROVE  \A pc : Goto(p, pc) => proc' = [proc EXCEPT ![p] = [proc[p] EXCEPT !.pc = pc]]
<1>1. proc \in [Threads -> Thread]
  BY DEF MIInv, MTypeOK
<1> QED BY <1>1 DEF Goto

-----------------------------------------------------------------------------
(* The queue, the keys and the drivers: no thread moves. *)
LEMMA EnqueueStep ==
  ASSUME MIInv, NEW r \in Rides, Enqueue(r)
  PROVE  MIInv'
<1>1. job' \in [Rides -> Job]
  BY DEF Enqueue, MIInv, MTypeOK, Job
<1> QED BY <1>1, KeysMove DEF Enqueue, MIInv, MTypeOK

LEMMA OffersEnd ==
  ASSUME MIInv, NEW r \in Rides, NEW d \in Drivers, Reject(r, d) \/ OfferExpires(r, d)
  PROVE  MIInv'
BY KeysMove DEF Reject, OfferExpires, MIInv, MTypeOK

LEMMA SetStatusStep ==
  ASSUME MIInv, NEW d \in Drivers, NEW s \in StatusChoices, SetStatus(d, s)
  PROVE  MIInv'
<1>1. driver' \in [Drivers -> DriverStatuses]
  BY MatchingAssumption DEF SetStatus, MIInv, MTypeOK
<1> QED BY <1>1, KeysMove DEF SetStatus, MIInv, MTypeOK

(* The worker up to its deadline, and a driver's accept request up to its  *)
(* claim: none of them owns a claim yet.                                   *)
LEMMA MatchRideStep ==
  ASSUME MIInv, NEW r \in Rides, MatchRide(r)
  PROVE  MIInv'
<1> DEFINE p == <<r, Worker>>
<1>1. p \in Threads /\ p[1] = r
  BY DEF Threads
<1>2. proc[p] \in Thread /\ job \in [Rides -> Job] /\ offer \subseteq Rides \X Drivers
  BY <1>1, AtWork
<1>3. job' \in [Rides -> Job]
  BY <1>2 DEF MatchRide, Job
<1>4. CASE row[r].status = "REQUESTED"
  <2>1. Exists(r)
    BY <1>4 DEF Exists, Absent
  <2>2. proc' = [proc EXCEPT ![p] = [proc[p] EXCEPT !.pc = "find"]]
    BY <1>1, <1>4, GotoMoves DEF MatchRide
  <2>3. [proc[p] EXCEPT !.pc = "find"] \in Thread /\ [proc[p] EXCEPT !.pc = "find"].pc = "find"
    BY <1>2 DEF Thread
  <2> QED BY <1>1, <1>2, <1>3, <2>1, <2>2, <2>3, Dispatches DEF MatchRide
<1>5. CASE row[r].status # "REQUESTED"
  BY <1>2, <1>3, <1>5, KeysMove DEF MatchRide, MIInv, MTypeOK
<1> QED BY <1>4, <1>5

LEMMA FindDriversStep ==
  ASSUME MIInv, NEW r \in Rides, FindDrivers(r)
  PROVE  MIInv'
<1> DEFINE p == <<r, Worker>>
<1>1. p \in Threads /\ p[1] = r
  BY DEF Threads
<1>2. /\ proc[p] \in Thread /\ job \in [Rides -> Job] /\ offer \subseteq Rides \X Drivers
      /\ Exists(r)
  BY <1>1, AtWork DEF FindDrivers
<1>3. PICK found \in SUBSET Drivers :
        proc' = [proc EXCEPT ![p].pc = IF found = {} THEN "noDrivers" ELSE "send",
                             ![p].todo = found]
  BY DEF FindDrivers
<1> DEFINE t == [proc[p] EXCEPT !.pc = IF found = {} THEN "noDrivers" ELSE "send",
                                !.todo = found]
<1>4. proc' = [proc EXCEPT ![p] = t]
  BY <1>1, <1>2, <1>3 DEF MIInv, MTypeOK, Thread
<1>5. t \in Thread /\ t.pc \in {"noDrivers", "send"}
  BY <1>2 DEF Thread
<1> QED BY <1>1, <1>2, <1>4, <1>5, Dispatches DEF FindDrivers

LEMMA SendOfferStep ==
  ASSUME MIInv, NEW r \in Rides, SendOffer(r)
  PROVE  MIInv'
<1> DEFINE p == <<r, Worker>>
<1>1. p \in Threads /\ p[1] = r
  BY DEF Threads
<1>2. /\ proc[p] \in Thread /\ job \in [Rides -> Job] /\ offer \subseteq Rides \X Drivers
      /\ Exists(r)
  BY <1>1, AtWork DEF SendOffer
<1>3. PICK d \in proc[p].todo :
        /\ offer' = offer \cup {<<r, d>>}
        /\ proc' = [proc EXCEPT ![p].todo = @ \ {d},
                                ![p].pc = IF ~hedged THEN "window"
                                          ELSE IF proc[p].todo = {d} THEN "wait" ELSE "send"]
  BY DEF SendOffer
<1> DEFINE pc == IF ~hedged THEN "window"
                 ELSE IF proc[p].todo = {d} THEN "wait" ELSE "send"
           t == [proc[p] EXCEPT !.pc = pc, !.todo = @ \ {d}]
<1>4. proc' = [proc EXCEPT ![p] = t]
  BY <1>1, <1>2, <1>3 DEF MIInv, MTypeOK, Thread
<1>5. t \in Thread /\ t.pc \in {"window", "wait", "send"}
  BY <1>2 DEF Thread
<1>6. /\ offer' \subseteq Rides \X Drivers
      /\ \A o \in offer' : o \in offer \/ o[1] = p[1]
  <2>1. d \in Drivers
    BY <1>2, <1>3 DEF Thread
  <2> QED BY <1>2, <1>3, <2>1
<1> QED BY <1>1, <1>2, <1>4, <1>5, <1>6, Dispatches DEF SendOffer

LEMMA WindowEndsStep ==
  ASSUME MIInv, NEW r \in Rides, WindowEnds(r)
  PROVE  MIInv'
<1> DEFINE p == <<r, Worker>>
           t == [proc[p] EXCEPT
                  !.pc = IF claim[r] # NoDriver \/ proc[p].todo = {} THEN "wait" ELSE "send",
                  !.todo = IF claim[r] # NoDriver THEN {} ELSE @]
<1>1. p \in Threads /\ p[1] = r
  BY DEF Threads
<1>2. /\ proc[p] \in Thread /\ job \in [Rides -> Job] /\ offer \subseteq Rides \X Drivers
      /\ Exists(r)
  BY <1>1, AtWork DEF WindowEnds
<1>3. proc' = [proc EXCEPT ![p] = t]
  BY <1>1, <1>2 DEF WindowEnds, MIInv, MTypeOK, Thread
<1>4. t \in Thread /\ t.pc \in {"wait", "send"}
  BY <1>2 DEF Thread
<1>5. UNCHANGED <<ridesVars, hedged, driver, offer, claim, job, told, cut>>
  BY DEF WindowEnds
<1> HIDE DEF t
<1> QED BY <1>1, <1>2, <1>3, <1>4, <1>5, Dispatches

LEMMA PollClaimStep ==
  ASSUME MIInv, NEW r \in Rides, PollClaim(r)
  PROVE  MIInv'
<1> DEFINE p == <<r, Worker>>
<1>1. p \in Threads /\ p[1] = r
  BY DEF Threads
<1>2. /\ proc[p] \in Thread /\ job \in [Rides -> Job] /\ offer \subseteq Rides \X Drivers
      /\ driver \in [Drivers -> DriverStatuses] /\ told \subseteq Rides \X Drivers
      /\ claim[r] \in Drivers \cup {NoDriver} /\ cut \in [Rides -> Cuts]
      /\ Exists(r)
  BY <1>1, AtWork DEF PollClaim
<1>3. UNCHANGED <<ridesVars, hedged, driver, offer, claim, job, told, cut>>
  BY DEF PollClaim
<1>4. CASE claim[r] # NoDriver
  <2> DEFINE t == [proc[p] EXCEPT !.pc = "finalize", !.driver = claim[r]]
  <2>1. proc' = [proc EXCEPT ![p] = t]
    BY <1>1, <1>2, <1>4 DEF PollClaim, MIInv, MTypeOK, Thread
  <2>2. t \in Thread /\ t.pc = "finalize" /\ t.driver = claim[r]
    BY <1>2 DEF Thread
  <2>3. ThreadOK(t, row[r])
    BY <1>2, <1>4, <2>2 DEF ThreadOK
  <2> HIDE DEF t
  <2> QED BY <1>1, <1>2, <1>3, <2>1, <2>2, <2>3, ThreadMoves
<1>5. CASE claim[r] = NoDriver
  <2> DEFINE t == [proc[p] EXCEPT !.pc = "noDrivers"]
  <2>1. proc' = [proc EXCEPT ![p] = t]
    BY <1>1, <1>5, GotoMoves DEF PollClaim
  <2>2. t \in Thread /\ t.pc = "noDrivers"
    BY <1>2 DEF Thread
  <2> HIDE DEF t
  <2> QED BY <1>1, <1>2, <1>3, <2>1, <2>2, Dispatches
<1> QED BY <1>4, <1>5

LEMMA NoDriversStep ==
  ASSUME MIInv, NEW r \in Rides, NoDrivers(r)
  PROVE  MIInv'
<1> DEFINE p == <<r, Worker>>
           t == [proc[p] EXCEPT !.pc = "preread"]
<1>1. p \in Threads /\ p[1] = r
  BY DEF Threads
<1>2. /\ proc[p] \in Thread /\ job \in [Rides -> Job] /\ offer \subseteq Rides \X Drivers
      /\ Exists(r)
  BY <1>1, AtWork DEF NoDrivers
<1>3. UNCHANGED <<ridesVars, hedged, driver, offer, claim, cut>>
  BY DEF NoDrivers
<1>4. CASE row[r].status \in Awaiting
  <2>1. proc' = [proc EXCEPT ![p] = t] /\ job' = job /\ told' = told
    BY <1>1, <1>4, GotoMoves DEF NoDrivers
  <2>2. t \in Thread /\ t.pc = "preread"
    BY <1>2 DEF Thread
  <2> HIDE DEF t
  <2> QED BY <1>1, <1>2, <1>3, <2>1, <2>2, Dispatches
<1>5. CASE row[r].status \notin Awaiting
  <2>1. Return(p)
    BY <1>5 DEF NoDrivers
  <2> QED BY <1>1, <1>3, <2>1, ThreadEnds, CutStays
<1> QED BY <1>4, <1>5

LEMMA CancelPreReadStep ==
  ASSUME MIInv, NEW r \in Rides, CancelPreRead(r)
  PROVE  MIInv'
<1> DEFINE p == <<r, Worker>>
           t == [proc[p] EXCEPT !.pc = "transition", !.op = "cancel"]
<1>1. p \in Threads /\ p[1] = r
  BY DEF Threads
<1>2. /\ proc[p] \in Thread /\ job \in [Rides -> Job] /\ offer \subseteq Rides \X Drivers
      /\ driver \in [Drivers -> DriverStatuses] /\ told \subseteq Rides \X Drivers
      /\ cut \in [Rides -> Cuts]
      /\ Exists(r)
  BY <1>1, AtWork DEF CancelPreRead
<1>3. UNCHANGED <<ridesVars, hedged, driver, offer, claim, cut>>
  BY DEF CancelPreRead
<1>4. CASE CanCancel(row[r].status)
  <2>1. proc' = [proc EXCEPT ![p] = t] /\ job' = job /\ told' = told
    BY <1>1, <1>2, <1>4 DEF CancelPreRead, MIInv, MTypeOK, Thread
  <2>2. t \in Thread /\ t.pc = "transition" /\ t.op = "cancel"
    BY <1>2 DEF Thread
  <2> HIDE DEF t
  <2>3. ~Finalizing(t) /\ ThreadOK(t, row[r])
    BY <2>2 DEF Finalizing, ThreadOK
  <2> QED BY <1>1, <1>2, <1>3, <2>1, <2>2, <2>3, ThreadMoves
<1>5. CASE ~CanCancel(row[r].status)
  <2>1. Throw(p)
    BY <1>5 DEF CancelPreRead
  <2> QED BY <1>1, <1>3, <2>1, ThreadEnds, CutStays
<1> QED BY <1>4, <1>5

LEMMA AcceptStep ==
  ASSUME MIInv, NEW r \in Rides, NEW d \in Drivers, Accept(r, d)
  PROVE  MIInv'
<1> DEFINE p == <<r, d>>
           t == [proc[p] EXCEPT !.pc = "claim"]
<1>1. p \in Threads /\ p[1] = r
  BY DEF Threads
<1>2. /\ proc[p] \in Thread /\ job \in [Rides -> Job] /\ offer \subseteq Rides \X Drivers
  BY <1>1, AtWork
<1>3. Exists(r)
  BY DEF Accept, MIInv, RideIsKnown
<1>4. proc' = [proc EXCEPT ![p] = t]
  BY <1>1, GotoMoves DEF Accept
<1>5. t \in Thread /\ t.pc = "claim"
  BY <1>2 DEF Thread
<1>6. UNCHANGED <<ridesVars, hedged, driver, offer, claim, job, told, cut>>
  BY DEF Accept
<1> HIDE DEF t
<1> QED BY <1>1, <1>2, <1>3, <1>4, <1>5, <1>6, Dispatches

(* The claimant goes on to finalizeMatch, for the driver it claimed for. *)
LEMMA WithdrawStep ==
  ASSUME MIInv, NEW r \in Rides, NEW d \in Drivers, Withdraw(r, d)
  PROVE  MIInv'
<1> DEFINE p == <<r, d>>
           t == [proc[p] EXCEPT !.pc = "finalize"]
<1>1. p \in Threads /\ p[1] = r
  BY DEF Threads
<1>2. /\ proc[p] \in Thread /\ job \in [Rides -> Job] /\ offer \subseteq Rides \X Drivers
      /\ driver \in [Drivers -> DriverStatuses] /\ told \subseteq Rides \X Drivers
      /\ cut \in [Rides -> Cuts]
      /\ Exists(r) /\ ThreadOK(proc[p], row[r]) /\ proc[p].pc = "withdraw"
      /\ Finalizing(proc[p]) /\ row[r].status \in Awaiting => proc[p].driver = claim[r]
  BY <1>1, AtWork DEF Withdraw
<1>3. proc' = [proc EXCEPT ![p] = t]
  BY <1>1, GotoMoves DEF Withdraw
<1>4. t \in Thread /\ t.pc = "finalize" /\ t.driver = proc[p].driver
  BY <1>2 DEF Thread
<1>5. UNCHANGED <<ridesVars, hedged, driver, claim, job, told, cut>>
      /\ offer' \subseteq offer
  BY DEF Withdraw
<1> HIDE DEF t
<1>6. Finalizing(proc[p]) /\ ThreadOK(t, row[r])
  BY <1>2, <1>4 DEF ThreadOK, Finalizing
<1> QED BY <1>1, <1>2, <1>3, <1>4, <1>5, <1>6, ThreadMoves

LEMMA FinalizeReadStep ==
  ASSUME MIInv, NEW p \in Threads, FinalizeRead(p)
  PROVE  MIInv'
<1> DEFINE op == IF row[p[1]].status = "REQUESTED" THEN "match" ELSE "accept"
           t == [proc[p] EXCEPT !.pc = "transition", !.op = op]
<1>1. /\ proc[p] \in Thread /\ job \in [Rides -> Job] /\ offer \subseteq Rides \X Drivers
      /\ driver \in [Drivers -> DriverStatuses] /\ told \subseteq Rides \X Drivers
      /\ cut \in [Rides -> Cuts] /\ p[1] \in Rides
      /\ Exists(p[1]) /\ ThreadOK(proc[p], row[p[1]]) /\ proc[p].pc = "finalize"
      /\ Finalizing(proc[p]) /\ row[p[1]].status \in Awaiting => proc[p].driver = claim[p[1]]
  BY AtWork DEF FinalizeRead
<1>2. UNCHANGED <<ridesVars, hedged, driver, offer, claim, cut>>
  BY DEF FinalizeRead
<1>3. CASE row[p[1]].status \in Awaiting
  <2>1. job' = job /\ told' = told
        /\ proc' = [proc EXCEPT ![p].pc = "transition", ![p].op = op]
    BY <1>3 DEF FinalizeRead
  <2>2. op \in {"match", "accept"}
    OBVIOUS
  <2>3. t \in Thread /\ t.pc = "transition" /\ t.op = op /\ t.driver = proc[p].driver
    BY <1>1, <2>2 DEF Thread
  <2> HIDE DEF op
  <2>4. proc' = [proc EXCEPT ![p] = t]
    BY <1>1, <2>1 DEF MIInv, MTypeOK, Thread
  <2> HIDE DEF t
  <2>5. row[p[1]].driver = NoDriver
    BY <1>1, <1>3 DEF MIInv, DriverFollowsStatus
  <2>6. Finalizing(proc[p]) /\ ThreadOK(t, row[p[1]])
    BY <1>1, <2>2, <2>3, <2>5 DEF ThreadOK, Finalizing
  <2>7. cut' \in [Rides -> Cuts] /\ told' \subseteq Rides \X Drivers
    BY <1>1, <1>2, <2>1, CutStays
  <2>8. Finalizing(t) /\ row[p[1]].status \in Awaiting => t.driver = claim[p[1]]
    BY <1>1, <2>3, <2>6
  <2> QED BY <1>1, <1>2, <2>1, <2>3, <2>4, <2>6, <2>7, <2>8, ThreadMoves
<1>4. CASE row[p[1]].status \notin Awaiting
  <2>1. Return(p)
    BY <1>4 DEF FinalizeRead
  <2> QED BY <1>2, <2>1, ThreadEnds, CutStays
<1> QED BY <1>3, <1>4

LEMMA ThreadObserveStep ==
  ASSUME MIInv, NEW p \in Threads, ThreadObserve(p)
  PROVE  MIInv'
<1> DEFINE status == row[p[1]].status
           t == [proc[p] EXCEPT !.pc = "commit", !.seen = status]
<1>1. /\ proc[p] \in Thread /\ job \in [Rides -> Job] /\ offer \subseteq Rides \X Drivers
      /\ driver \in [Drivers -> DriverStatuses] /\ told \subseteq Rides \X Drivers
      /\ cut \in [Rides -> Cuts] /\ p[1] \in Rides
      /\ Exists(p[1]) /\ ThreadOK(proc[p], row[p[1]]) /\ proc[p].pc = "transition"
      /\ Finalizing(proc[p]) /\ row[p[1]].status \in Awaiting => proc[p].driver = claim[p[1]]
  BY AtWork DEF ThreadObserve
<1>2. UNCHANGED <<ridesVars, hedged, driver, offer, claim, cut>>
  BY DEF ThreadObserve
<1>3. CASE AssertTransition(status, Target[proc[p].op])
  <2>1. job' = job /\ told' = told /\ proc' = [proc EXCEPT ![p] = t]
    BY <1>1, <1>3 DEF ThreadObserve, MIInv, MTypeOK, Thread
  <2>2. status \in Statuses
    BY <1>1 DEF MIInv, IInv, TypeOK, Snapshot, Exists
  <2>3. t \in Thread /\ t.pc = "commit" /\ t.seen = status /\ t.op = proc[p].op
        /\ t.driver = proc[p].driver
    BY <1>1, <2>2 DEF Thread
  <2> HIDE DEF t
  <2>4. (Finalizing(t) => Finalizing(proc[p])) /\ ThreadOK(t, row[p[1]])
    BY <1>1, <1>3, <2>3 DEF ThreadOK, Finalizing
  <2> QED BY <1>1, <1>2, <2>1, <2>3, <2>4, ThreadMoves
<1>4. CASE ~AssertTransition(status, Target[proc[p].op])
  <2>1. Throw(p)
    BY <1>4 DEF ThreadObserve
  <2> QED BY <1>2, <2>1, ThreadEnds, CutStays
<1> QED BY <1>3, <1>4

LEMMA MarkDriverStep ==
  ASSUME MIInv, NEW p \in Threads, MarkDriver(p)
  PROVE  MIInv'
<1> DEFINE t == [proc[p] EXCEPT !.pc = "release"]
<1>1. /\ proc[p] \in Thread /\ job \in [Rides -> Job] /\ offer \subseteq Rides \X Drivers
      /\ driver \in [Drivers -> DriverStatuses] /\ told \subseteq Rides \X Drivers
      /\ cut \in [Rides -> Cuts] /\ p[1] \in Rides
      /\ Exists(p[1]) /\ ThreadOK(proc[p], row[p[1]]) /\ proc[p].pc = "markDriver"
  BY AtWork DEF MarkDriver
<1>2. UNCHANGED <<ridesVars, hedged, offer, claim, job, told, cut>>
  BY DEF MarkDriver
<1>3. driver' \in [Drivers -> DriverStatuses]
  BY <1>1 DEF MarkDriver, DriverStatuses
<1>4. proc' = [proc EXCEPT ![p] = t]
  BY GotoMoves DEF MarkDriver
<1>5. t \in Thread /\ t.pc = "release" /\ t.driver = proc[p].driver
  BY <1>1 DEF Thread
<1> HIDE DEF t
<1>6. row[p[1]].status \notin Awaiting /\ ThreadOK(t, row[p[1]])
  BY <1>1, <1>5 DEF ThreadOK, Finalizing
<1> QED BY <1>1, <1>2, <1>3, <1>4, <1>5, <1>6, ThreadMoves

(* A thread cut short is counted within the bound. *)
LEMMA CutTypes ==
  ASSUME MIInv, NEW p \in Threads, NEW between \in BOOLEAN, CutShort(p, between)
  PROVE  /\ cut' \in [Rides -> Cuts] /\ p[1] \in Rides
         /\ cut'[p[1]].times = cut[p[1]].times + 1
         /\ cut[p[1]].deciding \/ between => cut'[p[1]].deciding
         /\ \A r \in Rides : r # p[1] => cut'[r] = cut[r]
<1>1. p[1] \in Rides /\ cut \in [Rides -> Cuts]
  BY AtWork
<1> DEFINE new == [times |-> cut[p[1]].times + 1, deciding |-> cut[p[1]].deciding \/ between]
<1>2. cut' = [cut EXCEPT ![p[1]] = new] /\ cut[p[1]].times < MaxCuts
  BY DEF CutShort
<1>3. cut[p[1]].times \in 0..MaxCuts /\ cut[p[1]].deciding \in BOOLEAN
  BY <1>1 DEF Cuts
<1>4. cut[p[1]].times + 1 \in 0..MaxCuts
  BY <1>2, <1>3, MatchingAssumption
<1>5. new \in Cuts
  BY <1>3, <1>4 DEF Cuts
<1> HIDE DEF new
<1>6. cut' \in [Rides -> Cuts] /\ cut'[p[1]] = new
      /\ \A r \in Rides : r # p[1] => cut'[r] = cut[r]
  BY <1>1, <1>2, <1>5
<1>7. new.times = cut[p[1]].times + 1
  BY DEF new
<1>8. new.deciding = (cut[p[1]].deciding \/ between)
  BY DEF new
<1>9. cut[p[1]].deciding \/ between => new.deciding
  BY <1>3, <1>8, Zenon
<1> QED BY <1>1, <1>6, <1>7, <1>9

LEMMA DecidesIsBoolean == \A t : Decides(t) \in BOOLEAN
BY DEF Decides

LEMMA CrashStep ==
  ASSUME MIInv, NEW p \in Threads, Crash(p)
  PROVE  MIInv'
<1>1. /\ job \in [Rides -> Job] /\ offer \subseteq Rides \X Drivers
      /\ driver \in [Drivers -> DriverStatuses] /\ told \subseteq Rides \X Drivers
      /\ p[1] \in Rides
  BY AtWork
<1>2. cut' \in [Rides -> Cuts]
  BY CutTypes, DecidesIsBoolean DEF Crash
<1>3. job' \in [Rides -> Job]
  BY <1>1 DEF Crash, Job
<1>4. /\ UNCHANGED <<ridesVars, hedged, driver, offer, claim, told>>
      /\ proc' = [proc EXCEPT ![p] = NoThread]
  BY DEF Crash
<1> QED BY <1>1, <1>2, <1>3, <1>4, NoThreadOK, ThreadMoves

LEMMA AwaitFailsStep ==
  ASSUME MIInv, NEW p \in Threads, AwaitFails(p)
  PROVE  MIInv'
<1>1. cut' \in [Rides -> Cuts]
  BY CutTypes, DecidesIsBoolean DEF AwaitFails
<1> QED BY <1>1, ThreadEnds DEF AwaitFails

(* SET NX: whoever finalizes a waiting ride holds its claim, so the claim  *)
(* is free only when nobody does.                                          *)
LEMMA ClaimStep ==
  ASSUME MIInv, NEW r \in Rides, NEW d \in Drivers, Claim(r, d)
  PROVE  MIInv'
<1> DEFINE p == <<r, d>>
           t == [proc[p] EXCEPT !.pc = "withdraw", !.driver = d]
<1>1. p \in Threads /\ p[1] = r
  BY DEF Threads
<1>2. /\ proc[p] \in Thread /\ job \in [Rides -> Job] /\ offer \subseteq Rides \X Drivers
      /\ driver \in [Drivers -> DriverStatuses] /\ told \subseteq Rides \X Drivers
      /\ cut \in [Rides -> Cuts] /\ Exists(r)
  BY <1>1, AtWork DEF Claim
<1>3. UNCHANGED <<ridesVars, hedged, driver, offer, job, told, cut>>
  BY DEF Claim
<1>4. CASE claim[r] = NoDriver
  <2>1. /\ claim' = [claim EXCEPT ![r] = d]
        /\ proc' = [proc EXCEPT ![p] = t]
    BY <1>1, <1>2, <1>4 DEF Claim, MIInv, MTypeOK, Thread
  <2>2. t \in Thread /\ t.pc = "withdraw" /\ t.driver = d
    BY <1>2 DEF Thread
  <2> HIDE DEF t
  <2>3. ThreadOK(t, row[r])
    BY <2>2 DEF ThreadOK
  <2>4. ASSUME NEW q \in Threads, q[1] = r, Finalizing(proc[q]), row[r].status \in Awaiting
        PROVE  FALSE
    <3>1. proc[q].driver = claim[r]
      BY <2>4 DEF MIInv, ClaimGuardsAcceptance
    <3>2. proc[q].driver \in Drivers
      BY <2>4, AtWork DEF ThreadOK
    <3> QED BY <1>4, <3>1, <3>2, RidesAssumption
  <2> QED BY <1>1, <1>2, <1>3, <2>1, <2>2, <2>3, <2>4, ClaimMoves
<1>5. CASE claim[r] # NoDriver
  <2>1. claim' = claim /\ proc' = [proc EXCEPT ![p] = NoThread]
    BY <1>5 DEF Claim
  <2> QED BY <1>1, <1>2, <1>3, <2>1, NoThreadOK, ThreadMoves
<1> QED BY <1>4, <1>5

(* DEL claim comes after ACCEPTED, when the claim guards nothing any more. *)
LEMMA ReleaseClaimStep ==
  ASSUME MIInv, NEW p \in Threads, ReleaseClaim(p)
  PROVE  MIInv'
<1>1. /\ offer \subseteq Rides \X Drivers /\ driver \in [Drivers -> DriverStatuses]
      /\ cut \in [Rides -> Cuts]
      /\ row[p[1]].status \notin Awaiting
  BY AtWork DEF ReleaseClaim, ThreadOK
<1>2. /\ proc' = [proc EXCEPT ![p] = NoThread]
      /\ job' \in [Rides -> Job] /\ told' \subseteq Rides \X Drivers
  BY EndTypes DEF ReleaseClaim
<1>3. /\ UNCHANGED <<ridesVars, hedged, driver, offer, cut>>
      /\ claim' = [claim EXCEPT ![p[1]] = NoDriver]
  BY DEF ReleaseClaim
<1> QED BY <1>1, <1>2, <1>3, NoThreadOK, ClaimMoves

(* The claim's TTL outlasts whoever finalizes under it. *)
LEMMA ClaimExpiresStep ==
  ASSUME "slow" \notin Faults, MIInv, NEW r \in Rides, ClaimExpires(r)
  PROVE  MIInv'
<1> DEFINE p == <<r, Worker>>
           t == proc[p]
<1>1. p \in Threads /\ p[1] = r
  BY DEF Threads
<1>2. /\ t \in Thread /\ job \in [Rides -> Job] /\ offer \subseteq Rides \X Drivers
      /\ driver \in [Drivers -> DriverStatuses] /\ told \subseteq Rides \X Drivers
      /\ cut \in [Rides -> Cuts] /\ (t.pc # "idle" => Exists(r)) /\ ThreadOK(t, row[r])
  BY <1>1, AtWork
<1>3. /\ UNCHANGED <<ridesVars, hedged, driver, offer, job, told, cut>>
      /\ claim' = [claim EXCEPT ![r] = NoDriver]
  BY DEF ClaimExpires
<1>4. proc' = [proc EXCEPT ![p] = t]
  BY <1>1 DEF ClaimExpires, MIInv, MTypeOK
<1>5. \A q \in Threads : q[1] = r => ~Finalizing(proc[q])
  BY DEF ClaimExpires, Threads
<1>6. ~Finalizing(t)
  BY <1>1, <1>5
<1> HIDE DEF t
<1> QED BY <1>1, <1>2, <1>3, <1>4, <1>5, <1>6, ClaimMoves

-----------------------------------------------------------------------------
(* A thread is fit for a ride: it is consistent with the row, and while    *)
(* the ride waits it finalizes for the claim's holder only.                *)
Fit(t, ride, holder) ==
  /\ ThreadOK(t, ride)
  /\ Finalizing(t) /\ ride.status \in Awaiting => t.driver = holder

(* A transaction, whoever runs it, that neither replaces a ride's driver   *)
(* nor gives a waiting ride to anyone but the claim's holder.              *)
LEMMA RideMoves ==
  ASSUME MIInv, NEW f \in Frame, CallOK(f), f.pc = "commit", Wins(f),
         Write(f.ride, Patched(row[f.ride], f)),
         restoring' = IF f.restore = NoDriver THEN restoring
                      ELSE [restoring EXCEPT ![<<f.ride, f.restore>>] = @ + 1],
         call' \in [Calls -> Frame \cup {Idle}],
         \A e \in Calls : call'[e] \in {Idle, call[e]},
         f.op = "accept" /\ row[f.ride].driver # NoDriver => f.who = row[f.ride].driver,
         f.op = "accept" /\ row[f.ride].status \in Awaiting => f.who = claim[f.ride],
         f.restore # NoDriver => f.restore = row[f.ride].driver
  PROVE  /\ DriverFollowsStatus' /\ CallersOnlyOperate' /\ RestoresBelong'
         /\ \A r \in Rides : Exists(r) =>
              Exists(r)' /\ (row[r].driver # NoDriver => row'[r].driver = row[r].driver)
         /\ \A r \in Rides, t \in Thread :
              Fit(t, row[r], claim[r]) => Fit(t, row'[r], claim[r])
<1> DEFINE old == row[f.ride]
           new == Patched(old, f)
<1>1. /\ f.ride \in Rides /\ f.op \in Ops
      /\ Exists(f.ride) /\ old \in Snapshot /\ new \in Snapshot
      /\ AssertTransition(old.status, Target[f.op])
  BY CommitIsLegal DEF CallOK, MIInv
<1>2. /\ row'[f.ride] = new
      /\ \A q \in Rides : q # f.ride => row'[q] = row[q]
  BY <1>1 DEF Write, MIInv, IInv, TypeOK
<1>3. /\ new.status = Target[f.op]
      /\ new.driver = (IF f.op = "accept" THEN f.who ELSE old.driver)
  BY DEF Patched
<1>4. /\ old.status \in Awaiting => old.driver = NoDriver
      /\ old.status = "ACCEPTED" => old.driver # NoDriver
  BY <1>1 DEF MIInv, DriverFollowsStatus
<1>5. f.op = "accept" => f.who \in Drivers /\ f.who # NoDriver
  BY RidesAssumption DEF CallOK
<1>6. /\ new.status \in Awaiting => f.op = "match" /\ old.status \in Awaiting
      /\ new.status = "ACCEPTED" => f.op = "accept"
      /\ f.op = "accept" => old.status \in {"MATCHING", "ACCEPTED"}
      /\ old.status = "COMPLETED" => new.status = "COMPLETED" /\ f.op # "accept"
  <2>1. old.status \in Statuses
    BY <1>1 DEF Snapshot
  <2> QED BY <1>1, <1>3, <2>1
          DEF Target, Ops, Statuses, Awaiting, AssertTransition, TRANSITIONS
<1>7. old.driver # NoDriver => new.driver = old.driver
  BY <1>3
<1>8. \A r \in Rides : Exists(r) => Exists(r)'
  BY <1>1, <1>2, AbsentIsNoSnapshot DEF Exists
<1>9. \A r \in Rides : row[r].driver # NoDriver => row'[r].driver = row[r].driver
  BY <1>2, <1>7
<1>10. DriverFollowsStatus'
  <2> SUFFICES ASSUME NEW r \in Rides, Exists(r)'
               PROVE  /\ row'[r].status \in Awaiting => row'[r].driver = NoDriver
                      /\ row'[r].status = "ACCEPTED" => row'[r].driver # NoDriver
    BY DEF DriverFollowsStatus, Awaiting
  <2>1. CASE r = f.ride
    BY <1>2, <1>3, <1>4, <1>5, <1>6, <2>1
  <2>2. CASE r # f.ride
    BY <1>2, <2>2 DEF MIInv, DriverFollowsStatus, Exists
  <2> QED BY <2>1, <2>2
<1>11. CallersOnlyOperate'
  <2> SUFFICES ASSUME NEW e \in Calls, call'[e] # Idle
               PROVE  /\ call'[e].op \in ApiOps
                      /\ call'[e].restore # NoDriver
                           => call'[e].restore = row'[call'[e].ride].driver
    BY DEF CallersOnlyOperate
  <2>1. call'[e] = call[e] /\ call[e] \in Frame
    BY DEF MIInv, IInv, TypeOK
  <2>2. /\ call[e].op \in ApiOps
        /\ call[e].restore # NoDriver => call[e].restore = row[call[e].ride].driver
    BY <2>1 DEF MIInv, CallersOnlyOperate
  <2>3. call[e].ride \in Rides
    BY <2>1 DEF Frame
  <2> QED BY <1>9, <2>1, <2>2, <2>3
<1>12. RestoresBelong'
  <2> SUFFICES ASSUME NEW r \in Rides, NEW d \in Drivers, restoring'[<<r, d>>] > 0
               PROVE  row'[r].status = "COMPLETED" /\ row'[r].driver = d
    BY DEF RestoresBelong
  <2>1. CASE restoring[<<r, d>>] > 0
    <3>1. row[r].status = "COMPLETED" /\ row[r].driver = d
      BY <2>1 DEF MIInv, RestoresBelong
    <3>2. d # NoDriver
      BY RidesAssumption
    <3> QED BY <1>2, <1>6, <1>9, <3>1, <3>2
  <2>2. CASE ~(restoring[<<r, d>>] > 0)
    <3>1. f.restore # NoDriver /\ r = f.ride /\ d = f.restore
      BY <1>1, <2>2 DEF MIInv, IInv, TypeOK, Frame
    <3>2. f.op = "complete"
      BY <3>1 DEF CallOK
    <3> QED BY <1>2, <1>3, <3>1, <3>2 DEF Target
  <2> QED BY <2>1, <2>2
<1>13. ASSUME NEW r \in Rides, NEW t \in Thread, Fit(t, row[r], claim[r])
       PROVE  Fit(t, row'[r], claim[r])
  <2>1. CASE r # f.ride
    BY <1>2, <1>13, <2>1
  <2>2. CASE r = f.ride
    <3>1. new.driver # NoDriver /\ t.pc \in {"transition", "commit"} /\ t.op = "accept"
            => new.driver = t.driver
      <4> SUFFICES ASSUME new.driver # NoDriver, t.pc \in {"transition", "commit"},
                          t.op = "accept"
                   PROVE  new.driver = t.driver
        OBVIOUS
      <4>1. CASE old.driver # NoDriver
        BY <1>7, <1>13, <2>2, <4>1 DEF Fit, ThreadOK
      <4>2. CASE old.driver = NoDriver
        <5>1. f.op = "accept" /\ old.status \in Awaiting
          BY <1>3, <1>4, <1>6, <4>2 DEF Awaiting
        <5>2. t.driver = claim[r]
          BY <1>13, <2>2, <5>1 DEF Fit, Finalizing
        <5> QED BY <1>3, <2>2, <5>1, <5>2
      <4> QED BY <4>1, <4>2
    <3>2. ThreadOK(t, new)
      BY <1>6, <1>13, <2>2, <3>1 DEF Fit, ThreadOK
    <3> QED BY <1>2, <1>6, <1>13, <2>2, <3>2 DEF Fit
  <2> QED BY <2>1, <2>2
<1> QED BY <1>8, <1>9, <1>10, <1>11, <1>12, <1>13

(* After a step on the rides the invariant holds again if the thread that  *)
(* took it, if any, and every other thread fit the rows as they now are.   *)
LEMMA RowMoves ==
  ASSUME MIInv, IInv', DriverFollowsStatus', CallersOnlyOperate', RestoresBelong',
         \A r \in Rides : Exists(r) => Exists(r)',
         UNCHANGED <<hedged, driver, offer, claim>>, cut' \in [Rides -> Cuts],
         job' \in [Rides -> Job], told' \subseteq Rides \X Drivers,
         NEW p \in Threads, NEW t \in Thread, proc' = [proc EXCEPT ![p] = t],
         t.pc # "idle" => Exists(p[1]),
         Fit(t, row'[p[1]], claim[p[1]]),
         \A q \in Threads : q # p => Fit(proc[q], row'[q[1]], claim[q[1]])
  PROVE  MIInv'
<1>1. /\ proc' \in [Threads -> Thread]
      /\ proc'[p] = t
      /\ \A q \in Threads : q # p => proc'[q] = proc[q]
  BY DEF MIInv, MTypeOK
<1>2. MTypeOK'
  BY <1>1 DEF MIInv, MTypeOK, IInv
<1>3. RideIsKnown'
  <2>1. ASSUME NEW q \in Threads, proc'[q].pc # "idle" PROVE Exists(q[1])'
    <3>1. q[1] \in Rides /\ Exists(q[1])
      BY <1>1, <2>1 DEF MIInv, RideIsKnown, Threads
    <3> QED BY <3>1
  <2>2. ASSUME NEW r \in Rides, NEW d \in Drivers, <<r, d>> \in offer' PROVE Exists(r)'
    BY <2>2 DEF MIInv, RideIsKnown
  <2> QED BY <2>1, <2>2 DEF RideIsKnown
<1>4. \A q \in Threads : Fit(proc'[q], row'[q[1]], claim'[q[1]])
  BY <1>1
<1>5. ThreadsOK'
  BY <1>4 DEF Fit, ThreadsOK
<1>6. ClaimGuardsAcceptance'
  BY <1>4 DEF Fit, ClaimGuardsAcceptance
<1> QED BY <1>2, <1>3, <1>5, <1>6 DEF MIInv

LEMMA ThreadsFit ==
  ASSUME MIInv
  PROVE  \A q \in Threads : Fit(proc[q], row[q[1]], claim[q[1]])
BY DEF MIInv, ThreadsOK, ClaimGuardsAcceptance, Fit

(* finalizeMatch's and handleNoDrivers' transactions. *)
LEMMA ThreadFrameFits ==
  ASSUME MIInv, NEW p \in Threads, proc[p].pc = "commit"
  PROVE  LET f == ThreadFrame(p) IN
         /\ f \in Frame /\ CallOK(f) /\ f.pc = "commit" /\ f.restore = NoDriver
         /\ f.ride = p[1] /\ f.op = proc[p].op /\ f.op \in {"match", "accept", "cancel"}
         /\ f.op = "accept" => f.who = proc[p].driver
<1> DEFINE f == ThreadFrame(p)
<1>1. /\ proc[p] \in Thread /\ ThreadOK(proc[p], row[p[1]]) /\ Exists(p[1]) /\ p[1] \in Rides
  BY AtWork
<1>2. /\ f.pc = "commit" /\ f.restore = NoDriver /\ f.ride = p[1] /\ f.op = proc[p].op
      /\ f.by = "SYSTEM" /\ f.fee = 0 /\ f.seen = proc[p].seen
      /\ f.who = (IF f.op = "accept" THEN proc[p].driver ELSE Rider)
      /\ f.reason = (IF f.op = "cancel" THEN "NO_DRIVER_FOUND" ELSE "none")
  BY DEF ThreadFrame
<1>3. f.op \in {"match", "accept", "cancel"}
  BY <1>1, <1>2 DEF ThreadOK
<1>4. f.op = "accept" => proc[p].driver \in Drivers
  BY <1>1, <1>2 DEF ThreadOK, Finalizing
<1>5. proc[p].seen \in Statuses \cup {"NONE"}
  BY <1>1 DEF Thread
<1>6. f \in Frame
  BY <1>1, <1>3, <1>4, <1>5 DEF ThreadFrame, Frame, Ops, Actors, RowReasons
<1>7. CallOK(f)
  BY <1>1, <1>2, <1>3, <1>4 DEF CallOK, ThreadOK
<1> QED BY <1>2, <1>3, <1>6, <1>7

(* A thread that accepts does so for the claim's holder, or again for the  *)
(* driver the ride already has: what RideMoves asks of it.                 *)
LEMMA ThreadWins ==
  ASSUME MIInv, NEW p \in Threads, proc[p].pc = "commit", Wins(ThreadFrame(p)),
         Write(p[1], Patched(row[p[1]], ThreadFrame(p))),
         UNCHANGED <<late, call, restoring>>
  PROVE  /\ IInv' /\ DriverFollowsStatus' /\ CallersOnlyOperate' /\ RestoresBelong'
         /\ \A r \in Rides : Exists(r) =>
              Exists(r)' /\ (row[r].driver # NoDriver => row'[r].driver = row[r].driver)
         /\ \A r \in Rides, t \in Thread :
              Fit(t, row[r], claim[r]) => Fit(t, row'[r], claim[r])
<1> DEFINE f == ThreadFrame(p)
<1>1. proc[p].pc = "commit" /\ Write(f.ride, Patched(row[f.ride], f))
      /\ UNCHANGED <<late, call, restoring>>
  BY DEF ThreadFrame
<1>2. /\ f \in Frame /\ CallOK(f) /\ f.pc = "commit" /\ f.restore = NoDriver
      /\ f.ride = p[1] /\ f.op = proc[p].op
      /\ f.op = "accept" => f.who = proc[p].driver
  BY <1>1, ThreadFrameFits
<1>3. /\ ThreadOK(proc[p], row[p[1]])
      /\ Finalizing(proc[p]) /\ row[p[1]].status \in Awaiting => proc[p].driver = claim[p[1]]
  BY AtWork
<1>4. call \in [Calls -> Frame \cup {Idle}]
  BY DEF MIInv, IInv, TypeOK
<1>5. /\ f.op = "accept" /\ row[f.ride].driver # NoDriver => f.who = row[f.ride].driver
      /\ f.op = "accept" /\ row[f.ride].status \in Awaiting => f.who = claim[f.ride]
  BY <1>1, <1>2, <1>3 DEF ThreadOK, Finalizing
<1>6. IInv
  BY DEF MIInv
<1> HIDE DEF f
<1>7. Wins(f)
  BY DEF f
<1>8. IInv'
  BY <1>1, <1>2, <1>4, <1>6, <1>7, WinningCommit
<1> QED BY <1>1, <1>2, <1>4, <1>5, <1>7, <1>8, RideMoves

(* What the transaction of finalizeMatch or handleNoDrivers does to the    *)
(* rides, whether its thread hears of it or not.                           *)
LEMMA ThreadWrites ==
  ASSUME MIInv, NEW p \in Threads, Wins(ThreadFrame(p)),
         ThreadCommit(p) \/ CommitUnanswered(p)
  PROVE  /\ proc[p].pc = "commit" /\ Write(p[1], Patched(row[p[1]], ThreadFrame(p)))
         /\ UNCHANGED <<late, call, restoring>>
BY DEF ThreadCommit, CommitUnanswered, ThreadFrame

LEMMA ThreadCommitStep ==
  ASSUME MIInv, NEW p \in Threads, ThreadCommit(p)
  PROVE  MIInv'
<1> DEFINE f == ThreadFrame(p)
<1>1. /\ proc[p] \in Thread /\ job \in [Rides -> Job] /\ told \subseteq Rides \X Drivers
      /\ Exists(p[1]) /\ p[1] \in Rides /\ proc[p].pc = "commit"
      /\ Fit(proc[p], row[p[1]], claim[p[1]])
  BY AtWork, ThreadsFit DEF ThreadCommit
<1>2. /\ UNCHANGED <<late, call, restoring, hedged, driver, offer, claim, cut>>
      /\ cut' \in [Rides -> Cuts]
  BY AtWork DEF ThreadCommit
<1>3. CASE ~Wins(f)
  <2>1. Throw(p) /\ UNCHANGED ridesVars
    BY <1>3 DEF ThreadCommit, ridesVars
  <2> QED BY <1>2, <2>1, ThreadEnds
<1>4. CASE Wins(f)
  <2>1. /\ IInv' /\ DriverFollowsStatus' /\ CallersOnlyOperate' /\ RestoresBelong'
        /\ \A r \in Rides : Exists(r) => Exists(r)'
        /\ \A r \in Rides, t \in Thread :
             Fit(t, row[r], claim[r]) => Fit(t, row'[r], claim[r])
    BY <1>4, ThreadWins, ThreadWrites
  <2>2. \A q \in Threads : Fit(proc[q], row'[q[1]], claim[q[1]])
    BY <2>1, ThreadsFit DEF MIInv, MTypeOK, Threads
  <2>3. row'[p[1]].status = Target[f.op] /\ f.op = proc[p].op
        /\ f.op \in {"match", "accept", "cancel"}
    <3>1. f.ride = p[1] /\ f.op = proc[p].op /\ f.op \in {"match", "accept", "cancel"}
      BY <1>1, ThreadFrameFits
    <3>2. Write(p[1], Patched(row[p[1]], f))
      BY <1>4, <3>1 DEF ThreadCommit
    <3> QED BY <1>1, <3>1, <3>2 DEF Write, Patched, MIInv, IInv, TypeOK
  <2>4. CASE f.op = "match"
    <3> DEFINE t == [proc[p] EXCEPT !.pc = "transition", !.op = "accept"]
    <3>1. proc' = [proc EXCEPT ![p] = t] /\ job' = job /\ told' = told
      BY <1>1, <1>4, <2>4 DEF ThreadCommit, MIInv, MTypeOK, Thread
    <3>2. t \in Thread /\ t.pc = "transition" /\ t.op = "accept" /\ t.driver = proc[p].driver
      BY <1>1 DEF Thread
    <3> HIDE DEF t
    <3>3. Finalizing(proc[p])
      BY <1>1, <2>3, <2>4 DEF Finalizing
    <3>4. row'[p[1]].driver = NoDriver
      <4>1. row'[p[1]].status \in Awaiting
        BY <2>3, <2>4 DEF Target, Awaiting
      <4>2. Exists(p[1])'
        BY <1>1, <2>1
      <4> QED BY <1>1, <2>1, <4>1, <4>2 DEF DriverFollowsStatus, Awaiting
    <3>5. Fit(t, row'[p[1]], claim[p[1]])
      BY <2>2, <3>2, <3>3, <3>4 DEF Fit, ThreadOK, Finalizing
    <3> QED BY <1>1, <1>2, <2>1, <2>2, <3>1, <3>2, <3>5, RowMoves
  <2>5. CASE f.op = "accept"
    <3> DEFINE t == [proc[p] EXCEPT !.pc = "markDriver"]
    <3>1. proc' = [proc EXCEPT ![p] = t] /\ job' = job /\ told' = told
      BY <1>4, <2>5, GotoMoves DEF ThreadCommit
    <3>2. t \in Thread /\ t.pc = "markDriver" /\ t.driver = proc[p].driver
      BY <1>1 DEF Thread
    <3> HIDE DEF t
    <3>3. Finalizing(proc[p])
      BY <1>1, <2>3, <2>5 DEF Finalizing
    <3>4. row'[p[1]].status \notin Awaiting
      BY <2>3, <2>5 DEF Target, Awaiting
    <3>5. Fit(t, row'[p[1]], claim[p[1]])
      BY <2>2, <3>2, <3>3, <3>4 DEF Fit, ThreadOK, Finalizing
    <3> QED BY <1>1, <1>2, <2>1, <2>2, <3>1, <3>2, <3>5, RowMoves
  <2>6. CASE f.op = "cancel"
    <3>1. Return(p)
      BY <1>4, <2>6 DEF ThreadCommit
    <3>2. /\ proc' = [proc EXCEPT ![p] = NoThread]
          /\ job' \in [Rides -> Job] /\ told' \subseteq Rides \X Drivers
      BY <3>1, EndTypes
    <3>3. Fit(NoThread, row'[p[1]], claim[p[1]])
      BY NoThreadOK DEF Fit
    <3> QED BY <1>2, <2>1, <2>2, <3>2, <3>3, NoThreadOK, RowMoves
  <2> QED BY <2>3, <2>4, <2>5, <2>6
<1> QED BY <1>3, <1>4

(* A transaction whose reply is lost: what it wrote stays, the thread ends. *)
LEMMA CommitUnansweredStep ==
  ASSUME MIInv, NEW p \in Threads, CommitUnanswered(p)
  PROVE  MIInv'
<1> DEFINE f == ThreadFrame(p)
<1>1. Wins(f) /\ Throw(p) /\ UNCHANGED <<hedged, driver, offer, claim>>
  BY DEF CommitUnanswered
<1>2. cut' \in [Rides -> Cuts]
  BY CutTypes DEF CommitUnanswered
<1>3. /\ IInv' /\ DriverFollowsStatus' /\ CallersOnlyOperate' /\ RestoresBelong'
      /\ \A r \in Rides : Exists(r) => Exists(r)'
      /\ \A r \in Rides, t \in Thread :
           Fit(t, row[r], claim[r]) => Fit(t, row'[r], claim[r])
  BY <1>1, ThreadWins, ThreadWrites
<1>4. \A q \in Threads : Fit(proc[q], row'[q[1]], claim[q[1]])
  BY <1>3, ThreadsFit DEF MIInv, MTypeOK, Threads
<1>5. /\ proc' = [proc EXCEPT ![p] = NoThread]
      /\ job' \in [Rides -> Job] /\ told' \subseteq Rides \X Drivers
  BY <1>1, EndTypes
<1>6. Fit(NoThread, row'[p[1]], claim[p[1]])
  BY NoThreadOK DEF Fit
<1> QED BY <1>1, <1>2, <1>3, <1>4, <1>5, <1>6, NoThreadOK, RowMoves

-----------------------------------------------------------------------------
(* The rider's and the driver's own calls.  Theirs never accept, so they   *)
(* leave the ride's driver alone.                                          *)
LEMMA RideStepIsNext ==
  ASSUME MIInv, RideStep
  PROVE  Next /\ IInv' /\ UNCHANGED matchVars
<1>1. Next
  BY MatchingAssumption DEF RideStep, Next, Arrives, ApiOps
<1> QED BY <1>1, StepIInv DEF RideStep, MIInv

(* A call that moves on without touching a row. *)
LEMMA CallMoves ==
  ASSUME MIInv, NEW c \in Calls, NEW X \in Frame \cup {Idle},
         X # Idle => /\ X.op \in ApiOps
                     /\ X.restore # NoDriver => X.restore = row[X.ride].driver,
         call' = [call EXCEPT ![c] = X],
         UNCHANGED <<row, log, late, restoring, matchVars>>, IInv'
  PROVE  MIInv'
<1>1. row' = row /\ restoring' = restoring
      /\ UNCHANGED <<hedged, driver, offer, claim, job, proc, told, cut>>
  BY DEF matchVars
<1>2. CallersOnlyOperate'
  <2> SUFFICES ASSUME NEW e \in Calls, call'[e] # Idle
               PROVE  /\ call'[e].op \in ApiOps
                      /\ call'[e].restore # NoDriver
                           => call'[e].restore = row[call'[e].ride].driver
    BY <1>1 DEF CallersOnlyOperate
  <2>1. call \in [Calls -> Frame \cup {Idle}]
    BY DEF MIInv, IInv, TypeOK
  <2>2. call'[e] = IF e = c THEN X ELSE call[e]
    BY <2>1
  <2>3. CASE e = c
    BY <2>2, <2>3
  <2>4. CASE e # c
    BY <2>2, <2>4 DEF MIInv, CallersOnlyOperate
  <2> QED BY <2>3, <2>4
<1>3. DriverFollowsStatus' /\ RestoresBelong' /\ RideIsKnown'
  BY <1>1 DEF MIInv, DriverFollowsStatus, RestoresBelong, RideIsKnown, Exists
<1>4. MTypeOK'
  BY <1>1 DEF MIInv, MTypeOK, IInv
<1>5. ThreadsOK' /\ ClaimGuardsAcceptance'
  BY <1>1 DEF MIInv, ThreadsOK, ThreadOK, ClaimGuardsAcceptance, Finalizing
<1> QED BY <1>2, <1>3, <1>4, <1>5 DEF MIInv

LEMMA ArrivesKeeps ==
  ASSUME MIInv, Arrives(RideOps), UNCHANGED matchVars, IInv'
  PROVE  MIInv'
<1>1. PICK c \in Calls, op \in RideOps, r \in Rides, who \in Actors,
           by \in Cancellers \cup {"SYSTEM"}, reason \in Reasons \cup {"none"} :
        Begin(c, op, r, who, by, reason)
  BY DEF Arrives
<1> DEFINE X == [pc |-> IF op \in {"complete", "cancel", "rate"} THEN "preread"
                                                                 ELSE "transition",
                 op |-> op, ride |-> r, who |-> IF op = "accept" THEN who ELSE Rider,
                 by |-> by, reason |-> reason, fee |-> 0, seen |-> "NONE", restore |-> NoDriver]
<1>2. call' = [call EXCEPT ![c] = X] /\ UNCHANGED <<row, log, late, restoring>>
  BY <1>1 DEF Begin
<1>3. op \in ApiOps /\ op \in Ops
  BY MatchingAssumption DEF ApiOps
<1>4. X \in Frame /\ X.op = op /\ X.restore = NoDriver
  BY <1>3 DEF Frame, RowReasons, Actors
<1> HIDE DEF X
<1> QED BY <1>2, <1>3, <1>4, CallMoves

LEMMA PreReadKeeps ==
  ASSUME MIInv, NEW c \in Calls, PreRead(c), UNCHANGED matchVars, IInv'
  PROVE  MIInv'
<1> DEFINE f == call[c]
           ride == row[f.ride]
           fee == IF f.op = "cancel" THEN CancellationFee(f.ride, f.by) ELSE 0
           restore == IF f.op = "complete" THEN ride.driver ELSE NoDriver
           Y == [f EXCEPT !.pc = "transition", !.fee = fee, !.restore = restore]
<1>1. f \in Frame /\ CallOK(f) /\ f.op \in ApiOps
  BY DEF PreRead, MIInv, IInv, TypeOK, CallsOK, CallersOnlyOperate
<1>2. fee \in {0, 50} /\ restore \in Drivers \cup {NoDriver}
  <2>1. ride \in Snapshot
    BY <1>1 DEF MIInv, IInv, TypeOK, CallOK, Exists, Frame
  <2> QED BY <2>1 DEF CancellationFee, Snapshot
<1>3. UNCHANGED <<row, log, late, restoring>>
  BY DEF PreRead
<1>4. CASE PreCondition(f.op, ride.status)
  <2>1. call' = [call EXCEPT ![c] = Y]
    BY <1>4 DEF PreRead
  <2>2. restore # NoDriver => restore = ride.driver
    OBVIOUS
  <2> HIDE DEF fee, restore
  <2>3. /\ Y \in Frame /\ Y.op = f.op /\ Y.ride = f.ride
        /\ Y.restore # NoDriver => Y.restore = row[Y.ride].driver
    BY <1>1, <1>2, <2>2 DEF Frame
  <2> HIDE DEF Y
  <2> QED BY <1>1, <1>3, <2>1, <2>3, CallMoves
<1>5. CASE ~PreCondition(f.op, ride.status)
  <2>1. call' = [call EXCEPT ![c] = Idle]
    BY <1>5 DEF PreRead
  <2> QED BY <1>3, <2>1, CallMoves
<1> QED BY <1>4, <1>5

LEMMA ObserveKeeps ==
  ASSUME MIInv, NEW c \in Calls, Observe(c), UNCHANGED matchVars, IInv'
  PROVE  MIInv'
<1> DEFINE f == call[c]
           status == row[f.ride].status
           Y == [f EXCEPT !.pc = "commit", !.seen = status]
<1>1. f \in Frame /\ CallOK(f) /\ f.op \in ApiOps
      /\ (f.restore # NoDriver => f.restore = row[f.ride].driver)
  BY DEF Observe, MIInv, IInv, TypeOK, CallsOK, CallersOnlyOperate
<1>2. status \in Statuses
  BY <1>1 DEF MIInv, IInv, TypeOK, CallOK, Exists, Frame, Snapshot
<1>3. UNCHANGED <<row, log, late, restoring>>
  BY DEF Observe
<1>4. CASE AssertTransition(status, Target[f.op])
  <2>1. call' = [call EXCEPT ![c] = Y]
    BY <1>4 DEF Observe
  <2>2. /\ Y \in Frame /\ Y.op = f.op /\ Y.ride = f.ride /\ Y.restore = f.restore
    BY <1>1, <1>2 DEF Frame
  <2> HIDE DEF Y
  <2> QED BY <1>1, <1>3, <2>1, <2>2, CallMoves
<1>5. CASE ~AssertTransition(status, Target[f.op])
  <2>1. call' = [call EXCEPT ![c] = Idle]
    BY <1>5 DEF Observe
  <2> QED BY <1>3, <2>1, CallMoves
<1> QED BY <1>4, <1>5

(* The frame of a call at its commit meets RideMoves. *)
LEMMA CallWins ==
  ASSUME MIInv, NEW c \in Calls, Commit(c), Wins(call[c])
  PROVE  /\ DriverFollowsStatus' /\ CallersOnlyOperate' /\ RestoresBelong'
         /\ \A r \in Rides : Exists(r) =>
              Exists(r)' /\ (row[r].driver # NoDriver => row'[r].driver = row[r].driver)
         /\ \A r \in Rides, t \in Thread :
              Fit(t, row[r], claim[r]) => Fit(t, row'[r], claim[r])
<1> DEFINE f == call[c]
<1>1. /\ f \in Frame /\ CallOK(f) /\ f.pc = "commit" /\ f.op \in ApiOps
      /\ f.restore # NoDriver => f.restore = row[f.ride].driver
  BY DEF Commit, MIInv, IInv, TypeOK, CallsOK, CallersOnlyOperate
<1>2. f.op # "accept"
  BY <1>1 DEF ApiOps
<1>3. /\ Write(f.ride, Patched(row[f.ride], f))
      /\ restoring' = IF f.restore = NoDriver THEN restoring
                      ELSE [restoring EXCEPT ![<<f.ride, f.restore>>] = @ + 1]
  BY DEF Commit, Spawns
<1>4. /\ call' \in [Calls -> Frame \cup {Idle}]
      /\ \A e \in Calls : call'[e] \in {Idle, call[e]}
  BY DEF Commit, MIInv, IInv, TypeOK
<1>5. Wins(f)
  OBVIOUS
<1> HIDE DEF f
<1> QED BY <1>1, <1>2, <1>3, <1>4, <1>5, RideMoves

LEMMA CommitKeeps ==
  ASSUME MIInv, NEW c \in Calls, Commit(c), UNCHANGED matchVars, IInv'
  PROVE  MIInv'
<1>1. CASE ~Wins(call[c])
  <2>1. call' = [call EXCEPT ![c] = Idle] /\ UNCHANGED <<row, log, late, restoring>>
    BY <1>1 DEF Commit, Spawns
  <2> QED BY <2>1, CallMoves
<1>2. CASE Wins(call[c])
  <2> DEFINE p == <<call[c].ride, Worker>>
             t == proc[p]
  <2>1. /\ DriverFollowsStatus' /\ CallersOnlyOperate' /\ RestoresBelong'
        /\ \A r \in Rides : Exists(r) => Exists(r)'
        /\ \A r \in Rides, u \in Thread :
             Fit(u, row[r], claim[r]) => Fit(u, row'[r], claim[r])
    BY <1>2, CallWins
  <2>2. \A q \in Threads : Fit(proc[q], row'[q[1]], claim[q[1]])
    BY <2>1, ThreadsFit DEF MIInv, MTypeOK, Threads
  <2>3. call[c].ride \in Rides
    BY DEF Commit, MIInv, IInv, TypeOK, Frame
  <2>4. p \in Threads
    BY <2>3 DEF Threads
  <2>5. /\ UNCHANGED <<hedged, driver, offer, claim, cut>>
        /\ job' \in [Rides -> Job] /\ told' \subseteq Rides \X Drivers
        /\ proc' = [proc EXCEPT ![p] = t]
    BY <2>4 DEF matchVars, MIInv, MTypeOK
  <2>6. t \in Thread /\ (t.pc # "idle" => Exists(p[1]))
    BY <2>4, AtWork
  <2> HIDE DEF p
  <2> QED BY <2>1, <2>2, <2>4, <2>5, <2>6, RowMoves, CutStays
<1> QED BY <1>1, <1>2

(* No thread, call or restore knows a ride before it is created. *)
LEMMA CreateRideKeeps ==
  ASSUME MIInv, NEW r \in Rides, CreateRide(r), UNCHANGED matchVars, IInv'
  PROVE  MIInv'
<1>1. /\ row[r] = Absent
      /\ row'[r].status = "REQUESTED" /\ row'[r].driver = NoDriver
      /\ \A q \in Rides : q # r => row'[q] = row[q]
      /\ call' = call /\ restoring' = restoring
  BY DEF CreateRide, Exists, Write, MIInv, IInv, TypeOK
<1>2. \A q \in Rides : Exists(q) => Exists(q)' /\ row'[q] = row[q]
  BY <1>1 DEF Exists
<1>3. DriverFollowsStatus'
  BY <1>1 DEF MIInv, DriverFollowsStatus, Exists
<1>4. CallersOnlyOperate'
  <2> SUFFICES ASSUME NEW e \in Calls, call[e] # Idle
               PROVE  /\ call[e].op \in ApiOps
                      /\ call[e].restore # NoDriver
                           => call[e].restore = row'[call[e].ride].driver
    BY <1>1 DEF CallersOnlyOperate
  <2>1. call[e].ride \in Rides /\ Exists(call[e].ride)
    BY DEF MIInv, IInv, TypeOK, CallsOK, CallOK, Frame
  <2> QED BY <1>2, <2>1 DEF MIInv, CallersOnlyOperate
<1>5. RestoresBelong'
  <2> SUFFICES ASSUME NEW q \in Rides, NEW d \in Drivers, restoring[<<q, d>>] > 0
               PROVE  row'[q].status = "COMPLETED" /\ row'[q].driver = d
    BY <1>1 DEF RestoresBelong
  <2>1. row[q].status = "COMPLETED" /\ row[q].driver = d /\ Exists(q)
    BY DEF MIInv, IInv, RestoresBelong, RestoresFollowCompletion
  <2> QED BY <1>2, <2>1
<1>6. \A q \in Threads : Fit(proc[q], row'[q[1]], claim[q[1]])
  <2> SUFFICES ASSUME NEW q \in Threads PROVE Fit(proc[q], row'[q[1]], claim[q[1]])
    OBVIOUS
  <2>1. CASE proc[q].pc = "idle"
    BY <2>1 DEF Fit, ThreadOK, Finalizing
  <2>2. CASE proc[q].pc # "idle"
    <3>1. row'[q[1]] = row[q[1]]
      BY <1>2, <2>2, AtWork
    <3> QED BY <3>1, ThreadsFit
  <2> QED BY <2>1, <2>2
<1> DEFINE p == <<r, Worker>>
           t == proc[p]
<1>7. p \in Threads
  BY DEF Threads
<1>8. /\ UNCHANGED <<hedged, driver, offer, claim, cut>>
      /\ job' \in [Rides -> Job] /\ told' \subseteq Rides \X Drivers
      /\ proc' = [proc EXCEPT ![p] = t]
  BY <1>7 DEF matchVars, MIInv, MTypeOK
<1>9. t \in Thread /\ (t.pc # "idle" => Exists(p[1]))
  BY <1>7, AtWork
<1> HIDE DEF p
<1> QED BY <1>2, <1>3, <1>4, <1>5, <1>6, <1>7, <1>8, <1>9, RowMoves, CutStays

LEMMA RestoreDriverStep ==
  ASSUME MIInv, NEW r \in Rides, NEW d \in Drivers, RestoreDriver(r, d)
  PROVE  MIInv'
<1>1. /\ RestoreEnds(r, d)
      /\ UNCHANGED <<row, call, hedged, offer, claim, job, proc, told, cut>>
  BY DEF RestoreDriver, RestoreEnds
<1>2. IInv'
  BY <1>1, StepIInv DEF Next, MIInv
<1>3. driver' \in [Drivers -> DriverStatuses]
  BY DEF RestoreDriver, MIInv, MTypeOK, DriverStatuses
<1>4. \A q \in Rides, e \in Drivers : restoring'[<<q, e>>] > 0 => restoring[<<q, e>>] > 0
  <2>1. restoring \in [Rides \X Drivers -> Nat] /\ <<r, d>> \in Rides \X Drivers
    BY DEF MIInv, IInv, TypeOK
  <2>2. restoring[<<r, d>>] \in Nat /\ restoring[<<r, d>>] > 0
    BY <1>1, <2>1 DEF RestoreEnds
  <2>3. restoring' = [restoring EXCEPT ![<<r, d>>] = restoring[<<r, d>>] - 1]
    BY <1>1 DEF RestoreEnds
  <2> QED BY <2>1, <2>2, <2>3
<1>5. RestoresBelong'
  BY <1>1, <1>4 DEF MIInv, RestoresBelong
<1>6. DriverFollowsStatus' /\ CallersOnlyOperate' /\ RideIsKnown'
  BY <1>1 DEF MIInv, DriverFollowsStatus, CallersOnlyOperate, RideIsKnown, Exists
<1>7. ThreadsOK' /\ ClaimGuardsAcceptance'
  BY <1>1 DEF MIInv, ThreadsOK, ThreadOK, ClaimGuardsAcceptance, Finalizing
<1>8. MTypeOK'
  BY <1>1, <1>2, <1>3 DEF MIInv, MTypeOK, IInv
<1> QED BY <1>2, <1>5, <1>6, <1>7, <1>8 DEF MIInv

-----------------------------------------------------------------------------
LEMMA InitMIInv == ASSUME MInit PROVE MIInv
<1>1. IInv
  BY InitIInv DEF MInit
<1>2. MTypeOK
  BY <1>1, NoThreadOK, MatchingAssumption DEF IInv, MTypeOK, MInit, Job, Cuts,
     DriverStatuses
<1>3. \A p \in Threads : proc[p] = NoThread
  BY DEF MInit
<1>4. RideIsKnown /\ ThreadsOK /\ ClaimGuardsAcceptance
  BY <1>3, NoThreadOK DEF RideIsKnown, ThreadsOK, ClaimGuardsAcceptance, MInit
<1>5. DriverFollowsStatus /\ CallersOnlyOperate /\ RestoresBelong
  BY DEF MInit, Init, DriverFollowsStatus, CallersOnlyOperate, RestoresBelong, Exists
<1> QED BY <1>1, <1>2, <1>4, <1>5 DEF MIInv

(* A step of the rider, the driver or RidesService keeps the invariant. *)
LEMMA RideStepStep ==
  ASSUME MIInv, RideStep
  PROVE  MIInv'
<1>1. IInv' /\ UNCHANGED matchVars
  BY RideStepIsNext
<1>2. ASSUME NEW r \in Rides, CreateRide(r) PROVE MIInv'
  BY <1>1, <1>2, CreateRideKeeps
<1>3. CASE Arrives(RideOps)
  BY <1>1, <1>3, ArrivesKeeps
<1>4. ASSUME NEW c \in Calls, PreRead(c) PROVE MIInv'
  BY <1>1, <1>4, PreReadKeeps
<1>5. ASSUME NEW c \in Calls, Observe(c) PROVE MIInv'
  BY <1>1, <1>5, ObserveKeeps
<1>6. ASSUME NEW c \in Calls, Commit(c) PROVE MIInv'
  BY <1>1, <1>6, CommitKeeps
<1> QED BY <1>2, <1>3, <1>4, <1>5, <1>6 DEF RideStep

(* Everything that moves: one case per group of actions in MNext. *)
LEMMA StepMIInv ==
  ASSUME "slow" \notin Faults, MIInv, [MNext]_vars
  PROVE  MIInv'
<1>1. CASE RideStep
  BY <1>1, RideStepStep
<1>2. CASE MRest \/ UNCHANGED vars
  <2>1. UNCHANGED <<ridesVars, hedged, driver, offer, claim, job, proc, told, cut>>
    BY <1>2 DEF MRest, Rest, vars, matchVars
  <2> QED BY <2>1, KeysMove DEF MIInv, MTypeOK
<1>3. ASSUME NEW r \in Rides, Enqueue(r) \/ WorkerStep(r) \/ ClaimExpires(r)
      PROVE  MIInv'
  <2>1. CASE Enqueue(r)
    BY <2>1, EnqueueStep
  <2>2. CASE WorkerStep(r)
    BY <2>2, MatchRideStep, FindDriversStep, SendOfferStep, WindowEndsStep, PollClaimStep,
       NoDriversStep, CancelPreReadStep DEF WorkerStep
  <2>3. CASE ClaimExpires(r)
    BY <2>3, ClaimExpiresStep
  <2> QED BY <1>3, <2>1, <2>2, <2>3
<1>4. ASSUME NEW r \in Rides, NEW d \in Drivers,
             \/ Accept(r, d) \/ Reject(r, d) \/ HandlerStep(r, d)
             \/ OfferExpires(r, d) \/ RestoreDriver(r, d)
      PROVE  MIInv'
  <2>1. CASE Accept(r, d) \/ HandlerStep(r, d)
    BY <2>1, AcceptStep, ClaimStep, WithdrawStep DEF HandlerStep
  <2>2. CASE Reject(r, d) \/ OfferExpires(r, d)
    BY <2>2, OffersEnd
  <2>3. CASE RestoreDriver(r, d)
    BY <2>3, RestoreDriverStep
  <2> QED BY <1>4, <2>1, <2>2, <2>3
<1>5. ASSUME NEW p \in Threads,
             ThreadStep(p) \/ Crash(p) \/ AwaitFails(p) \/ CommitUnanswered(p)
      PROVE  MIInv'
  <2>1. CASE ThreadStep(p)
    BY <2>1, FinalizeReadStep, ThreadObserveStep, ThreadCommitStep, MarkDriverStep,
       ReleaseClaimStep DEF ThreadStep
  <2> QED BY <1>5, <2>1, CrashStep, AwaitFailsStep, CommitUnansweredStep
<1>6. ASSUME NEW d \in Drivers, NEW s \in StatusChoices, SetStatus(d, s)
      PROVE  MIInv'
  BY <1>6, SetStatusStep
<1> QED BY <1>1, <1>2, <1>3, <1>4, <1>5, <1>6 DEF MNext

-----------------------------------------------------------------------------
(* What each step does to the rides: nothing, a step of Rides, or the      *)
(* transaction of a thread.                                                *)
LEMMA StepsOnRides ==
  ASSUME [MNext]_vars
  PROVE  \/ UNCHANGED <<row, log>>
         \/ RideStep
         \/ \E p \in Threads : ThreadCommit(p) \/ CommitUnanswered(p)
<1>1. CASE MRest \/ UNCHANGED vars
  BY <1>1 DEF MRest, Rest, vars, ridesVars
<1>2. ASSUME NEW r \in Rides, Enqueue(r) \/ WorkerStep(r) \/ ClaimExpires(r)
      PROVE  UNCHANGED <<row, log>>
  BY <1>2 DEF Enqueue, WorkerStep, ClaimExpires, MatchRide, FindDrivers, SendOffer,
     WindowEnds, PollClaim, NoDrivers, CancelPreRead, ridesVars
<1>3. ASSUME NEW r \in Rides, NEW d \in Drivers,
             \/ Accept(r, d) \/ Reject(r, d) \/ HandlerStep(r, d)
             \/ OfferExpires(r, d) \/ RestoreDriver(r, d)
      PROVE  UNCHANGED <<row, log>>
  BY <1>3 DEF Accept, Reject, HandlerStep, Claim, Withdraw, OfferExpires, RestoreDriver,
     RestoreEnds, ridesVars
<1>4. ASSUME NEW p \in Threads, ThreadStep(p) \/ Crash(p) \/ AwaitFails(p),
             ~ThreadCommit(p)
      PROVE  UNCHANGED <<row, log>>
  BY <1>4 DEF ThreadStep, FinalizeRead, ThreadObserve, MarkDriver, ReleaseClaim, Crash,
     AwaitFails, ridesVars
<1>5. ASSUME NEW d \in Drivers, NEW s \in StatusChoices, SetStatus(d, s)
      PROVE  UNCHANGED <<row, log>>
  BY <1>5 DEF SetStatus, ridesVars
<1> QED BY <1>1, <1>2, <1>3, <1>4, <1>5 DEF MNext

(* No step replaces the driver of a ride. *)
LEMMA StepKeepsDrivers ==
  ASSUME MIInv, [MNext]_vars, NEW r \in Rides, Exists(r), row[r].driver # NoDriver
  PROVE  row'[r].driver = row[r].driver
<1>1. CASE UNCHANGED <<row, log>>
  BY <1>1
<1>2. ASSUME NEW p \in Threads, ThreadCommit(p) \/ CommitUnanswered(p)
      PROVE  row'[r].driver = row[r].driver
  <2>1. CASE Wins(ThreadFrame(p))
    BY <1>2, <2>1, ThreadWins, ThreadWrites
  <2>2. CASE ~Wins(ThreadFrame(p))
    BY <1>2, <2>2 DEF ThreadCommit, CommitUnanswered
  <2> QED BY <2>1, <2>2
<1>3. ASSUME NEW c \in Calls, Commit(c)
      PROVE  row'[r].driver = row[r].driver
  <2>1. CASE Wins(call[c])
    BY <1>3, <2>1, CallWins
  <2>2. CASE ~Wins(call[c])
    BY <1>3, <2>2 DEF Commit
  <2> QED BY <2>1, <2>2
<1>4. ASSUME NEW q \in Rides, CreateRide(q)
      PROVE  row'[r].driver = row[r].driver
  <2>1. q # r
    BY <1>4 DEF CreateRide
  <2>2. \E new : row' = [row EXCEPT ![q] = new]
    BY <1>4 DEF CreateRide, Write
  <2>3. row \in [Rides -> Snapshot \cup {Absent}]
    BY DEF MIInv, IInv, TypeOK
  <2> QED BY <2>1, <2>2, <2>3
<1>5. CASE Arrives(RideOps) \/ \E c \in Calls : PreRead(c) \/ Observe(c)
  <2>1. CASE Arrives(RideOps)
    BY <2>1 DEF Arrives, Begin
  <2>2. CASE \E c \in Calls : PreRead(c) \/ Observe(c)
    BY <2>2 DEF PreRead, Observe
  <2> QED BY <1>5, <2>1, <2>2
<1>6. CASE RideStep
  BY <1>3, <1>4, <1>5, <1>6 DEF RideStep
<1> QED BY <1>1, <1>2, <1>6, StepsOnRides

(* Every step of the composition is an abstract step of the life cycle. *)
LEMMA MStepRefines ==
  ASSUME MIInv, [MNext]_vars
  PROVE  Lifecycle!Next \/ UNCHANGED log
<1>1. IInv
  BY DEF MIInv
<1>2. CASE UNCHANGED <<row, log>>
  BY <1>2
<1>3. CASE RideStep
  BY <1>1, <1>3, RideStepIsNext, StepRefines
<1>4. ASSUME NEW p \in Threads, ThreadCommit(p) \/ CommitUnanswered(p)
      PROVE  Lifecycle!Next \/ UNCHANGED log
  <2> DEFINE f == ThreadFrame(p)
  <2>1. CASE Wins(f)
    <3>1. proc[p].pc = "commit" /\ Write(f.ride, Patched(row[f.ride], f))
      BY <1>4, <2>1 DEF ThreadCommit, CommitUnanswered
    <3>2. f \in Frame /\ CallOK(f) /\ f.pc = "commit"
      BY <3>1, ThreadFrameFits
    <3> HIDE DEF f
    <3> QED BY <1>1, <2>1, <3>1, <3>2, WinRefines
  <2>2. CASE ~Wins(f)
    BY <1>4, <2>2 DEF ThreadCommit, CommitUnanswered
  <2> QED BY <2>1, <2>2
<1> QED BY <1>2, <1>3, <1>4, StepsOnRides

-----------------------------------------------------------------------------
(* MIInv holds in every reachable state of the composition, as long as no  *)
(* thread stays between two of its awaits past the claim's TTL.            *)
THEOREM MInductive ==
  ASSUME "slow" \notin Faults
  PROVE  MSpec => []MIInv
<1>1. MInit => MIInv
  BY InitMIInv
<1>2. MIInv /\ [MNext]_vars => MIInv'
  BY StepMIInv
<1> QED BY <1>1, <1>2, PTL DEF MSpec

(* Every variable of the dispatch engine keeps its shape. *)
THEOREM MTypeCorrect ==
  ASSUME "slow" \notin Faults
  PROVE  MSpec => []MTypeOK
<1>1. MIInv => MTypeOK
  BY DEF MIInv
<1> QED BY <1>1, MInductive, PTL

(* While a ride waits, only the claim's holder is being given it, whatever *)
(* the number of drivers, retries and crashes.                             *)
THEOREM ClaimCorrect ==
  ASSUME "slow" \notin Faults
  PROVE  MSpec => []ClaimGuardsAcceptance
<1>1. MIInv => ClaimGuardsAcceptance
  BY DEF MIInv
<1> QED BY <1>1, MInductive, PTL

(* A spawned restore is for the driver the ride still has. *)
THEOREM RestoreCorrect ==
  ASSUME "slow" \notin Faults
  PROVE  MSpec => []RestoresBelong
<1>1. MIInv => RestoresBelong
  BY DEF MIInv
<1> QED BY <1>1, MInductive, PTL

(* A ride that has a driver never gets another one. *)
THEOREM AssignmentCorrect ==
  ASSUME "slow" \notin Faults
  PROVE  MSpec => AssignmentIsFinal
<1>1. MIInv /\ [MNext]_vars
        => [\A r \in Rides : Exists(r) /\ row[r].driver # NoDriver
                               => row'[r].driver = row[r].driver]_vars
  BY StepKeepsDrivers
<1> QED BY <1>1, MInductive, PTL DEF MSpec, AssignmentIsFinal

(* Dispatch composed with RidesService still implements the life cycle. *)
THEOREM MRefinement ==
  ASSUME "slow" \notin Faults
  PROVE  MSpec => LifecycleSpec
<1>1. MInit => Lifecycle!Init
  BY DEF MInit, Init, Lifecycle!Init
<1>2. MIInv /\ [MNext]_vars => [Lifecycle!Next]_log
  BY MStepRefines
<1> QED BY <1>1, <1>2, MInductive, PTL DEF MSpec, LifecycleSpec, Lifecycle!Spec

-----------------------------------------------------------------------------
(* Nothing is dropped.  A step of one thread keeps SomeoneDecides if it    *)
(* leaves the rides alone, does not end the job of a ride that is still    *)
(* REQUESTED, and stays on the way to ACCEPTED once it was.                *)
LEMMA WorkGoesOn ==
  ASSUME MIInv, SomeoneDecides, row' = row,
         NEW p \in Threads, NEW t \in Thread, proc' = [proc EXCEPT ![p] = t],
         \A r \in Rides : r # p[1] => job'[r] = job[r] /\ cut'[r] = cut[r],
         job'[p[1]].state # "none" => Exists(p[1]),
         job'[p[1]].state = "none" => job'[p[1]] = job[p[1]],
         row[p[1]].status = "REQUESTED" => StartsMatch(t) /\ (JobRuns(p[1]) => JobRuns(p[1])'),
         row[p[1]].status = "MATCHING" /\ ~cut'[p[1]].deciding =>
           ~cut[p[1]].deciding /\ (Decides(proc[p]) => Decides(t))
  PROVE  SomeoneDecides'
<1>1. proc'[p] = t /\ \A q \in Threads : q # p => proc'[q] = proc[q]
  BY DEF MIInv, MTypeOK
<1>2. p[1] \in Rides /\ \A r \in Rides, w \in Drivers \cup {Worker} : <<r, w>> \in Threads
  BY DEF Threads
<1> SUFFICES ASSUME NEW r \in Rides
             PROVE  /\ job'[r].state # "none" => Exists(r)
                    /\ job'[r].state = "none" => job'[r].attempts = 0 /\ job'[r].stalls = 0
                    /\ row[r].status = "REQUESTED" =>
                         /\ JobRuns(r)'
                         /\ \A w \in Drivers \cup {Worker} : StartsMatch(proc'[<<r, w>>])
                    /\ row[r].status = "MATCHING" /\ ~cut'[r].deciding =>
                         \E w \in Drivers \cup {Worker} : Decides(proc'[<<r, w>>])
  BY DEF SomeoneDecides, Exists, StartsMatch, Decides
<1>3. /\ job'[r].state # "none" => Exists(r)
      /\ job'[r].state = "none" => job'[r].attempts = 0 /\ job'[r].stalls = 0
  BY DEF SomeoneDecides
<1>4. ASSUME row[r].status = "REQUESTED"
      PROVE  JobRuns(r)'
  <2>1. JobRuns(r)
    BY <1>4 DEF SomeoneDecides
  <2>2. CASE r # p[1]
    BY <2>1, <2>2 DEF JobRuns, GivenUp
  <2> QED BY <1>4, <2>1, <2>2
<1>5. ASSUME row[r].status = "REQUESTED", NEW w \in Drivers \cup {Worker}
      PROVE  StartsMatch(proc'[<<r, w>>])
  <2>1. CASE <<r, w>> = p
    BY <1>1, <1>5, <2>1
  <2>2. CASE <<r, w>> # p
    BY <1>1, <1>2, <1>5, <2>2 DEF SomeoneDecides
  <2> QED BY <2>1, <2>2
<1>6. ASSUME row[r].status = "MATCHING", ~cut'[r].deciding
      PROVE  \E w \in Drivers \cup {Worker} : Decides(proc'[<<r, w>>])
  <2>1. ~cut[r].deciding
    BY <1>6
  <2>2. PICK w \in Drivers \cup {Worker} : Decides(proc[<<r, w>>])
    BY <1>6, <2>1 DEF SomeoneDecides
  <2>3. CASE <<r, w>> = p
    BY <1>1, <1>6, <2>2, <2>3
  <2>4. CASE <<r, w>> # p
    BY <1>1, <1>2, <2>2, <2>4
  <2> QED BY <2>3, <2>4
<1> QED BY <1>3, <1>4, <1>5, <1>6

(* A step that leaves threads, jobs and rows alone. *)
LEMMA NothingDropped ==
  ASSUME SomeoneDecides, UNCHANGED <<row, job, proc, cut>>
  PROVE  SomeoneDecides'
BY DEF SomeoneDecides, Exists, StartsMatch, Decides, JobRuns, GivenUp

(* A thread ends only when its ride is past REQUESTED, and not while it    *)
(* is the one that decides.                                                *)
LEMMA WorkEnds ==
  ASSUME MIInv, SomeoneDecides, NEW p \in Threads, Return(p) \/ Throw(p),
         row' = row, cut' = cut, proc[p].pc # "idle",
         row[p[1]].status # "REQUESTED",
         row[p[1]].status = "MATCHING" => ~Decides(proc[p])
  PROVE  SomeoneDecides'
<1>1. proc' = [proc EXCEPT ![p] = NoThread] /\ Exists(p[1]) /\ p[1] \in Rides
  BY EndTypes, AtWork
<1>2. /\ \A r \in Rides : r # p[1] => job'[r] = job[r]
      /\ job'[p[1]].state = "none" => job'[p[1]] = job[p[1]]
  BY <1>1 DEF Return, Throw, MIInv, MTypeOK, Job
<1> QED BY <1>1, <1>2, NoThreadOK, WorkGoesOn

(* A thread that goes on and leaves its job alone. *)
LEMMA WorkMoves ==
  ASSUME MIInv, SomeoneDecides, row' = row, job' = job, cut' = cut,
         NEW p \in Threads, NEW t \in Thread, proc' = [proc EXCEPT ![p] = t],
         row[p[1]].status = "REQUESTED" => StartsMatch(t),
         row[p[1]].status = "MATCHING" /\ Decides(proc[p]) => Decides(t)
  PROVE  SomeoneDecides'
<1>1. job[p[1]].state # "none" => Exists(p[1])
  BY AtWork DEF SomeoneDecides
<1>2. JobRuns(p[1]) => JobRuns(p[1])'
  BY DEF JobRuns, GivenUp
<1> QED BY <1>1, <1>2, WorkGoesOn

(* The queue.  A job is added once its ride exists, and handed out or      *)
(* completed unread only when its ride is past REQUESTED.                  *)
LEMMA EnqueueDecides ==
  ASSUME MIInv, SomeoneDecides, NEW r \in Rides, Enqueue(r)
  PROVE  SomeoneDecides'
<1> DEFINE p == <<r, Worker>>
<1>1. p \in Threads /\ p[1] = r /\ row' = row
  BY DEF Threads, Enqueue, ridesVars
<1>2. proc[p] \in Thread /\ job \in [Rides -> Job] /\ proc' = [proc EXCEPT ![p] = proc[p]]
  BY <1>1, AtWork DEF Enqueue, MIInv, MTypeOK
<1>3. /\ Exists(r) /\ cut' = cut
      /\ job'[r].state \in {"queued", "lost"}
      /\ job'[r].attempts = job[r].attempts /\ job'[r].stalls = job[r].stalls
      /\ \A q \in Rides : q # r => job'[q] = job[q]
  BY <1>2 DEF Enqueue, Job
<1>4. row[r].status = "REQUESTED" => StartsMatch(proc[p])
  BY DEF SomeoneDecides
<1>5. JobRuns(r) => JobRuns(r)'
  BY <1>3 DEF JobRuns
<1> HIDE DEF p
<1> QED BY <1>1, <1>2, <1>3, <1>4, <1>5, WorkGoesOn

LEMMA MatchRideDecides ==
  ASSUME MIInv, SomeoneDecides, NEW r \in Rides, MatchRide(r)
  PROVE  SomeoneDecides'
<1> DEFINE p == <<r, Worker>>
<1>1. p \in Threads /\ p[1] = r /\ row' = row
  BY DEF Threads, MatchRide, ridesVars
<1>2. proc[p] \in Thread /\ job \in [Rides -> Job]
  BY <1>1, AtWork
<1>3. Exists(r) /\ cut' = cut
  BY DEF MatchRide, SomeoneDecides
<1>4. \A q \in Rides : q # r => job'[q] = job[q]
  BY <1>2 DEF MatchRide
<1>5. CASE row[r].status = "REQUESTED"
  <2> DEFINE t == [proc[p] EXCEPT !.pc = "find"]
  <2>1. /\ proc' = [proc EXCEPT ![p] = t] /\ job'[r].state = "active"
        /\ job'[r].attempts = job[r].attempts /\ job'[r].stalls = job[r].stalls
    BY <1>1, <1>2, <1>5, GotoMoves DEF MatchRide, Job
  <2>2. t \in Thread /\ t.pc = "find"
    BY <1>2 DEF Thread
  <2>3. StartsMatch(t)
    BY <2>2 DEF StartsMatch
  <2>4. JobRuns(r) => JobRuns(r)'
    BY <1>3, <2>1 DEF JobRuns
  <2> HIDE DEF p, t
  <2> QED BY <1>1, <1>3, <1>4, <1>5, <2>1, <2>2, <2>3, <2>4, WorkGoesOn
<1>6. CASE row[r].status # "REQUESTED"
  <2>1. proc' = [proc EXCEPT ![p] = proc[p]] /\ job'[r].state = "done"
    BY <1>2, <1>6 DEF MatchRide, MIInv, MTypeOK, Job
  <2> HIDE DEF p
  <2> QED BY <1>1, <1>2, <1>3, <1>4, <1>6, <2>1, WorkGoesOn
<1> QED BY <1>5, <1>6

(* The dispatching half of the worker and a driver's claim decide nothing  *)
(* yet, and lose nothing.                                                  *)
LEMMA DispatchDecides ==
  ASSUME MIInv, SomeoneDecides, NEW p \in Threads, NEW t \in Thread,
         proc[p].pc \in {"idle", "find", "send", "window", "wait", "noDrivers", "claim",
                         "withdraw"},
         t.pc \in {"find", "send", "window", "wait", "noDrivers", "preread", "claim",
                   "withdraw", "finalize", "idle"},
         proc' = [proc EXCEPT ![p] = t],
         row' = row, job' = job, cut' = cut
  PROVE  SomeoneDecides'
<1>1. StartsMatch(t) /\ ~Decides(proc[p])
  BY DEF StartsMatch, Decides
<1> QED BY <1>1, WorkMoves

(* The actions that leave the rides alone. *)
LEMMA WorkerDecides ==
  ASSUME MIInv, SomeoneDecides, NEW r \in Rides, WorkerStep(r)
  PROVE  SomeoneDecides'
<1> DEFINE p == <<r, Worker>>
<1>1. p \in Threads /\ p[1] = r
  BY DEF Threads
<1>2. /\ proc[p] \in Thread /\ proc \in [Threads -> Thread]
      /\ claim[r] \in Drivers \cup {NoDriver}
  BY <1>1, AtWork DEF MIInv, MTypeOK
<1>3. row' = row /\ cut' = cut
  BY DEF WorkerStep, MatchRide, FindDrivers, SendOffer, WindowEnds, PollClaim, NoDrivers,
     CancelPreRead, ridesVars
<1>4. CASE MatchRide(r)
  BY <1>4, MatchRideDecides
<1>5. CASE FindDrivers(r)
  <2>1. proc[p].pc = "find" /\ job' = job
    BY <1>5 DEF FindDrivers
  <2>2. PICK found \in SUBSET Drivers :
          proc' = [proc EXCEPT ![p].pc = IF found = {} THEN "noDrivers" ELSE "send",
                               ![p].todo = found]
    BY <1>5 DEF FindDrivers
  <2> DEFINE t == [proc[p] EXCEPT !.pc = IF found = {} THEN "noDrivers" ELSE "send",
                                  !.todo = found]
  <2>3. proc' = [proc EXCEPT ![p] = t]
    BY <1>1, <1>2, <2>2 DEF Thread
  <2>4. t \in Thread /\ t.pc \in {"noDrivers", "send"}
    BY <1>2 DEF Thread
  <2> HIDE DEF p, t
  <2> QED BY <1>1, <1>3, <2>1, <2>3, <2>4, DispatchDecides
<1>6. CASE SendOffer(r)
  <2>1. proc[p].pc = "send" /\ job' = job
    BY <1>6 DEF SendOffer
  <2>2. PICK d \in proc[p].todo :
          proc' = [proc EXCEPT ![p].todo = @ \ {d},
                               ![p].pc = IF ~hedged THEN "window"
                                         ELSE IF proc[p].todo = {d} THEN "wait" ELSE "send"]
    BY <1>6 DEF SendOffer
  <2> DEFINE t == [proc[p] EXCEPT !.todo = @ \ {d},
                                  !.pc = IF ~hedged THEN "window"
                                         ELSE IF proc[p].todo = {d} THEN "wait" ELSE "send"]
  <2>3. proc' = [proc EXCEPT ![p] = t]
    BY <1>1, <1>2, <2>2 DEF Thread
  <2>4. t \in Thread /\ t.pc \in {"window", "wait", "send"}
    BY <1>2 DEF Thread
  <2> HIDE DEF p, t
  <2> QED BY <1>1, <1>3, <2>1, <2>3, <2>4, DispatchDecides
<1>7. CASE WindowEnds(r)
  <2> DEFINE t == [proc[p] EXCEPT
                    !.pc = IF claim[r] # NoDriver \/ proc[p].todo = {} THEN "wait" ELSE "send",
                    !.todo = IF claim[r] # NoDriver THEN {} ELSE @]
  <2>1. proc[p].pc = "window" /\ job' = job
    BY <1>7 DEF WindowEnds
  <2>2. proc' = [proc EXCEPT ![p] = t]
    BY <1>1, <1>2, <1>7 DEF WindowEnds, Thread
  <2>3. t \in Thread /\ t.pc \in {"wait", "send"}
    BY <1>2 DEF Thread
  <2> HIDE DEF p, t
  <2> QED BY <1>1, <1>3, <2>1, <2>2, <2>3, DispatchDecides
<1>8. CASE PollClaim(r)
  <2>1. proc[p].pc = "wait" /\ job' = job
    BY <1>8 DEF PollClaim
  <2>2. PICK t \in Thread : /\ proc' = [proc EXCEPT ![p] = t]
                            /\ t.pc \in {"finalize", "noDrivers"}
    <3>1. CASE claim[r] # NoDriver
      <4> DEFINE t == [proc[p] EXCEPT !.pc = "finalize", !.driver = claim[r]]
      <4>1. proc' = [proc EXCEPT ![p] = t]
        BY <1>1, <1>2, <1>8, <3>1 DEF PollClaim, Thread
      <4>2. t \in Thread /\ t.pc = "finalize"
        BY <1>2 DEF Thread
      <4> HIDE DEF t
      <4> QED BY <4>1, <4>2
    <3>2. CASE claim[r] = NoDriver
      <4> DEFINE t == [proc[p] EXCEPT !.pc = "noDrivers"]
      <4>1. proc' = [proc EXCEPT ![p] = t]
        BY <1>1, <1>8, <3>2, GotoMoves DEF PollClaim
      <4>2. t \in Thread /\ t.pc = "noDrivers"
        BY <1>2 DEF Thread
      <4> HIDE DEF t
      <4> QED BY <4>1, <4>2
    <3> QED BY <3>1, <3>2
  <2> HIDE DEF p
  <2> QED BY <1>1, <1>3, <2>1, <2>2, DispatchDecides
<1>9. CASE NoDrivers(r)
  <2>1. CASE row[r].status \in Awaiting
    <3> DEFINE t == [proc[p] EXCEPT !.pc = "preread"]
    <3>1. proc[p].pc = "noDrivers" /\ job' = job /\ proc' = [proc EXCEPT ![p] = t]
      BY <1>1, <1>9, <2>1, GotoMoves DEF NoDrivers
    <3>2. t \in Thread /\ t.pc = "preread"
      BY <1>2 DEF Thread
    <3> HIDE DEF p, t
    <3> QED BY <1>1, <1>3, <3>1, <3>2, DispatchDecides
  <2>2. CASE row[r].status \notin Awaiting
    <3>1. Return(p) /\ proc[p].pc # "idle"
      BY <1>9, <2>2 DEF NoDrivers
    <3>2. row[r].status # "REQUESTED" /\ row[r].status # "MATCHING"
      BY <2>2 DEF Awaiting
    <3> HIDE DEF p
    <3> QED BY <1>1, <1>3, <3>1, <3>2, WorkEnds
  <2> QED BY <2>1, <2>2
<1>10. CASE CancelPreRead(r)
  <2>1. proc[p].pc = "preread" /\ ~Decides(proc[p])
    BY <1>10 DEF CancelPreRead, Decides
  <2>2. CASE CanCancel(row[r].status)
    <3> DEFINE t == [proc[p] EXCEPT !.pc = "transition", !.op = "cancel"]
    <3>1. proc' = [proc EXCEPT ![p] = t] /\ job' = job
      BY <1>1, <1>2, <1>10, <2>2 DEF CancelPreRead, Thread
    <3>2. t \in Thread /\ t.pc = "transition" /\ t.op = "cancel"
      BY <1>2 DEF Thread
    <3>3. StartsMatch(t)
      BY <3>2 DEF StartsMatch
    <3> HIDE DEF p, t
    <3> QED BY <1>1, <1>3, <2>1, <3>1, <3>2, <3>3, WorkMoves
  <2>3. CASE ~CanCancel(row[r].status)
    <3>1. Throw(p)
      BY <1>10, <2>3 DEF CancelPreRead
    <3>2. row[r].status # "REQUESTED"
      BY <2>3 DEF CanCancel, TRANSITIONS
    <3> HIDE DEF p
    <3> QED BY <1>1, <1>3, <2>1, <3>1, <3>2, WorkEnds
  <2> QED BY <2>2, <2>3
<1> QED BY <1>4, <1>5, <1>6, <1>7, <1>8, <1>9, <1>10 DEF WorkerStep

LEMMA HandlerDecides ==
  ASSUME MIInv, SomeoneDecides, NEW r \in Rides, NEW d \in Drivers,
         Accept(r, d) \/ HandlerStep(r, d)
  PROVE  SomeoneDecides'
<1> DEFINE p == <<r, d>>
<1>1. p \in Threads /\ p[1] = r
  BY DEF Threads
<1>2. proc[p] \in Thread /\ proc \in [Threads -> Thread]
  BY <1>1, AtWork DEF MIInv, MTypeOK
<1>3. row' = row /\ job' = job /\ cut' = cut
  BY DEF Accept, HandlerStep, Claim, Withdraw, ridesVars
<1>4. proc[p].pc \in {"idle", "claim", "withdraw"}
  BY DEF Accept, HandlerStep, Claim, Withdraw
<1>5. PICK t \in Thread : /\ proc' = [proc EXCEPT ![p] = t]
                          /\ t.pc \in {"claim", "withdraw", "finalize", "idle"}
  <2>1. CASE Accept(r, d)
    <3>1. proc' = [proc EXCEPT ![p] = [proc[p] EXCEPT !.pc = "claim"]]
      BY <1>1, <2>1, GotoMoves DEF Accept
    <3>2. [proc[p] EXCEPT !.pc = "claim"] \in Thread /\ [proc[p] EXCEPT !.pc = "claim"].pc = "claim"
      BY <1>2 DEF Thread
    <3> QED BY <3>1, <3>2
  <2>2. CASE Withdraw(r, d)
    <3>1. proc' = [proc EXCEPT ![p] = [proc[p] EXCEPT !.pc = "finalize"]]
      BY <1>1, <2>2, GotoMoves DEF Withdraw
    <3>2. /\ [proc[p] EXCEPT !.pc = "finalize"] \in Thread
          /\ [proc[p] EXCEPT !.pc = "finalize"].pc = "finalize"
      BY <1>2 DEF Thread
    <3> QED BY <3>1, <3>2
  <2>3. CASE Claim(r, d) /\ claim[r] = NoDriver
    <3> DEFINE t == [proc[p] EXCEPT !.pc = "withdraw", !.driver = d]
    <3>1. proc' = [proc EXCEPT ![p] = t]
      BY <1>1, <1>2, <2>3 DEF Claim, Thread
    <3>2. t \in Thread /\ t.pc = "withdraw"
      BY <1>2 DEF Thread
    <3> HIDE DEF t
    <3> QED BY <3>1, <3>2
  <2>4. CASE Claim(r, d) /\ claim[r] # NoDriver
    BY <2>4, NoThreadOK DEF Claim
  <2> QED BY <2>1, <2>2, <2>3, <2>4 DEF HandlerStep
<1> HIDE DEF p
<1> QED BY <1>1, <1>3, <1>4, <1>5, DispatchDecides

(* A thread that is cut short moves its job closer to the end by what it   *)
(* counts, and no further.                                                 *)
LEMMA CutJob ==
  ASSUME MIInv, SomeoneDecides, NEW p \in Threads, NEW between \in BOOLEAN,
         CutShort(p, between),
         \/ Throw(p)
         \/ job' = IF p[2] # Worker THEN job
                   ELSE [job EXCEPT ![p[1]].state = IF job[p[1]].stalls = 0
                                                    THEN "queued" ELSE "failed",
                                    ![p[1]].stalls = 1]
  PROVE  /\ \A r \in Rides : r # p[1] => job'[r] = job[r] /\ cut'[r] = cut[r]
         /\ job'[p[1]].state = "none" => job'[p[1]] = job[p[1]]
         /\ JobRuns(p[1]) => JobRuns(p[1])'
<1> DEFINE r == p[1]
<1>1. /\ job \in [Rides -> Job] /\ r \in Rides /\ cut \in [Rides -> Cuts]
  BY AtWork
<1>2. /\ cut'[r].times = cut[r].times + 1
      /\ \A q \in Rides : q # r => cut'[q] = cut[q]
  BY CutTypes
<1>3. \A q \in Rides : q # r => job'[q] = job[q]
  BY <1>1 DEF Throw
<1>4. /\ job[r].attempts \in Nat /\ job[r].stalls \in 0..1 /\ cut[r].times \in Nat
      /\ cut'[r].times = cut[r].times + 1 /\ Attempts \in Nat
  BY <1>1, <1>2, MatchingAssumption DEF Job, Cuts
<1>5. \/ job'[r] = job[r]
      \/ /\ job'[r].attempts = job[r].attempts + 1 /\ job'[r].stalls = job[r].stalls
         /\ job'[r].state = (IF job[r].attempts + 1 < Attempts THEN "queued" ELSE "failed")
      \/ /\ job'[r].attempts = job[r].attempts /\ job'[r].stalls = 1
         /\ job'[r].state = (IF job[r].stalls = 0 THEN "queued" ELSE "failed")
  BY <1>1 DEF Throw, Job
<1>6. job'[r].state = "none" => job'[r] = job[r]
  BY <1>5
<1>7. ASSUME JobRuns(r) PROVE JobRuns(r)'
  <2>1. CASE job'[r] = job[r]
    BY <1>4, <1>7, <2>1 DEF JobRuns, GivenUp
  <2>2. CASE /\ job'[r].attempts = job[r].attempts + 1 /\ job'[r].stalls = job[r].stalls
             /\ job'[r].state = (IF job[r].attempts + 1 < Attempts THEN "queued" ELSE "failed")
    BY <1>4, <1>7, <2>2 DEF JobRuns, GivenUp
  <2>3. CASE /\ job'[r].attempts = job[r].attempts /\ job'[r].stalls = 1
             /\ job'[r].state = (IF job[r].stalls = 0 THEN "queued" ELSE "failed")
    BY <1>4, <1>7, <2>3 DEF JobRuns, GivenUp
  <2> QED BY <1>5, <2>1, <2>2, <2>3
<1> QED BY <1>2, <1>3, <1>6, <1>7

(* A thread that dies or throws may drop a ride: the cut remembers it. *)
LEMMA CutDecides ==
  ASSUME MIInv, SomeoneDecides, NEW p \in Threads, Crash(p) \/ AwaitFails(p)
  PROVE  SomeoneDecides'
<1>1. /\ row' = row /\ proc' = [proc EXCEPT ![p] = NoThread]
      /\ CutShort(p, Decides(proc[p])) /\ p[1] \in Rides
  BY AtWork DEF Crash, AwaitFails, Throw, ridesVars
<1>2. /\ \A r \in Rides : r # p[1] => job'[r] = job[r] /\ cut'[r] = cut[r]
      /\ job'[p[1]].state = "none" => job'[p[1]] = job[p[1]]
      /\ JobRuns(p[1]) => JobRuns(p[1])'
  <2>1. /\ Decides(proc[p]) \in BOOLEAN
        /\ \/ Throw(p)
           \/ job' = IF p[2] # Worker THEN job
                     ELSE [job EXCEPT ![p[1]].state = IF job[p[1]].stalls = 0
                                                      THEN "queued" ELSE "failed",
                                      ![p[1]].stalls = 1]
    BY DecidesIsBoolean DEF Crash, AwaitFails
  <2> QED BY <1>1, <2>1, CutJob
<1>3. Exists(p[1])
  <2>1. CASE proc[p].pc # "idle"
    BY <2>1, AtWork
  <2>2. CASE job[p[1]].state = "queued"
    BY <1>1, <2>2 DEF SomeoneDecides
  <2>3. proc[p].pc # "idle" \/ job[p[1]].state = "queued"
    BY DEF Crash, AwaitFails
  <2> QED BY <2>1, <2>2, <2>3
<1>4. ~cut'[p[1]].deciding => ~cut[p[1]].deciding /\ ~Decides(proc[p])
  <2>1. Decides(proc[p]) \in BOOLEAN
    BY DecidesIsBoolean
  <2>2. cut[p[1]].deciding \/ Decides(proc[p]) => cut'[p[1]].deciding
    BY <1>1, <2>1, CutTypes
  <2> QED BY <2>2
<1>5. StartsMatch(NoThread)
  BY DEF StartsMatch, NoThread
<1> QED BY <1>1, <1>2, <1>3, <1>4, <1>5, NoThreadOK, WorkGoesOn

LEMMA FinalizeDecides ==
  ASSUME MIInv, SomeoneDecides, NEW p \in Threads, FinalizeRead(p)
  PROVE  SomeoneDecides'
<1> DEFINE op == IF row[p[1]].status = "REQUESTED" THEN "match" ELSE "accept"
           t == [proc[p] EXCEPT !.pc = "transition", !.op = op]
<1>1. /\ row' = row /\ cut' = cut
      /\ proc[p].pc = "finalize" /\ ~Decides(proc[p])
  BY DEF FinalizeRead, ridesVars, Decides
<1>2. proc[p] \in Thread /\ proc \in [Threads -> Thread]
  BY AtWork DEF MIInv, MTypeOK
<1>3. CASE row[p[1]].status \in Awaiting
  <2>1. proc' = [proc EXCEPT ![p] = t] /\ job' = job
    BY <1>2, <1>3 DEF FinalizeRead, Thread
  <2>2. t \in Thread /\ t.pc = "transition" /\ t.op = op
    BY <1>2 DEF Thread
  <2>3. row[p[1]].status = "REQUESTED" => StartsMatch(t)
    BY <2>2 DEF StartsMatch
  <2> HIDE DEF t
  <2> QED BY <1>1, <2>1, <2>2, <2>3, WorkMoves
<1>4. CASE row[p[1]].status \notin Awaiting
  <2>1. Return(p)
    BY <1>4 DEF FinalizeRead
  <2>2. row[p[1]].status # "REQUESTED"
    BY <1>4 DEF Awaiting
  <2> QED BY <1>1, <2>1, <2>2, WorkEnds
<1> QED BY <1>3, <1>4

(* transition()'s read: from REQUESTED a match or a cancellation is legal, *)
(* from MATCHING an acceptance is.                                         *)
LEMMA ObserveDecides ==
  ASSUME MIInv, SomeoneDecides, NEW p \in Threads, ThreadObserve(p)
  PROVE  SomeoneDecides'
<1> DEFINE status == row[p[1]].status
           t == [proc[p] EXCEPT !.pc = "commit", !.seen = status]
<1>1. /\ proc[p] \in Thread /\ ThreadOK(proc[p], row[p[1]]) /\ p[1] \in Rides
      /\ Exists(p[1]) /\ proc[p].pc = "transition"
      /\ row' = row /\ cut' = cut
  BY AtWork DEF ThreadObserve, ridesVars
<1>2. proc[p].op \in {"match", "accept", "cancel"} /\ status \in Statuses
  BY <1>1 DEF ThreadOK, MIInv, IInv, TypeOK, Snapshot, Exists
<1>3. status = "REQUESTED" => StartsMatch(proc[p])
  <2>1. PICK w \in Drivers \cup {Worker} : p = <<p[1], w>>
    BY DEF Threads
  <2> QED BY <1>1, <2>1 DEF SomeoneDecides
<1>4. CASE AssertTransition(status, Target[proc[p].op])
  <2>1. proc' = [proc EXCEPT ![p] = t] /\ job' = job
    BY <1>1, <1>4 DEF ThreadObserve, MIInv, MTypeOK, Thread
  <2>2. t \in Thread /\ t.pc = "commit" /\ t.op = proc[p].op /\ t.seen = status
    BY <1>1, <1>2 DEF Thread
  <2>3. status = "REQUESTED" => StartsMatch(t)
    BY <1>1, <1>3, <2>2 DEF StartsMatch
  <2>4. status = "MATCHING" /\ Decides(proc[p]) => Decides(t)
    BY <2>2 DEF Decides
  <2> HIDE DEF t
  <2> QED BY <1>1, <2>1, <2>2, <2>3, <2>4, WorkMoves
<1>5. CASE ~AssertTransition(status, Target[proc[p].op])
  <2>1. Throw(p)
    BY <1>5 DEF ThreadObserve
  <2>2. status # "REQUESTED"
    BY <1>1, <1>2, <1>3, <1>5 DEF StartsMatch, AssertTransition, Target, TRANSITIONS
  <2>3. status = "MATCHING" => ~Decides(proc[p])
    BY <1>5 DEF Decides, AssertTransition, Target, TRANSITIONS
  <2> QED BY <1>1, <2>1, <2>2, <2>3, WorkEnds
<1> QED BY <1>4, <1>5

(* A ride that is past waiting needs nobody any more, and one that is      *)
(* MATCHING needs the thread that made it so, unless that was cut short.   *)
LEMMA RideDecided ==
  ASSUME MIInv, SomeoneDecides, NEW p \in Threads, NEW t \in Thread,
         proc' = [proc EXCEPT ![p] = t],
         \A r \in Rides : r # p[1] => row'[r] = row[r] /\ job'[r] = job[r] /\ cut'[r] = cut[r],
         Exists(p[1])', row'[p[1]].status # "REQUESTED",
         job'[p[1]].state = "none" => job'[p[1]] = job[p[1]],
         row'[p[1]].status = "MATCHING" => cut'[p[1]].deciding \/ Decides(t)
  PROVE  SomeoneDecides'
<1>1. proc'[p] = t /\ \A q \in Threads : q # p => proc'[q] = proc[q]
  BY DEF MIInv, MTypeOK
<1>2. p[1] \in Rides /\ \A r \in Rides, w \in Drivers \cup {Worker} :
                          <<r, w>> \in Threads /\ (r # p[1] => <<r, w>> # p)
  BY DEF Threads
<1>3. \A r \in Rides : r # p[1] => Exists(r)' = Exists(r)
  BY DEF Exists
<1> SUFFICES ASSUME NEW r \in Rides
             PROVE  /\ job'[r].state # "none" => Exists(r)'
                    /\ job'[r].state = "none" => job'[r].attempts = 0 /\ job'[r].stalls = 0
                    /\ row'[r].status = "REQUESTED" =>
                         /\ JobRuns(r)'
                         /\ \A w \in Drivers \cup {Worker} : StartsMatch(proc'[<<r, w>>])
                    /\ row'[r].status = "MATCHING" /\ ~cut'[r].deciding =>
                         \E w \in Drivers \cup {Worker} : Decides(proc'[<<r, w>>])
  BY DEF SomeoneDecides, StartsMatch, Decides
<1>4. CASE r = p[1]
  <2>1. PICK w \in Drivers \cup {Worker} : p = <<r, w>>
    BY <1>4 DEF Threads
  <2>2. job[r].state = "none" => job[r].attempts = 0 /\ job[r].stalls = 0
    BY DEF SomeoneDecides
  <2> QED BY <1>1, <1>4, <2>1, <2>2
<1>5. CASE r # p[1]
  <2>1. \A w \in Drivers \cup {Worker} : proc'[<<r, w>>] = proc[<<r, w>>]
    BY <1>1, <1>2, <1>5
  <2>2. JobRuns(r)' = JobRuns(r)
    BY <1>5 DEF JobRuns, GivenUp
  <2> QED BY <1>3, <1>5, <2>1, <2>2 DEF SomeoneDecides
<1> QED BY <1>4, <1>5

(* The transaction.  Won, it makes a REQUESTED ride MATCHING and goes on   *)
(* to ACCEPTED itself, or it decides the ride; lost, somebody else moved.  *)
LEMMA CommitDecides ==
  ASSUME MIInv, SomeoneDecides, NEW p \in Threads, ThreadCommit(p)
  PROVE  SomeoneDecides'
<1> DEFINE f == ThreadFrame(p)
           old == row[p[1]]
<1>1. /\ proc[p] \in Thread /\ p[1] \in Rides /\ Exists(p[1])
      /\ proc[p].pc = "commit" /\ cut' = cut
  BY AtWork DEF ThreadCommit
<1>2. /\ f.ride = p[1] /\ f.op = proc[p].op /\ f.op \in {"match", "accept", "cancel"}
      /\ f.seen = proc[p].seen
  BY <1>1, ThreadFrameFits DEF ThreadFrame
<1>3. old.status = "REQUESTED" => StartsMatch(proc[p])
  <2>1. PICK w \in Drivers \cup {Worker} : p = <<p[1], w>>
    BY DEF Threads
  <2> QED BY <1>1, <2>1 DEF SomeoneDecides
<1>4. CASE ~Wins(f)
  <2>1. Throw(p) /\ row' = row
    BY <1>4 DEF ThreadCommit
  <2>2. old.status # proc[p].seen
    BY <1>2, <1>4 DEF Wins
  <2>3. old.status # "REQUESTED"
    BY <1>1, <1>3, <2>2 DEF StartsMatch
  <2>4. old.status = "MATCHING" => ~Decides(proc[p])
    BY <1>1, <2>2 DEF Decides
  <2> QED BY <1>1, <2>1, <2>3, <2>4, WorkEnds
<1>5. CASE Wins(f)
  <2>1. /\ row'[p[1]].status = Target[f.op]
        /\ \A r \in Rides : r # p[1] => row'[r] = row[r]
    <3>1. Write(p[1], Patched(old, f))
      BY <1>2, <1>5 DEF ThreadCommit
    <3> QED BY <1>1, <3>1 DEF Write, Patched, MIInv, IInv, TypeOK
  <2>2. Exists(p[1])'
    BY <1>1, <1>5, ThreadWins, ThreadWrites
  <2>3. CASE f.op = "match"
    <3> DEFINE t == [proc[p] EXCEPT !.pc = "transition", !.op = "accept"]
    <3>1. proc' = [proc EXCEPT ![p] = t] /\ job' = job
      BY <1>1, <1>5, <2>3 DEF ThreadCommit, MIInv, MTypeOK, Thread
    <3>2. t \in Thread /\ Decides(t)
      BY <1>1 DEF Decides, Thread
    <3>3. row'[p[1]].status = "MATCHING"
      BY <2>1, <2>3 DEF Target
    <3> HIDE DEF t, f
    <3> QED BY <1>1, <2>1, <2>2, <3>1, <3>2, <3>3, RideDecided
  <2>4. CASE f.op \in {"accept", "cancel"}
    <3>1. row'[p[1]].status # "REQUESTED" /\ row'[p[1]].status # "MATCHING"
      BY <2>1, <2>4 DEF Target
    <3>2. CASE f.op = "accept"
      <4> DEFINE t == [proc[p] EXCEPT !.pc = "markDriver"]
      <4>1. proc' = [proc EXCEPT ![p] = t] /\ job' = job
        BY <1>5, <3>2, GotoMoves DEF ThreadCommit
      <4>2. t \in Thread
        BY <1>1 DEF Thread
      <4> HIDE DEF t, f
      <4> QED BY <1>1, <2>1, <2>2, <3>1, <4>1, <4>2, RideDecided
    <3>3. CASE f.op = "cancel"
      <4>1. Return(p)
        BY <1>5, <3>3 DEF ThreadCommit
      <4>2. /\ proc' = [proc EXCEPT ![p] = NoThread]
            /\ \A r \in Rides : r # p[1] => job'[r] = job[r]
            /\ job'[p[1]].state = "none" => job'[p[1]] = job[p[1]]
        BY <1>1, <4>1 DEF Return, MIInv, MTypeOK, Job
      <4> HIDE DEF f
      <4> QED BY <1>1, <2>1, <2>2, <3>1, <4>2, NoThreadOK, RideDecided
    <3> QED BY <2>4, <3>2, <3>3
  <2> QED BY <1>2, <2>3, <2>4
<1> QED BY <1>4, <1>5

(* The same transaction when its thread throws: from REQUESTED, it leaves  *)
(* the ride between the two moves, and the cut says so.                    *)
LEMMA UnansweredDecides ==
  ASSUME MIInv, SomeoneDecides, NEW p \in Threads, CommitUnanswered(p)
  PROVE  SomeoneDecides'
<1> DEFINE f == ThreadFrame(p)
<1>1. /\ proc[p].pc = "commit" /\ Wins(f) /\ Throw(p) /\ CutShort(p, f.op = "match")
      /\ Write(p[1], Patched(row[p[1]], f))
      /\ proc' = [proc EXCEPT ![p] = NoThread]
  BY ThreadWrites DEF CommitUnanswered, Throw
<1>2. p[1] \in Rides /\ Exists(p[1]) /\ f.op \in {"match", "accept", "cancel"}
  BY <1>1, AtWork, ThreadFrameFits
<1>3. /\ row'[p[1]].status = Target[f.op]
      /\ \A r \in Rides : r # p[1] => row'[r] = row[r]
  BY <1>1, <1>2 DEF Write, Patched, MIInv, IInv, TypeOK
<1>4. Exists(p[1])'
  BY <1>1, <1>2, ThreadWins, ThreadWrites
<1>5. /\ \A r \in Rides : r # p[1] => job'[r] = job[r] /\ cut'[r] = cut[r]
      /\ job'[p[1]].state = "none" => job'[p[1]] = job[p[1]]
  <2>1. (f.op = "match") \in BOOLEAN
    OBVIOUS
  <2> QED BY <1>1, <2>1, CutJob
<1>6. f.op = "match" => cut'[p[1]].deciding
  <2>1. (f.op = "match") \in BOOLEAN
    OBVIOUS
  <2> QED BY <1>1, <2>1, CutTypes
<1>7. /\ row'[p[1]].status # "REQUESTED"
      /\ row'[p[1]].status = "MATCHING" => f.op = "match"
  BY <1>2, <1>3 DEF Target
<1> HIDE DEF f
<1> QED BY <1>1, <1>3, <1>4, <1>5, <1>6, <1>7, NoThreadOK, RideDecided

LEMMA FinishDecides ==
  ASSUME MIInv, SomeoneDecides, NEW p \in Threads, MarkDriver(p) \/ ReleaseClaim(p)
  PROVE  SomeoneDecides'
<1>1. /\ proc[p] \in Thread /\ row[p[1]].status \notin Awaiting
      /\ row' = row /\ cut' = cut /\ proc[p].pc # "idle"
  BY AtWork DEF MarkDriver, ReleaseClaim, ThreadOK, ridesVars
<1>2. row[p[1]].status # "REQUESTED" /\ row[p[1]].status # "MATCHING"
  BY <1>1 DEF Awaiting
<1>3. CASE MarkDriver(p)
  <2>1. proc' = [proc EXCEPT ![p] = [proc[p] EXCEPT !.pc = "release"]] /\ job' = job
    BY <1>3, GotoMoves DEF MarkDriver
  <2>2. [proc[p] EXCEPT !.pc = "release"] \in Thread
    BY <1>1 DEF Thread
  <2> QED BY <1>1, <1>2, <2>1, <2>2, WorkMoves
<1>4. CASE ReleaseClaim(p)
  BY <1>1, <1>2, <1>4, WorkEnds DEF ReleaseClaim
<1> QED BY <1>3, <1>4

(* The rider's and the driver's operations never make a ride wait.         *)
LEMMA RideStepDecides ==
  ASSUME MIInv, SomeoneDecides, RideStep
  PROVE  SomeoneDecides'
<1>1. UNCHANGED <<hedged, driver, offer, claim, job, proc, told, cut>>
  BY DEF RideStep, matchVars
<1>2. ASSUME NEW r \in Rides, CreateRide(r)
      PROVE  SomeoneDecides'
  <2>1. /\ ~Exists(r) /\ row'[r].status = "REQUESTED"
        /\ \A q \in Rides : q # r => row'[q] = row[q] /\ Exists(q)' = Exists(q)
    BY <1>2 DEF CreateRide, Write, Exists, MIInv, IInv, TypeOK
  <2>2. job[r].state = "none"
    BY <2>1 DEF SomeoneDecides
  <2>3. \A w \in Drivers \cup {Worker} : proc[<<r, w>>].pc = "idle"
    BY <2>1 DEF MIInv, RideIsKnown, Threads
  <2> SUFFICES ASSUME NEW q \in Rides
               PROVE  /\ job[q].state # "none" => Exists(q)'
                      /\ job[q].state = "none" => job[q].attempts = 0 /\ job[q].stalls = 0
                      /\ row'[q].status = "REQUESTED" =>
                           /\ JobRuns(q)
                           /\ \A w \in Drivers \cup {Worker} : StartsMatch(proc[<<q, w>>])
                      /\ row'[q].status = "MATCHING" /\ ~cut[q].deciding =>
                           \E w \in Drivers \cup {Worker} : Decides(proc[<<q, w>>])
    BY <1>1 DEF SomeoneDecides, StartsMatch, Decides, JobRuns, GivenUp
  <2>4. CASE q = r
    <3>1. JobRuns(r)
      BY <2>2 DEF SomeoneDecides, JobRuns, MIInv, MTypeOK, Cuts
    <3> QED BY <2>1, <2>2, <2>3, <2>4, <3>1 DEF StartsMatch, SomeoneDecides
  <2>5. CASE q # r
    BY <2>1, <2>5 DEF SomeoneDecides
  <2> QED BY <2>4, <2>5
<1>3. CASE Arrives(RideOps) \/ \E c \in Calls : PreRead(c) \/ Observe(c)
  <2>1. CASE Arrives(RideOps)
    BY <1>1, <2>1, NothingDropped DEF Arrives, Begin
  <2>2. CASE \E c \in Calls : PreRead(c) \/ Observe(c)
    BY <1>1, <2>2, NothingDropped DEF PreRead, Observe
  <2> QED BY <1>3, <2>1, <2>2
<1>4. ASSUME NEW c \in Calls, Commit(c)
      PROVE  SomeoneDecides'
  <2>1. CASE ~Wins(call[c])
    BY <1>1, <1>4, <2>1, NothingDropped DEF Commit
  <2>2. CASE Wins(call[c])
    <3>1. PICK f \in Frame : f = call[c]
      BY <1>4 DEF Commit, MIInv, IInv, TypeOK
    <3>2. PICK r \in Rides : r = f.ride
      BY DEF Frame
    <3> DEFINE p == <<r, Worker>>
    <3>3. CallOK(f) /\ f.op \in ApiOps /\ Write(r, Patched(row[r], f))
      BY <1>4, <2>2, <3>1, <3>2 DEF Commit, MIInv, IInv, CallsOK, CallersOnlyOperate
    <3>4. p \in Threads /\ p[1] = r /\ Exists(r)
      BY <3>2, <3>3 DEF Threads, CallOK
    <3>5. /\ row'[r].status = Target[f.op]
          /\ \A q \in Rides : q # r => row'[q] = row[q]
      BY <3>3 DEF Write, Patched, MIInv, IInv, TypeOK
    <3>6. row'[r].status # "REQUESTED" /\ row'[r].status # "MATCHING"
      BY <3>3, <3>5 DEF ApiOps, Ops, Target
    <3>7. Exists(r)'
      BY <1>4, <2>2, <3>4, CallWins
    <3>8. proc[p] \in Thread /\ proc' = [proc EXCEPT ![p] = proc[p]]
      BY <1>1, <3>4 DEF MIInv, MTypeOK
    <3> HIDE DEF p
    <3> QED BY <1>1, <3>4, <3>5, <3>6, <3>7, <3>8, RideDecided
  <2> QED BY <2>1, <2>2
<1> QED BY <1>2, <1>3, <1>4 DEF RideStep

LEMMA StepDecides ==
  ASSUME MIInv, SomeoneDecides, [MNext]_vars
  PROVE  SomeoneDecides'
<1>1. CASE RideStep
  BY <1>1, RideStepDecides
<1>2. CASE MRest \/ UNCHANGED vars
  BY <1>2, NothingDropped DEF MRest, Rest, vars, ridesVars, matchVars
<1>3. ASSUME NEW r \in Rides, Enqueue(r) \/ WorkerStep(r) \/ ClaimExpires(r)
      PROVE  SomeoneDecides'
  <2>1. CASE ClaimExpires(r)
    BY <2>1, NothingDropped DEF ClaimExpires, ridesVars
  <2> QED BY <1>3, <2>1, EnqueueDecides, WorkerDecides
<1>4. ASSUME NEW r \in Rides, NEW d \in Drivers,
             \/ Accept(r, d) \/ Reject(r, d) \/ HandlerStep(r, d)
             \/ OfferExpires(r, d) \/ RestoreDriver(r, d)
      PROVE  SomeoneDecides'
  <2>1. CASE Reject(r, d) \/ OfferExpires(r, d) \/ RestoreDriver(r, d)
    BY <2>1, NothingDropped DEF Reject, OfferExpires, RestoreDriver, RestoreEnds, ridesVars
  <2> QED BY <1>4, <2>1, HandlerDecides
<1>5. ASSUME NEW p \in Threads,
             ThreadStep(p) \/ Crash(p) \/ AwaitFails(p) \/ CommitUnanswered(p)
      PROVE  SomeoneDecides'
  <2>1. CASE ThreadStep(p)
    BY <2>1, FinalizeDecides, ObserveDecides, CommitDecides, FinishDecides DEF ThreadStep
  <2> QED BY <1>5, <2>1, CutDecides, UnansweredDecides
<1>6. ASSUME NEW d \in Drivers, NEW s \in StatusChoices, SetStatus(d, s)
      PROVE  SomeoneDecides'
  BY <1>6, NothingDropped DEF SetStatus, ridesVars
<1> QED BY <1>1, <1>2, <1>3, <1>4, <1>5, <1>6 DEF MNext

LEMMA InitDecides == ASSUME MInit PROVE SomeoneDecides
<1>1. \A r \in Rides : /\ job[r].state = "none" /\ job[r].attempts = 0 /\ job[r].stalls = 0
                       /\ row[r].status = "NONE"
  BY DEF MInit, Init, Absent
<1> QED BY <1>1 DEF SomeoneDecides

(* No ride is given up by a race: when its job is over, no thread works on *)
(* it and it still waits, then either it is REQUESTED and its job failed   *)
(* because a thread was cut short on every attempt or twice by a crash, or *)
(* it is MATCHING and a thread was cut short between the two moves.  For   *)
(* any number of drivers, retries, cancellations, crashes, failed awaits   *)
(* and lost races.                                                         *)
THEOREM NobodyAbandoned ==
  ASSUME "slow" \notin Faults
  PROVE  MSpec => []NoRideAbandoned
<1>1. MInit => SomeoneDecides
  BY InitDecides
<1>2. MIInv /\ SomeoneDecides /\ [MNext]_vars => SomeoneDecides'
  BY StepDecides
<1>3. SomeoneDecides => NoRideAbandoned
  <2> SUFFICES ASSUME SomeoneDecides, NEW r \in Rides,
                      job[r].state \in {"done", "failed"},
                      \A w \in Drivers \cup {Worker} : proc[<<r, w>>].pc = "idle"
               PROVE  /\ row[r].status = "REQUESTED" => GivenUp(r)
                      /\ row[r].status = "MATCHING" => cut[r].deciding
    BY DEF NoRideAbandoned
  <2> QED BY DEF SomeoneDecides, Decides, JobRuns
<1> QED BY <1>1, <1>2, <1>3, MInductive, PTL DEF MSpec
=============================================================================
