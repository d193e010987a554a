------------------------------ MODULE Settlement ------------------------------
(***************************************************************************)
(* SettlementService: every instance of the backend runs the nightly sweep *)
(* that credits each driver's wallet for the rides of the last 24 hours    *)
(* and pays the amount out.  Nothing marks a ride as settled, the credit   *)
(* is a read and a write, and nothing makes a night's sweep happen, start  *)
(* on time or come to its end.                                             *)
(*                                                                         *)
(* The clock ticks TicksPerDay times a day.  A ride pays its driver 1, net *)
(* of commission.  completedAt is stamped before the ride's read and       *)
(* UPDATE, and a repeated completion stamps it again (a COMPLETED ride may *)
(* move to COMPLETED), so a stamp is older than the row that shows it.     *)
(*                                                                         *)
(* NetOfAll, used by no action, is a defective form of the definition      *)
(* after it.                                                               *)
(***************************************************************************)
EXTENDS Naturals, FiniteSets

CONSTANTS
  Instances,      \* instances of the backend
  Captains,       \* the drivers
  NoCaptain,
  Trips,          \* the rides
  TicksPerDay,
  MaxClock,       \* bound: ticks in a run
  MaxStamps       \* bound: completions of a ride, repeated ones included

ASSUME SettlementAssumption ==
  /\ NoCaptain \notin Captains
  /\ TicksPerDay \in Nat \ {0} /\ MaxClock \in Nat /\ MaxStamps \in Nat
  /\ IsFiniteSet(Trips)

VARIABLES
  clock,
  stamp,     \* completions under way: driver and the completedAt they will write
  stamps,    \* completions begun, for each ride
  trip,      \* the rides' rows: driverId and completedAt
  wallet,    \* drivers.walletBalance
  sweep,     \* the sweep each instance is in
  begun,     \* the last night each instance began a sweep, counted from 1
  credits,   \* ghost: rides a driver's wallet was credited for, repeats included
  overlap    \* ghost: two sweeps were under way at a time

settleVars == <<clock, stamp, stamps, trip, wallet, sweep, begun, credits, overlap>>

Trip == [driver : Captains, at : 0..MaxClock]
NotCompleted == [at |-> "never"]
Phases == {"idle", "query", "loop", "write", "payout"}
NoSweep == [phase |-> "idle", since |-> 0, trips |-> {}, todo |-> {},
            driver |-> NoCaptain, balance |-> 0]

SettleInit == /\ clock = 0
              /\ stamp = [t \in Trips |-> NotCompleted]
              /\ stamps = [t \in Trips |-> 0]
              /\ trip = [t \in Trips |-> NotCompleted]
              /\ wallet = [d \in Captains |-> 0]
              /\ sweep = [i \in Instances |-> NoSweep]
              /\ begun = [i \in Instances |-> 0]
              /\ credits = [d \in Captains |-> 0]
              /\ overlap = FALSE

Completed == {t \in Trips : trip[t] # NotCompleted}

-----------------------------------------------------------------------------
(* A completion: the stamp, then the transition's read and UPDATE, which   *)
(* commits or does not (a lost race, an error).                            *)
StampTrip(t, d) ==
  /\ stamp[t] = NotCompleted /\ stamps[t] < MaxStamps
  /\ t \in Completed => d = trip[t].driver
  /\ stamp' = [stamp EXCEPT ![t] = [driver |-> d, at |-> clock]]
  /\ stamps' = [stamps EXCEPT ![t] = @ + 1]
  /\ UNCHANGED <<clock, trip, wallet, sweep, begun, credits, overlap>>

CompleteTrip(t) ==
  /\ stamp[t] # NotCompleted
  /\ \/ trip' = [trip EXCEPT ![t] = stamp[t]]
     \/ UNCHANGED trip
  /\ stamp' = [stamp EXCEPT ![t] = NotCompleted]
  /\ UNCHANGED <<clock, stamps, wallet, sweep, begun, credits, overlap>>

Tick == /\ clock < MaxClock
        /\ clock' = clock + 1
        /\ UNCHANGED <<stamp, stamps, trip, wallet, sweep, begun, credits, overlap>>

-----------------------------------------------------------------------------
SweepFrame == UNCHANGED <<clock, stamp, stamps, trip>>

(* The cron fires once a night in each instance, at the hour or later, or  *)
(* not at all; the window's start is 24 hours before this very moment.     *)
Night == clock \div TicksPerDay
SweepStart(i) ==
  /\ sweep[i].phase = "idle" /\ begun[i] < Night
  /\ begun' = [begun EXCEPT ![i] = Night]
  /\ sweep' = [sweep EXCEPT ![i].phase = "query", ![i].since = clock - TicksPerDay]
  /\ overlap' = (overlap \/ \E j \in Instances \ {i} : sweep[j].phase # "idle")
  /\ SweepFrame /\ UNCHANGED <<wallet, credits>>

Window(since) == {t \in Completed : trip[t].at >= since}

SweepQuery(i) ==
  LET trips == Window(sweep[i].since) IN
  /\ sweep[i].phase = "query"
  /\ sweep' = [sweep EXCEPT ![i].phase = "loop", ![i].trips = trips,
                            ![i].todo = {trip[t].driver : t \in trips}]
  /\ SweepFrame /\ UNCHANGED <<wallet, begun, credits, overlap>>

(* The loop's next driver: the wallet is read. *)
CreditRead(i, d) ==
  /\ sweep[i].phase = "loop" /\ d \in sweep[i].todo
  /\ sweep' = [sweep EXCEPT ![i].phase = "write", ![i].todo = @ \ {d},
                            ![i].driver = d, ![i].balance = wallet[d]]
  /\ SweepFrame /\ UNCHANGED <<wallet, begun, credits, overlap>>

RidesOf(i, d) == {t \in sweep[i].trips : trip[t].driver = d}
NetOfAll(i, d) == Cardinality(sweep[i].trips)
NetOf(i, d) == Cardinality(RidesOf(i, d))

CreditWrite(i) ==
  LET d == sweep[i].driver IN
  /\ sweep[i].phase = "write"
  /\ wallet' = [wallet EXCEPT ![d] = sweep[i].balance + NetOf(i, d)]
  /\ credits' = [credits EXCEPT ![d] = @ + Cardinality(RidesOf(i, d))]
  /\ sweep' = [sweep EXCEPT ![i].phase = "payout"]
  /\ SweepFrame /\ UNCHANGED <<begun, overlap>>

(* The payout, if the driver has an account: a failure is only logged, and *)
(* no state tells a driver paid out from one that was not.                 *)
Payout(i) ==
  /\ sweep[i].phase = "payout"
  /\ sweep' = [sweep EXCEPT ![i].phase = "loop", ![i].driver = NoCaptain, ![i].balance = 0]
  /\ SweepFrame /\ UNCHANGED <<wallet, begun, credits, overlap>>

SweepEnds(i) ==
  /\ sweep[i].phase = "loop" /\ sweep[i].todo = {}
  /\ sweep' = [sweep EXCEPT ![i] = NoSweep]
  /\ SweepFrame /\ UNCHANGED <<wallet, begun, credits, overlap>>

(* The instance dies, or the query, a read or a write of its sweep throws. *)
(* Nothing resumes it: the next cron tick is a day later.                  *)
SweepDies(i) ==
  /\ sweep[i].phase # "idle"
  /\ sweep' = [sweep EXCEPT ![i] = NoSweep]
  /\ SweepFrame /\ UNCHANGED <<wallet, begun, credits, overlap>>

SettleNext == \/ Tick
              \/ \E t \in Trips : CompleteTrip(t) \/ \E d \in Captains : StampTrip(t, d)
              \/ \E i \in Instances :
                   \/ SweepStart(i) \/ SweepQuery(i) \/ CreditWrite(i) \/ Payout(i)
                   \/ SweepEnds(i) \/ SweepDies(i)
                   \/ \E d \in Captains : CreditRead(i, d)

SettleSpec == SettleInit /\ [][SettleNext]_settleVars

-----------------------------------------------------------------------------
(* The books balance: a wallet never holds more than the credits that were  *)
(* written for its driver, and exactly those as long as no two sweeps were  *)
(* under way together, through sweeps that die between a read and a write,  *)
(* failed payouts, rides completed or stamped again while a sweep runs, and *)
(* nights that were missed (settleDaily 85-135).  An overlap can only lose  *)
(* credits, never invent or misplace them.                                  *)
BooksBalance == \A d \in Captains : /\ wallet[d] <= credits[d]
                                    /\ wallet[d] = credits[d] \/ overlap

-----------------------------------------------------------------------------
(* Why the books balance: a balance read by a sweep is covered by the       *)
(* credits written so far and, with one sweep at a time, is the wallet's.   *)
Sweep == [phase : Phases, since : Nat, trips : SUBSET Trips, todo : SUBSET Captains,
          driver : Captains \cup {NoCaptain}, balance : Nat]
SettleTypeOK ==
  /\ clock \in 0..MaxClock
  /\ stamp \in [Trips -> Trip \cup {NotCompleted}]
  /\ stamps \in [Trips -> 0..MaxStamps]
  /\ trip \in [Trips -> Trip \cup {NotCompleted}]
  /\ wallet \in [Captains -> Nat]
  /\ sweep \in [Instances -> Sweep]
  /\ begun \in [Instances -> 0..MaxClock]
  /\ credits \in [Captains -> Nat]
  /\ overlap \in BOOLEAN

Alone == \A i, j \in Instances : sweep[i].phase # "idle" /\ sweep[j].phase # "idle" => i = j
ReadIsCovered(i) ==
  sweep[i].phase = "write" =>
    /\ sweep[i].driver \in Captains
    /\ sweep[i].balance <= credits[sweep[i].driver]
    /\ sweep[i].balance = wallet[sweep[i].driver] \/ overlap
NetsFit == \A i \in Instances : sweep[i].trips \subseteq Completed

SettleIInv ==
  /\ SettleTypeOK
  /\ NetsFit
  /\ BooksBalance
  /\ Alone \/ overlap
  /\ \A i \in Instances : ReadIsCovered(i)
=============================================================================
