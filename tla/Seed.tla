--------------------------------- MODULE Seed ---------------------------------
(***************************************************************************)
(* The demo seed: a script that is run by hand, one at a time, with or     *)
(* without --reset, and may die at any step.  No step is a transaction     *)
(* with another.  The demo accounts are used between runs, not during one. *)
(* Redis outlives the rows: --reset deletes users, and the new ones get    *)
(* new ids.                                                                *)
(*                                                                         *)
(* DeleteSavedNot, used by no action, is a defective form of the           *)
(* definition after it.                                                    *)
(***************************************************************************)
EXTENDS Naturals

CONSTANTS
  SeedRiders, SeedDrivers,
  MaxSaved          \* bound: saved locations of a rider

ASSUME SeedAssumption == SeedRiders \cap SeedDrivers = {} /\ MaxSaved \in Nat /\ MaxSaved >= 2

VARIABLES
  stage,        \* the step the running seed is at
  riderRows,    \* demo riders that have a users row
  userRows,     \* demo drivers that have a users row
  driverRows,   \* demo accounts that have a drivers row
  online,       \* those whose row is ONLINE
  indexed,      \* accounts whose users id is in the geo pool
  former,       \* accounts with the id of a deleted users row in the geo pool
  fares,        \* the demo cities' fare configs are there
  promos,       \* the demo promos are there
  saved         \* saved locations per demo rider

workVars == <<driverRows, online, indexed, former>>
seedVars == <<stage, riderRows, userRows, workVars, fares, promos, saved>>

Accounts == SeedRiders \cup SeedDrivers

Stages == {"none", "deleteUsers", "deleteFares", "deletePromos", "fares", "riders",
           "driverUsers", "drivers", "geo", "promos", "deleteSaved", "save", "done"}

SeedInit == /\ stage = "none"
            /\ riderRows = {} /\ userRows = {} /\ driverRows = {}
            /\ online = {} /\ indexed = {} /\ former = {}
            /\ fares = FALSE /\ promos = FALSE
            /\ saved = [r \in SeedRiders |-> 0]

-----------------------------------------------------------------------------
RunSeed(reset) ==
  /\ stage \in {"none", "done"}
  /\ stage' = IF reset THEN "deleteUsers" ELSE "fares"
  /\ UNCHANGED <<riderRows, userRows, workVars, fares, promos, saved>>

(* --reset.  Every drivers row and saved location of the demo accounts     *)
(* goes with its user; their ids stay in the geo pool.                     *)
DeleteUsers ==
  /\ stage = "deleteUsers" /\ stage' = "deleteFares"
  /\ riderRows' = {} /\ userRows' = {} /\ driverRows' = {} /\ online' = {}
  /\ former' = former \cup indexed /\ indexed' = {}
  /\ saved' = [r \in SeedRiders |-> 0]
  /\ UNCHANGED <<fares, promos>>

DeleteFares == /\ stage = "deleteFares" /\ stage' = "deletePromos"
               /\ fares' = FALSE
               /\ UNCHANGED <<riderRows, userRows, workVars, promos, saved>>

DeletePromos == /\ stage = "deletePromos" /\ stage' = "fares"
                /\ promos' = FALSE
                /\ UNCHANGED <<riderRows, userRows, workVars, fares, saved>>

(* The upserts: fare configs, riders, one driver's user after the other,   *)
(* all drivers rows, the geo pool, promos.                                 *)
SeedFares == /\ stage = "fares" /\ stage' = "riders"
             /\ fares' = TRUE
             /\ UNCHANGED <<riderRows, userRows, workVars, promos, saved>>

UpsertRiders == /\ stage = "riders" /\ stage' = "driverUsers"
                /\ riderRows' = SeedRiders
                /\ UNCHANGED <<userRows, workVars, fares, promos, saved>>

UpsertDriverUser ==
  /\ stage = "driverUsers"
  /\ \E d \in SeedDrivers : userRows' = userRows \cup {d}
  /\ UNCHANGED <<stage, riderRows, workVars, fares, promos, saved>>

DriverUsersDone ==
  /\ stage = "driverUsers" /\ userRows = SeedDrivers
  /\ stage' = "drivers"
  /\ UNCHANGED <<riderRows, userRows, workVars, fares, promos, saved>>

UpsertDrivers == /\ stage = "drivers" /\ stage' = "geo"
                 /\ driverRows' = driverRows \cup SeedDrivers
                 /\ online' = online \cup SeedDrivers
                 /\ UNCHANGED <<riderRows, userRows, indexed, former, fares, promos, saved>>

PoolDriver ==
  /\ stage = "geo"
  /\ \E d \in SeedDrivers : indexed' = indexed \cup {d}
  /\ UNCHANGED <<stage, riderRows, userRows, driverRows, online, former, fares, promos, saved>>

PoolDone == /\ stage = "geo" /\ SeedDrivers \subseteq indexed
            /\ stage' = "promos"
            /\ UNCHANGED <<riderRows, userRows, workVars, fares, promos, saved>>

SeedPromos == /\ stage = "promos" /\ stage' = "deleteSaved"
              /\ promos' = TRUE
              /\ UNCHANGED <<riderRows, userRows, workVars, fares, saved>>

DeleteSavedNot == /\ stage = "deleteSaved" /\ stage' = "save"
                  /\ UNCHANGED <<riderRows, userRows, workVars, fares, promos, saved>>
DeleteSaved == /\ stage = "deleteSaved" /\ stage' = "save"
               /\ saved' = [r \in SeedRiders |-> 0]
               /\ UNCHANGED <<riderRows, userRows, workVars, fares, promos>>

SaveLocations == /\ stage = "save" /\ stage' = "done"
                 /\ saved' = [r \in SeedRiders |-> saved[r] + 2]
                 /\ UNCHANGED <<riderRows, userRows, workVars, fares, promos>>

SeedDies == /\ stage \notin {"none", "done"}
            /\ stage' = "none"
            /\ UNCHANGED <<riderRows, userRows, workVars, fares, promos, saved>>

(* Between runs riders save places, and register as drivers; drivers, who  *)
(* may be demo riders, go online, ping, and go offline.                    *)
Between == stage \in {"none", "done"} /\ stage' = "none"

RiderSaves(r) ==
  /\ Between /\ r \in riderRows /\ saved[r] < MaxSaved
  /\ saved' = [saved EXCEPT ![r] = @ + 1]
  /\ UNCHANGED <<riderRows, userRows, workVars, fares, promos>>

RiderRegisters(r) ==
  /\ Between /\ r \in riderRows \ driverRows
  /\ driverRows' = driverRows \cup {r}
  /\ UNCHANGED <<riderRows, userRows, online, indexed, former, fares, promos, saved>>

DriverComes(d) ==
  /\ Between /\ d \in driverRows
  /\ online' = online \cup {d}
  /\ UNCHANGED <<riderRows, userRows, driverRows, indexed, former, fares, promos, saved>>

DriverPings(d) ==
  /\ Between /\ d \in driverRows
  /\ indexed' = indexed \cup {d}
  /\ UNCHANGED <<riderRows, userRows, driverRows, online, former, fares, promos, saved>>

DriverGoes(d) ==
  /\ Between /\ d \in driverRows
  /\ online' = online \ {d} /\ indexed' = indexed \ {d}
  /\ UNCHANGED <<riderRows, userRows, driverRows, former, fares, promos, saved>>

DatabaseSteps == DeleteUsers \/ DeleteFares \/ DeletePromos \/ SeedFares \/ UpsertRiders
SeedNext == \/ \E reset \in BOOLEAN : RunSeed(reset)
            \/ DatabaseSteps
            \/ UpsertDriverUser \/ DriverUsersDone \/ UpsertDrivers
            \/ PoolDriver \/ PoolDone
            \/ SeedPromos \/ DeleteSaved \/ SaveLocations \/ SeedDies
            \/ \E r \in SeedRiders : RiderSaves(r) \/ RiderRegisters(r)
            \/ \E d \in Accounts : DriverComes(d) \/ DriverPings(d) \/ DriverGoes(d)

SeedSpec == SeedInit /\ [][SeedNext]_seedVars

-----------------------------------------------------------------------------
(* The seed can be run again (seed.ts:6: "idempotent, re-runnable"):        *)
(* whatever earlier runs left behind half done and whatever the accounts    *)
(* did since, a run that ends leaves every demo row, every demo driver      *)
(* ONLINE and in the geo pool, and each rider's two saved locations, not    *)
(* four.  Drivers rows of riders who registered stay.                       *)
SeedRepeatable ==
  stage = "done" => /\ fares /\ promos
                    /\ riderRows = SeedRiders /\ userRows = SeedDrivers
                    /\ SeedDrivers \subseteq online /\ SeedDrivers \subseteq indexed
                    /\ saved = [r \in SeedRiders |-> 2]

(* Why: every step of a run leaves behind what it is for, and nothing but   *)
(* the steps of a new run takes it away before the run has ended.           *)
AfterPromos == {"deleteSaved", "save", "done"}
AfterGeo == {"promos"} \cup AfterPromos
AfterDrivers == {"geo"} \cup AfterGeo
AfterUsers == {"drivers"} \cup AfterDrivers
AfterRiders == {"driverUsers"} \cup AfterUsers
AfterFares == {"riders"} \cup AfterRiders

SeedIInv ==
  /\ stage \in Stages
  /\ userRows \subseteq SeedDrivers
  /\ saved \in [SeedRiders -> Nat]
  /\ stage \in AfterFares => fares
  /\ stage \in AfterRiders => riderRows = SeedRiders
  /\ stage \in AfterUsers => userRows = SeedDrivers
  /\ stage \in AfterDrivers => SeedDrivers \subseteq online
  /\ stage \in AfterGeo => SeedDrivers \subseteq indexed
  /\ stage \in AfterPromos => promos
  /\ stage = "save" => saved = [r \in SeedRiders |-> 0]
  /\ stage = "done" => saved = [r \in SeedRiders |-> 2]
=============================================================================
