------------------------------ MODULE DriverPool ------------------------------
(***************************************************************************)
(* One driver as DriversService and GeoService know it: the status row,    *)
(* the geo index, the cached location and the heartbeat, written one after *)
(* the other by location pings (over REST or the tracking socket), status  *)
(* calls and the restore after a completed ride.                           *)
(*                                                                         *)
(* The driver moves along a line at one place per tick at most.  The       *)
(* client's clock may lag the server's.  RefusePingTouching, used by no    *)
(* action, is a defective form of the definition after it.                 *)
(***************************************************************************)
EXTENDS Integers

CONSTANTS
  MaxPlace,       \* bound: places on the line
  MaxLag,         \* bound: ticks the client's clock is behind, ticks a ping takes
  CacheTtl,       \* life of the cached location, in ticks
  BeatTtl,        \* life of the heartbeat
  MaxChanges      \* bound: status calls and restores in a run

ASSUME DriverPoolAssumption ==
  /\ MaxPlace \in Nat /\ MaxLag \in Nat /\ MaxChanges \in Nat
  /\ CacheTtl \in Nat \ {0} /\ BeatTtl \in Nat \ {0}

VARIABLES
  place,      \* where the driver is
  lag,        \* how far the client's clock is behind
  row,        \* drivers.status
  geo,        \* the driver's member of the geo index
  cache,      \* driver:<id>:location
  beat,       \* driver:<id>:heartbeat, ticks left
  ping,       \* the location ping being handled
  change,     \* the status call being handled
  restore,    \* DriversService.completeRide being run
  changes

poolVars == <<place, lag, row, geo, cache, beat, ping, change, restore, changes>>

Places == 0..MaxPlace
Off == -1
RowStatuses == {"OFFLINE", "ONLINE", "ON_RIDE"}
NoLocation == [ttl |-> 0, place |-> Off, age |-> 0]
Location(p, age) == [ttl |-> CacheTtl, place |-> p, age |-> age]
NoRestore == [pc |-> "idle", place |-> Off]
NoPing == [pc |-> "idle", place |-> Off, age |-> 0]

PoolInit == /\ place \in Places /\ lag \in 0..MaxLag
            /\ row = "none"
            /\ geo = Off /\ cache = NoLocation /\ beat = 0
            /\ ping = NoPing /\ change = "idle" /\ restore = NoRestore
            /\ changes = 0

-----------------------------------------------------------------------------
(* register, with the role in the same transaction. *)
Register ==
  /\ row = "none"
  /\ row' = "OFFLINE"
  /\ UNCHANGED <<place, lag, geo, cache, beat, ping, change, restore, changes>>

(* updateStatus: the row, then out of the index unless ONLINE. *)
ChangeStatus(status) ==
  /\ row # "none" /\ change = "idle" /\ changes < MaxChanges
  /\ row' = status
  /\ change' = IF status \in {"OFFLINE", "ON_RIDE"} THEN "remove" ELSE "idle"
  /\ changes' = changes + 1
  /\ UNCHANGED <<place, lag, geo, cache, beat, ping, restore>>

RemovePosition ==
  /\ change = "remove"
  /\ geo' = Off
  /\ change' = "idle"
  /\ UNCHANGED <<place, lag, row, cache, beat, ping, restore, changes>>

(* completeRide: ONLINE whatever the row was, then index, cache and        *)
(* heartbeat at the pickup.                                                *)
Restore(pickup) ==
  /\ row # "none" /\ restore = NoRestore /\ changes < MaxChanges
  /\ row' = "ONLINE"
  /\ restore' = [pc |-> "geo", place |-> pickup]
  /\ changes' = changes + 1
  /\ UNCHANGED <<place, lag, geo, cache, beat, ping, change>>

RestoreStep ==
  \/ /\ restore.pc = "geo" /\ geo' = restore.place
     /\ restore' = [restore EXCEPT !.pc = "cache"]
     /\ UNCHANGED <<place, lag, row, cache, beat, ping, change, changes>>
  \/ /\ restore.pc = "cache" /\ cache' = Location(restore.place, 0)
     /\ restore' = [restore EXCEPT !.pc = "beat"]
     /\ UNCHANGED <<place, lag, row, geo, beat, ping, change, changes>>
  \/ /\ restore.pc = "beat" /\ beat' = BeatTtl /\ restore' = NoRestore
     /\ UNCHANGED <<place, lag, row, geo, cache, ping, change, changes>>

-----------------------------------------------------------------------------
(* validateLocationJump: against the cached location, by its timestamps. *)
Distance(a, b) == IF a >= b THEN a - b ELSE b - a
PlausibleJump(p, age) ==
  \/ cache = NoLocation
  \/ cache.age > age /\ Distance(p, cache.place) <= cache.age - age

AcceptPing ==
  /\ row # "none" /\ ping = NoPing
  /\ PlausibleJump(place, lag)
  /\ ping' = [pc |-> "geo", place |-> place, age |-> lag]
  /\ UNCHANGED <<place, lag, row, geo, cache, beat, change, restore, changes>>

RefusePingTouching ==
  /\ row # "none" /\ ping = NoPing
  /\ ~PlausibleJump(place, lag)
  /\ cache' = [cache EXCEPT !.ttl = CacheTtl, !.age = lag]
  /\ UNCHANGED <<place, lag, row, geo, beat, ping, change, restore, changes>>
RefusePing ==
  /\ row # "none" /\ ping = NoPing
  /\ ~PlausibleJump(place, lag)
  /\ UNCHANGED poolVars

PingStep ==
  \/ /\ ping.pc = "geo" /\ geo' = ping.place /\ ping' = [ping EXCEPT !.pc = "cache"]
     /\ UNCHANGED <<place, lag, row, cache, beat, change, restore, changes>>
  \/ /\ ping.pc = "cache" /\ cache' = Location(ping.place, ping.age)
     /\ ping' = [ping EXCEPT !.pc = "beat"]
     /\ UNCHANGED <<place, lag, row, geo, beat, change, restore, changes>>
  \/ /\ ping.pc = "beat" /\ beat' = BeatTtl /\ ping' = NoPing
     /\ UNCHANGED <<place, lag, row, geo, cache, change, restore, changes>>

(* Time: the driver moves, keys grow old and expire.  A ping is handled    *)
(* within MaxLag + 1 ticks; nothing ages before the driver registers.      *)
OneTickOlder(l) == IF l.ttl <= 1 THEN NoLocation
                   ELSE [ttl |-> l.ttl - 1, place |-> l.place, age |-> l.age + 1]
Tick ==
  /\ row # "none"
  /\ ping = NoPing \/ ping.age <= MaxLag
  /\ place' \in {p \in Places : Distance(p, place) <= 1}
  /\ cache' = OneTickOlder(cache)
  /\ beat' = IF beat = 0 THEN 0 ELSE beat - 1
  /\ ping' = IF ping = NoPing THEN NoPing ELSE [ping EXCEPT !.age = @ + 1]
  /\ UNCHANGED <<lag, row, geo, change, restore, changes>>

(* Over REST or the tracking socket: the same check. *)
SendPing == AcceptPing \/ RefusePing

PoolNext == \/ Register
            \/ \E status \in RowStatuses : ChangeStatus(status)
            \/ RemovePosition
            \/ \E pickup \in Places : Restore(pickup)
            \/ RestoreStep
            \/ SendPing \/ PingStep
            \/ Tick

(* The app pings every few seconds, calls end, and time passes. *)
PoolFairness ==
  /\ WF_poolVars(AcceptPing) /\ WF_poolVars(PingStep)
  /\ WF_poolVars(RemovePosition)
  /\ WF_poolVars(RestoreStep)
  /\ WF_poolVars(Tick)

PoolSpec == PoolInit /\ [][PoolNext]_poolVars /\ PoolFairness

-----------------------------------------------------------------------------
(* findMatchableDrivers: indexed, fresh, ONLINE. *)
Matchable == geo # Off /\ beat > 0 /\ row = "ONLINE"

(* A driver whose app keeps pinging comes back into the pool again and     *)
(* again, once it stays ONLINE: neither a late removal from the index, nor *)
(* the restore that places it at the pickup, nor a lagging clock keeps its *)
(* pings out for good (validateLocationJump 196-212, updateStatus 84-101). *)
PingingDriverComesBack == <>[](row # "ONLINE") \/ []<>Matchable

=============================================================================
