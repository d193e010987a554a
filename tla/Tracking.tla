------------------------------- MODULE Tracking -------------------------------
(***************************************************************************)
(* TrackingService for one ride: every view reads the row, then the cached *)
(* ETA, and computes and caches a new one from the row it has read.  The   *)
(* trip may start in between.                                              *)
(*                                                                         *)
(* EtaNeverExpires, used by no action, is a defective form of the          *)
(* definition after it.                                                    *)
(***************************************************************************)
EXTENDS Naturals

CONSTANT Viewers

VARIABLES
  underWay,   \* the ride is IN_PROGRESS
  located,    \* the driver's position is cached
  eta,        \* eta:<ride>: the place the cached ETA is for
  view        \* the views being answered

trackVars == <<underWay, located, eta, view>>

NoView == [pc |-> "idle", underWay |-> FALSE]
EtaTo(started) == IF started THEN "dropoff" ELSE "pickup"

TrackInit == /\ underWay = FALSE /\ located \in BOOLEAN
             /\ eta = "none"
             /\ view = [v \in Viewers |-> NoView]

GetTracking(v) ==
  /\ view[v] = NoView
  /\ view' = [view EXCEPT ![v] = [pc |-> "eta", underWay |-> underWay]]
  /\ UNCHANGED <<underWay, located, eta>>

(* getEta: the cache, the driver's position, the route. *)
GetEta(v) ==
  /\ view[v].pc = "eta"
  /\ view' = [view EXCEPT ![v] = IF eta # "none" \/ ~located THEN NoView
                                 ELSE [@ EXCEPT !.pc = "write"]]
  /\ UNCHANGED <<underWay, located, eta>>

(* A failed write is swallowed. *)
CacheEta(v) ==
  /\ view[v].pc = "write"
  /\ eta' \in {eta, EtaTo(view[v].underWay)}
  /\ view' = [view EXCEPT ![v] = NoView]
  /\ UNCHANGED <<underWay, located>>

EtaNeverExpires == FALSE /\ UNCHANGED trackVars
EtaExpires == /\ eta # "none"
              /\ eta' = "none"
              /\ UNCHANGED <<underWay, located, view>>

TripStarts == /\ ~underWay
              /\ underWay' = TRUE
              /\ UNCHANGED <<located, eta, view>>

LocationComesAndGoes == /\ located' = ~located
                        /\ UNCHANGED <<underWay, eta, view>>

TrackNext == \/ \E v \in Viewers : GetTracking(v) \/ GetEta(v) \/ CacheEta(v)
             \/ EtaExpires \/ TripStarts \/ LocationComesAndGoes

(* Views are answered and Redis expires the key. *)
TrackFairness == /\ WF_trackVars(EtaExpires)
                 /\ \A v \in Viewers : WF_trackVars(GetEta(v) \/ CacheEta(v))

TrackSpec == TrackInit /\ [][TrackNext]_trackVars /\ TrackFairness

-----------------------------------------------------------------------------
(* The rider's ETA catches up with the trip: some time after it starts, no *)
(* view is answered with the way to the pickup any more, though views read *)
(* the row before it started and write the cache after (getEta 73-115).    *)
EtaCatchesUp == <>[](underWay => eta # "pickup")
=============================================================================
