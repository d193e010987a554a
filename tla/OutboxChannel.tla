---------------------------- MODULE OutboxChannel ----------------------------
(***************************************************************************)
(* What the outbox promises for the events of a ride: an at-least-once     *)
(* channel.  A committed event waits until it is delivered or given up,    *)
(* never vanishes, and one given up may still come through.  Nothing here  *)
(* says in which order.                                                    *)
(***************************************************************************)
CONSTANT Events

VARIABLES committed, delivered, abandoned

chan == <<committed, delivered, abandoned>>

ChanInit == committed = {} /\ delivered = {} /\ abandoned = {}

Send(e) == /\ e \notin committed
           /\ committed' = committed \cup {e}
           /\ UNCHANGED <<delivered, abandoned>>

Deliver(e) == /\ e \in committed \ delivered
              /\ delivered' = delivered \cup {e}
              /\ abandoned' = abandoned \ {e}
              /\ UNCHANGED committed

Abandon(e) == /\ e \in committed \ delivered
              /\ abandoned' = abandoned \cup {e}
              /\ UNCHANGED <<committed, delivered>>

Resume(e) == /\ e \in abandoned
             /\ abandoned' = abandoned \ {e}
             /\ UNCHANGED <<committed, delivered>>

ChanNext == \E e \in Events : Send(e) \/ Deliver(e) \/ Abandon(e) \/ Resume(e)

Decided == \A e \in Events : e \in committed ~> e \in delivered \cup abandoned

SafeSpec == ChanInit /\ [][ChanNext]_chan
Spec == SafeSpec /\ Decided
=============================================================================
