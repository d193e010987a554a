------------------------------ MODULE MCMatching ------------------------------
(***************************************************************************)
(* Dispatch for TLC.  All operations on a ride beside all threads that may *)
(* be cut short are too many states, so a behaviour has the one or the     *)
(* other: hedged dispatch and the whole life of a ride with a worker that  *)
(* dies once; sequential dispatch and either the whole life of a ride with *)
(* no thread cut short, or a ride that is only ever cancelled, with up to  *)
(* MaxCuts threads of any kind cut short.  Sequential dispatch has every   *)
(* interleaving of hedged dispatch in which no driver answers before the   *)
(* last offer is out, and more.                                            *)
(***************************************************************************)
EXTENDS Matching, TLC

OnlyCancels == /\ \A c \in Calls : call[c] # Idle => call[c].op = "cancel"
               /\ \A r \in Rides : row[r].status \notin {"ARRIVED", "IN_PROGRESS", "COMPLETED"}

LifeOrCuts ==
  \A r \in Rides : IF hedged THEN cut'[r].times <= job'[r].stalls
                   ELSE cut'[r].times > 0 => OnlyCancels'

Symmetric == Permutations(Drivers)
=============================================================================
