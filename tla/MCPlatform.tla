------------------------------ MODULE MCPlatform ------------------------------
(***************************************************************************)
(* The platform's services that share no state with each other, side by    *)
(* side: a behaviour is about one of them, so their state spaces add up.   *)
(***************************************************************************)
EXTENDS Outbox, Sessions, Presence, Seed, Notifications, Tracking, DriverPool

VARIABLE part

(* The variables of all the parts but one. *)
NotRelays == <<authVars, socketVars, seedVars, noteVars, trackVars, poolVars>>
NotLogin == <<outboxVars, socketVars, seedVars, noteVars, trackVars, poolVars>>
NotSockets == <<outboxVars, authVars, seedVars, noteVars, trackVars, poolVars>>
NotSeed == <<outboxVars, authVars, socketVars, noteVars, trackVars, poolVars>>
NotNotes == <<outboxVars, authVars, socketVars, seedVars, trackVars, poolVars>>
NotTracking == <<outboxVars, authVars, socketVars, seedVars, noteVars, poolVars>>
NotPool == <<outboxVars, authVars, socketVars, seedVars, noteVars, trackVars>>

Parts == {"relays", "login", "sockets", "seed", "notes", "tracking", "pool"}

MCInit == /\ part \in Parts
          /\ OutboxInit /\ AuthInit /\ PresenceInit
          /\ SeedInit /\ NotesInit /\ TrackInit /\ PoolInit
          /\ part # "relays" => brokered
          /\ part # "tracking" => located
          /\ part # "pool" => place = 0 /\ lag = 0

MCNext ==
  /\ \/ part = "relays" /\ OutboxNext /\ UNCHANGED NotRelays
     \/ part = "login" /\ AuthNext /\ UNCHANGED NotLogin
     \/ part = "sockets" /\ PresenceNext /\ UNCHANGED NotSockets
     \/ part = "seed" /\ SeedNext /\ UNCHANGED NotSeed
     \/ part = "notes" /\ NotesNext /\ UNCHANGED NotNotes
     \/ part = "tracking" /\ TrackNext /\ UNCHANGED NotTracking
     \/ part = "pool" /\ PoolNext /\ UNCHANGED NotPool
  /\ UNCHANGED part

MCSpec == /\ MCInit /\ [][MCNext]_<<outboxVars, NotRelays, part>>
          /\ OutboxFairness /\ NotesFairness /\ TrackFairness /\ PoolFairness
=============================================================================
