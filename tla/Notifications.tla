----------------------------- MODULE Notifications -----------------------------
(***************************************************************************)
(* NotificationsService and NotificationWorker: one job per notification,  *)
(* its channels one after the other.  A channel that is not configured, or *)
(* has no address, is skipped, and its provider's error is logged; the     *)
(* channel is over all the same.  The worker may die between two channels  *)
(* and the job then starts over.                                           *)
(*                                                                         *)
(* ChannelFailsThrowing, used by no action, is a defective form of the     *)
(* definition after it.                                                    *)
(***************************************************************************)
EXTENDS Naturals

CONSTANTS
  Notes,              \* the notifications
  NoteAttempts,       \* the queue's attempts per job
  MaxNoteCrashes      \* bound: times the worker dies in a run

ASSUME NotificationsAssumption == NoteAttempts \in Nat \ {0} /\ MaxNoteCrashes \in Nat

VARIABLES
  note,           \* the dispatch jobs
  delivered,      \* how often a provider took each notification, per channel
  noteCrashes

noteVars == <<note, delivered, noteCrashes>>

Channels == {"PUSH", "SMS", "EMAIL"}
NoNote == [state |-> "none", channels |-> {}, todo |-> {}, attempts |-> 0]

NotesInit == /\ note = [n \in Notes |-> NoNote]
             /\ delivered = [n \in Notes |-> [c \in Channels |-> 0]]
             /\ noteCrashes = 0

(* notify: any choice of channels; IN_APP has no dispatch. *)
Notify(n, channels) ==
  /\ note[n].state = "none"
  /\ note' = [note EXCEPT ![n] = [state |-> "queued", channels |-> channels,
                                  todo |-> channels, attempts |-> 0]]
  /\ UNCHANGED <<delivered, noteCrashes>>

StartNote(n) ==
  /\ note[n].state = "queued"
  /\ note' = [note EXCEPT ![n].state = "active", ![n].todo = note[n].channels]
  /\ UNCHANGED <<delivered, noteCrashes>>

(* PUSH before SMS before EMAIL. *)
NextChannel(n) ==
  CASE "PUSH" \in note[n].todo -> "PUSH"
    [] "PUSH" \notin note[n].todo /\ "SMS" \in note[n].todo -> "SMS"
    [] OTHER -> "EMAIL"

ChannelOver(n) == note' = [note EXCEPT ![n].todo = @ \ {NextChannel(n)}]

ChannelSends(n) ==
  /\ note[n].state = "active" /\ note[n].todo # {}
  /\ ChannelOver(n)
  /\ delivered' = [delivered EXCEPT ![n][NextChannel(n)] = @ + 1]
  /\ UNCHANGED noteCrashes

ChannelFailsThrowing(n) ==
  /\ note[n].state = "active" /\ note[n].todo # {}
  /\ note' = [note EXCEPT ![n].attempts = @ + 1,
                ![n].state = IF note[n].attempts + 1 < NoteAttempts THEN "queued" ELSE "failed"]
  /\ UNCHANGED <<delivered, noteCrashes>>
ChannelFails(n) ==
  /\ note[n].state = "active" /\ note[n].todo # {}
  /\ ChannelOver(n)
  /\ UNCHANGED <<delivered, noteCrashes>>

FinishNote(n) ==
  /\ note[n].state = "active" /\ note[n].todo = {}
  /\ note' = [note EXCEPT ![n].state = "done"]
  /\ UNCHANGED <<delivered, noteCrashes>>

NoteWorkerDies(n) ==
  /\ note[n].state = "active" /\ noteCrashes < MaxNoteCrashes
  /\ noteCrashes' = noteCrashes + 1
  /\ note' = [note EXCEPT ![n].state = "queued"]
  /\ UNCHANGED delivered

NoteStep(n) == StartNote(n) \/ ChannelSends(n) \/ ChannelFails(n) \/ FinishNote(n)

NotesNext == \E n \in Notes : \/ \E channels \in SUBSET Channels : Notify(n, channels)
                              \/ NoteStep(n) \/ NoteWorkerDies(n)

NotesFairness == \A n \in Notes : WF_noteVars(NoteStep(n))

NotesSpec == NotesInit /\ [][NotesNext]_noteVars /\ NotesFairness

-----------------------------------------------------------------------------
(* A channel that fails never blocks the ones after it: every job ends     *)
(* with no channel left (worker 22-23: "a bad credential never blocks the  *)
(* queue").                                                                *)
EveryChannelTried ==
  \A n \in Notes : note[n].state = "queued" ~> note[n].state = "done"

(* A provider sees a notification twice only after a crash. *)
RepeatsOnlyAfterCrash ==
  \A n \in Notes : \A c \in Channels : delivered[n][c] <= 1 + noteCrashes

(* Why: a channel still to be tried has been sent at most once per crash,   *)
(* and a waiting job has all its channels still to try.                     *)
NotesIInv ==
  /\ note \in [Notes -> [state : {"none", "queued", "active", "done"},
                         channels : SUBSET Channels, todo : SUBSET Channels,
                         attempts : {0}]]
  /\ delivered \in [Notes -> [Channels -> Nat]] /\ noteCrashes \in Nat
  /\ \A n \in Notes : \A c \in Channels :
       /\ delivered[n][c] <= 1 + noteCrashes
       /\ note[n].state = "none" => delivered[n][c] = 0
       /\ note[n].state = "queued" => delivered[n][c] <= noteCrashes
       /\ note[n].state = "active" /\ c \in note[n].todo => delivered[n][c] <= noteCrashes
=============================================================================
