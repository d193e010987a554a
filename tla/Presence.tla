------------------------------- MODULE Presence -------------------------------
(***************************************************************************)
(* TrackingGateway's registry for one user: which socket the user is       *)
(* reached at.  Every await of handleConnection and handleDisconnect is a  *)
(* step, so connections of the same user overlap, and a disconnect deletes *)
(* whatever is registered.                                                 *)
(*                                                                         *)
(* The gateway has a namespace, so its server is a Namespace, whose        *)
(* sockets is the Map itself: looking up a previous socket throws, and the *)
(* catch disconnects the new one.                                          *)
(*                                                                         *)
(* KickSwallowed, used by no action, is a defective form of Kick.          *)
(***************************************************************************)
EXTENDS Naturals

CONSTANTS Sockets, NoSocket

ASSUME PresenceAssumption == NoSocket \notin Sockets

VARIABLES
  connected,    \* the sockets that are connected
  hand,         \* where handleConnection of each socket is, and what it read
  registry,     \* socket:user:<id>
  leaving,      \* the sockets whose handleDisconnect has its DEL to do
  overlapped,   \* ghost: a socket connected while another's handler ran
  expired       \* ghost: a registration has outlived its 24 hours

socketVars == <<connected, hand, registry, leaving, overlapped, expired>>

Hand == [pc : {"new", "get", "check", "set", "name", "up", "rejected"},
         prev : Sockets \cup {NoSocket}]

PresenceInit == /\ connected = {} /\ leaving = {}
                /\ hand = [s \in Sockets |-> [pc |-> "new", prev |-> NoSocket]]
                /\ registry = NoSocket
                /\ overlapped = FALSE /\ expired = FALSE

HandTo(s, pc) == hand' = [hand EXCEPT ![s].pc = pc]
Busy(s) == hand[s].pc \in {"get", "check", "set", "name"}
IsUp(s) == hand[s].pc = "up"

Connect(s) ==
  /\ hand[s].pc = "new"
  /\ connected' = connected \cup {s}
  /\ HandTo(s, "get")
  /\ overlapped' = (overlapped \/ \E t \in Sockets : Busy(t))
  /\ UNCHANGED <<registry, leaving, expired>>

(* The catch: the new socket, which has no userId yet, is disconnected.    *)
Reject(s) == connected' = connected \ {s} /\ HandTo(s, "rejected")

GetPrev(s) ==
  /\ hand[s].pc = "get"
  /\ hand' = [hand EXCEPT ![s] = [pc |-> "check", prev |-> registry]]
  /\ UNCHANGED <<connected, registry, leaving, overlapped, expired>>

(* No token, an invalid one, or GET throws. *)
GetFails(s) ==
  /\ hand[s].pc = "get"
  /\ Reject(s)
  /\ UNCHANGED <<registry, leaving, overlapped, expired>>

NoPrev(s) ==
  /\ hand[s].pc = "check" /\ hand[s].prev \in {NoSocket, s}
  /\ HandTo(s, "set")
  /\ UNCHANGED <<connected, registry, leaving, overlapped, expired>>

KickSwallowed(s) ==
  /\ hand[s].pc = "check" /\ hand[s].prev \notin {NoSocket, s}
  /\ HandTo(s, "set")
  /\ UNCHANGED <<connected, registry, leaving, overlapped, expired>>
Kick(s) ==
  /\ hand[s].pc = "check" /\ hand[s].prev \notin {NoSocket, s}
  /\ Reject(s)
  /\ UNCHANGED <<registry, leaving, overlapped, expired>>

SetRegistry(s) ==
  /\ hand[s].pc = "set"
  /\ registry' = s
  /\ HandTo(s, "name")
  /\ UNCHANGED <<connected, leaving, overlapped, expired>>

(* SET throws, applied or not. *)
SetFails(s) ==
  /\ hand[s].pc = "set"
  /\ registry' \in {registry, s}
  /\ Reject(s)
  /\ UNCHANGED <<leaving, overlapped, expired>>

(* SET answers: userId and role into the socket, join of the user's room. *)
NameSocket(s) ==
  /\ hand[s].pc = "name"
  /\ HandTo(s, "up")
  /\ UNCHANGED <<connected, registry, leaving, overlapped, expired>>

(* handleDisconnect finds a userId only in a socket whose handler got that *)
(* far; a handler goes on after its socket has gone.                       *)
ClientLeaves(s) ==
  /\ s \in connected
  /\ connected' = connected \ {s}
  /\ leaving' = IF IsUp(s) THEN leaving \cup {s} ELSE leaving
  /\ UNCHANGED <<hand, registry, overlapped, expired>>

HandleDisconnect(s) ==
  /\ s \in leaving
  /\ registry' = NoSocket
  /\ leaving' = leaving \ {s}
  /\ UNCHANGED <<connected, hand, overlapped, expired>>

DelFails(s) ==
  /\ s \in leaving
  /\ leaving' = leaving \ {s}
  /\ UNCHANGED <<connected, hand, registry, overlapped, expired>>

RegistryExpires ==
  /\ registry # NoSocket
  /\ registry' = NoSocket /\ expired' = TRUE
  /\ UNCHANGED <<connected, hand, leaving, overlapped>>

HandStep(s) == \/ GetPrev(s) \/ GetFails(s) \/ NoPrev(s) \/ Kick(s)
               \/ SetRegistry(s) \/ SetFails(s) \/ NameSocket(s)
PresenceNext ==
  \/ RegistryExpires
  \/ \E s \in Sockets : \/ Connect(s) \/ HandStep(s)
                        \/ ClientLeaves(s) \/ HandleDisconnect(s) \/ DelFails(s)

PresenceSpec == PresenceInit /\ [][PresenceNext]_socketVars

-----------------------------------------------------------------------------
(* As long as the connections of the user did not overlap, a connected      *)
(* socket is the registered one, whatever fails and whenever clients leave: *)
(* a late DEL of an old socket does not meet the next one's registration,   *)
(* and no two sockets of the user are up at once (handleConnection 45-70).  *)
ConnectedIsRegistered ==
  ~expired /\ ~overlapped => \A s \in connected : IsUp(s) => registry = s

-----------------------------------------------------------------------------
(* Why: the one handler that runs found nobody registered, since whoever is *)
(* up or about to delete its registration still is registered.              *)
PresenceTypeOK ==
  /\ connected \subseteq Sockets /\ leaving \subseteq Sockets
  /\ hand \in [Sockets -> Hand]
  /\ registry \in Sockets \cup {NoSocket}
  /\ overlapped \in BOOLEAN /\ expired \in BOOLEAN

FoundNobody(s) == \/ hand[s].pc = "set"
                  \/ hand[s].pc = "check" /\ hand[s].prev = NoSocket

PresenceIInv ==
  /\ PresenceTypeOK
  /\ registry # NoSocket => hand[registry].pc \in {"name", "up", "rejected"}
  /\ \A s \in Sockets : hand[s].pc = "check" => hand[s].prev # s
  /\ \A s \in leaving : IsUp(s) /\ s \notin connected
  /\ ~expired /\ ~overlapped =>
       /\ \A s, t \in Sockets : Busy(s) /\ Busy(t) => s = t
       /\ \A s \in connected \cup leaving : IsUp(s) => registry = s
       /\ \A s \in Sockets : /\ FoundNobody(s) => registry = NoSocket
                             /\ hand[s].pc = "name" => registry = s
=============================================================================
