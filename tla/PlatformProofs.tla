---------------------------- MODULE PlatformProofs ----------------------------
(***************************************************************************)
(* The small services of the platform: notifications, the demo seed, the   *)
(* tracking gateway's registry and the login.  Each keeps its inductive    *)
(* invariant, for any number of notifications, accounts, sockets, calls    *)
(* and faults.                                                             *)
(***************************************************************************)
EXTENDS Presence, Seed, Notifications, Sessions, SequenceTheorems, TLAPS

-----------------------------------------------------------------------------
(* Notifications.  One job moves to q, and its deliveries are as counted.  *)
NoteRow == [state : {"none", "queued", "active", "done"},
            channels : SUBSET Channels, todo : SUBSET Channels, attempts : {0}]

Counted(q, times, allowed) ==
  \A c \in Channels :
    /\ times[c] <= 1 + allowed
    /\ q.state = "none" => times[c] = 0
    /\ q.state = "queued" => times[c] <= allowed
    /\ q.state = "active" /\ c \in q.todo => times[c] <= allowed

LEMMA NoteMoves ==
  ASSUME NotesIInv, NEW n \in Notes, NEW q \in NoteRow, note' = [note EXCEPT ![n] = q],
         delivered' \in [Notes -> [Channels -> Nat]],
         \A m \in Notes : m # n => delivered'[m] = delivered[m],
         noteCrashes' \in Nat, noteCrashes <= noteCrashes',
         Counted(q, delivered'[n], noteCrashes')
  PROVE  NotesIInv'
<1>1. /\ note' \in [Notes -> NoteRow] /\ note'[n] = q
      /\ \A m \in Notes : m # n => note'[m] = note[m]
  BY DEF NotesIInv, NoteRow
<1>2. ASSUME NEW m \in Notes, m # n
      PROVE  Counted(note'[m], delivered'[m], noteCrashes')
  <2> SUFFICES ASSUME NEW c \in Channels
               PROVE  /\ delivered[m][c] <= 1 + noteCrashes'
                      /\ note[m].state = "none" => delivered[m][c] = 0
                      /\ note[m].state = "queued" => delivered[m][c] <= noteCrashes'
                      /\ note[m].state = "active" /\ c \in note[m].todo
                           => delivered[m][c] <= noteCrashes'
    BY <1>1, <1>2 DEF Counted
  <2>1. delivered[m][c] \in Nat /\ noteCrashes \in Nat
    BY DEF NotesIInv
  <2> QED BY <2>1 DEF NotesIInv
<1>3. \A m \in Notes : Counted(note'[m], delivered'[m], noteCrashes')
  BY <1>1, <1>2
<1> QED BY <1>1, <1>3 DEF NotesIInv, NoteRow, Counted

LEMMA NoteTyped ==
  ASSUME NotesIInv, NEW n \in Notes
  PROVE  /\ note[n] \in NoteRow /\ delivered[n] \in [Channels -> Nat] /\ noteCrashes \in Nat
         /\ Counted(note[n], delivered[n], noteCrashes)
BY DEF NotesIInv, NoteRow, Counted

(* A step that delivers nothing. *)
LEMMA NoteMovesSilently ==
  ASSUME NotesIInv, NEW n \in Notes, NEW q \in NoteRow, note' = [note EXCEPT ![n] = q],
         UNCHANGED delivered, noteCrashes' \in Nat, noteCrashes <= noteCrashes',
         Counted(q, delivered[n], noteCrashes')
  PROVE  NotesIInv'
<1>1. /\ delivered' \in [Notes -> [Channels -> Nat]]
      /\ \A m \in Notes : m # n => delivered'[m] = delivered[m]
      /\ Counted(q, delivered'[n], noteCrashes')
  BY DEF NotesIInv
<1> QED BY <1>1, NoteMoves

LEMMA NotifyKeeps ==
  ASSUME NotesIInv, NEW n \in Notes, NEW channels \in SUBSET Channels, Notify(n, channels)
  PROVE  NotesIInv'
<1>1. PICK q : q = [state |-> "queued", channels |-> channels, todo |-> channels,
                    attempts |-> 0]
  OBVIOUS
<1>2. q \in NoteRow /\ q.state = "queued" /\ note' = [note EXCEPT ![n] = q]
  BY <1>1 DEF Notify, NoteRow
<1>3. Counted(q, delivered[n], noteCrashes)
  BY <1>2, NoteTyped DEF Notify, Counted
<1>4. UNCHANGED delivered /\ noteCrashes' = noteCrashes /\ noteCrashes \in Nat
  BY NoteTyped DEF Notify
<1>5. /\ noteCrashes' \in Nat /\ noteCrashes <= noteCrashes'
      /\ Counted(q, delivered[n], noteCrashes')
  BY <1>3, <1>4
<1> QED BY <1>1, <1>2, <1>4, <1>5, NoteMovesSilently

LEMMA StartNoteKeeps ==
  ASSUME NotesIInv, NEW n \in Notes, StartNote(n)
  PROVE  NotesIInv'
<1>1. PICK q : q = [note[n] EXCEPT !.state = "active", !.todo = note[n].channels]
  OBVIOUS
<1>2. q \in NoteRow /\ q.state = "active"
  BY <1>1, NoteTyped DEF NoteRow
<1>3. note' = [note EXCEPT ![n] = q]
  BY <1>1 DEF StartNote, NotesIInv
<1>4. Counted(q, delivered[n], noteCrashes)
  BY <1>2, NoteTyped DEF StartNote, Counted
<1>5. UNCHANGED delivered /\ noteCrashes' = noteCrashes /\ noteCrashes \in Nat
  BY NoteTyped DEF StartNote
<1>6. /\ noteCrashes' \in Nat /\ noteCrashes <= noteCrashes'
      /\ Counted(q, delivered[n], noteCrashes')
  BY <1>4, <1>5
<1> QED BY <1>1, <1>2, <1>3, <1>5, <1>6, NoteMovesSilently

(* The next channel is one that is still to be tried, and then no more. *)
LEMMA ChannelIsOver ==
  ASSUME NotesIInv, NEW n \in Notes, note[n].state = "active", note[n].todo # {},
         ChannelOver(n)
  PROVE  /\ NextChannel(n) \in note[n].todo /\ NextChannel(n) \in Channels
         /\ \E q \in NoteRow : /\ q.state = "active"
                               /\ q.todo = note[n].todo \ {NextChannel(n)}
                               /\ note' = [note EXCEPT ![n] = q]
<1>1. note[n] \in NoteRow
  BY NoteTyped
<1>2. note[n].todo \subseteq {"PUSH", "SMS", "EMAIL"}
  BY <1>1 DEF NoteRow, Channels
<1>3. NextChannel(n) \in note[n].todo /\ NextChannel(n) \in Channels
  BY <1>2 DEF NextChannel, Channels
<1>4. PICK q : q = [note[n] EXCEPT !.todo = note[n].todo \ {NextChannel(n)}]
  OBVIOUS
<1>5. q \in NoteRow /\ q.state = "active" /\ q.todo = note[n].todo \ {NextChannel(n)}
  BY <1>1, <1>4 DEF NoteRow
<1>6. note' = [note EXCEPT ![n] = q]
  BY <1>4 DEF ChannelOver, NotesIInv
<1> QED BY <1>3, <1>5, <1>6

LEMMA ChannelSendsKeeps ==
  ASSUME NotesIInv, NEW n \in Notes, ChannelSends(n)
  PROVE  NotesIInv'
<1>1. PICK ch : ch = NextChannel(n)
  OBVIOUS
<1>2. /\ note[n].state = "active" /\ note[n].todo # {} /\ ChannelOver(n)
      /\ delivered' = [delivered EXCEPT ![n][ch] = @ + 1]
      /\ UNCHANGED noteCrashes
  BY <1>1 DEF ChannelSends
<1>3. PICK q \in NoteRow : /\ q.state = "active" /\ q.todo = note[n].todo \ {ch}
                           /\ note' = [note EXCEPT ![n] = q]
  BY <1>1, <1>2, ChannelIsOver
<1>4. ch \in note[n].todo /\ ch \in Channels
  BY <1>1, <1>2, ChannelIsOver
<1>5. /\ delivered[n] \in [Channels -> Nat] /\ noteCrashes \in Nat
      /\ Counted(note[n], delivered[n], noteCrashes)
      /\ delivered \in [Notes -> [Channels -> Nat]]
  BY NoteTyped DEF NotesIInv
<1>6. /\ delivered' \in [Notes -> [Channels -> Nat]]
      /\ \A m \in Notes : m # n => delivered'[m] = delivered[m]
      /\ delivered'[n][ch] = delivered[n][ch] + 1
      /\ \A c \in Channels : c # ch => delivered'[n][c] = delivered[n][c]
  BY <1>2, <1>4, <1>5
<1>7. Counted(q, delivered'[n], noteCrashes)
  <2> SUFFICES ASSUME NEW c \in Channels
               PROVE  /\ delivered'[n][c] <= 1 + noteCrashes
                      /\ c \in q.todo => delivered'[n][c] <= noteCrashes
    BY <1>3 DEF Counted
  <2>1. delivered[n][ch] <= noteCrashes /\ delivered[n][ch] \in Nat
    BY <1>2, <1>4, <1>5 DEF Counted
  <2>2. CASE c = ch
    BY <1>3, <1>5, <1>6, <2>1, <2>2
  <2>3. CASE c # ch
    BY <1>2, <1>3, <1>5, <1>6, <2>3 DEF Counted
  <2> QED BY <2>2, <2>3
<1>8. /\ noteCrashes' \in Nat /\ noteCrashes <= noteCrashes'
      /\ Counted(q, delivered'[n], noteCrashes')
  BY <1>2, <1>5, <1>7
<1> QED BY <1>3, <1>6, <1>8, NoteMoves

LEMMA ChannelFailsKeeps ==
  ASSUME NotesIInv, NEW n \in Notes, ChannelFails(n)
  PROVE  NotesIInv'
<1>1. PICK q \in NoteRow : /\ q.state = "active" /\ q.todo = note[n].todo \ {NextChannel(n)}
                           /\ note' = [note EXCEPT ![n] = q]
  BY ChannelIsOver DEF ChannelFails
<1>2. Counted(q, delivered[n], noteCrashes)
  BY <1>1, NoteTyped DEF ChannelFails, Counted
<1>3. UNCHANGED delivered /\ noteCrashes' = noteCrashes /\ noteCrashes \in Nat
  BY NoteTyped DEF ChannelFails
<1>4. /\ noteCrashes' \in Nat /\ noteCrashes <= noteCrashes'
      /\ Counted(q, delivered[n], noteCrashes')
  BY <1>2, <1>3
<1> QED BY <1>1, <1>3, <1>4, NoteMovesSilently

LEMMA FinishNoteKeeps ==
  ASSUME NotesIInv, NEW n \in Notes, FinishNote(n)
  PROVE  NotesIInv'
<1>1. PICK q : q = [note[n] EXCEPT !.state = "done"]
  OBVIOUS
<1>2. q \in NoteRow /\ q.state = "done"
  BY <1>1, NoteTyped DEF NoteRow
<1>3. note' = [note EXCEPT ![n] = q]
  BY <1>1 DEF FinishNote, NotesIInv
<1>4. Counted(q, delivered[n], noteCrashes)
  BY <1>2, NoteTyped DEF Counted
<1>5. UNCHANGED delivered /\ noteCrashes' = noteCrashes /\ noteCrashes \in Nat
  BY NoteTyped DEF FinishNote
<1>6. /\ noteCrashes' \in Nat /\ noteCrashes <= noteCrashes'
      /\ Counted(q, delivered[n], noteCrashes')
  BY <1>4, <1>5
<1> QED BY <1>1, <1>2, <1>3, <1>5, <1>6, NoteMovesSilently

LEMMA NoteWorkerDiesKeeps ==
  ASSUME NotesIInv, NEW n \in Notes, NoteWorkerDies(n)
  PROVE  NotesIInv'
<1>1. PICK q : q = [note[n] EXCEPT !.state = "queued"]
  OBVIOUS
<1>2. q \in NoteRow /\ q.state = "queued"
  BY <1>1, NoteTyped DEF NoteRow
<1>3. /\ note' = [note EXCEPT ![n] = q] /\ UNCHANGED delivered
      /\ noteCrashes' = noteCrashes + 1 /\ noteCrashes \in Nat
  BY <1>1 DEF NoteWorkerDies, NotesIInv
<1>4. delivered[n] \in [Channels -> Nat] /\ Counted(note[n], delivered[n], noteCrashes)
  BY NoteTyped
<1>5. Counted(q, delivered[n], noteCrashes')
  BY <1>2, <1>3, <1>4 DEF Counted
<1>6. noteCrashes' \in Nat /\ noteCrashes <= noteCrashes'
  BY <1>3
<1> QED BY <1>2, <1>3, <1>5, <1>6, NoteMovesSilently

LEMMA InitNotesIInv == ASSUME NotesInit PROVE NotesIInv
<1>1. NoNote \in NoteRow /\ NoNote.state = "none"
  BY DEF NoNote, NoteRow
<1> QED BY <1>1 DEF NotesInit, NotesIInv, NoteRow

LEMMA NotesInductive == NotesSpec => []NotesIInv
<1>1. ASSUME NotesIInv, [NotesNext]_noteVars PROVE NotesIInv'
  <2>1. ASSUME NEW n \in Notes, \E channels \in SUBSET Channels : Notify(n, channels)
        PROVE  NotesIInv'
    BY <1>1, <2>1, NotifyKeeps
  <2>2. ASSUME NEW n \in Notes, NoteStep(n) \/ NoteWorkerDies(n)
        PROVE  NotesIInv'
    BY <1>1, <2>2, StartNoteKeeps, ChannelSendsKeeps, ChannelFailsKeeps, FinishNoteKeeps,
       NoteWorkerDiesKeeps DEF NoteStep
  <2>3. CASE UNCHANGED noteVars
    BY <1>1, <2>3 DEF NotesIInv, noteVars
  <2> QED BY <1>1, <2>1, <2>2, <2>3 DEF NotesNext
<1> QED BY <1>1, InitNotesIInv, PTL DEF NotesSpec

(* A provider sees a notification at most once more than workers died, for *)
(* any number of notifications (worker 30-105).                            *)
THEOREM NotesRepeatOnlyAfterCrash == NotesSpec => []RepeatsOnlyAfterCrash
<1>1. NotesIInv => RepeatsOnlyAfterCrash
  BY DEF NotesIInv, RepeatsOnlyAfterCrash
<1> QED BY <1>1, NotesInductive, PTL

-----------------------------------------------------------------------------
(* The demo seed. *)
LEMMA InitSeedIInv == ASSUME SeedInit PROVE SeedIInv
BY DEF SeedInit, SeedIInv, Stages, AfterFares, AfterRiders, AfterUsers, AfterDrivers, AfterGeo,
       AfterPromos

(* The steps of a run, from its first to its last. *)
LEMMA SeedRunsKeeps ==
  ASSUME SeedIInv,
         \/ \E reset \in BOOLEAN : RunSeed(reset)
         \/ DatabaseSteps
         \/ UpsertDriverUser \/ DriverUsersDone \/ UpsertDrivers
  PROVE  SeedIInv'
<1> USE DEF SeedIInv, Stages, AfterFares, AfterRiders, AfterUsers, AfterDrivers, AfterGeo,
            AfterPromos, workVars
<1>1. ASSUME NEW reset \in BOOLEAN, RunSeed(reset) PROVE SeedIInv'
  BY <1>1 DEF RunSeed
<1>2. CASE DeleteUsers
  BY <1>2 DEF DeleteUsers
<1>3. CASE DeleteFares \/ DeletePromos
  BY <1>3 DEF DeleteFares, DeletePromos
<1>4. CASE SeedFares \/ UpsertRiders
  BY <1>4 DEF SeedFares, UpsertRiders
<1>5. CASE UpsertDriverUser
  BY <1>5 DEF UpsertDriverUser
<1>6. CASE DriverUsersDone \/ UpsertDrivers
  BY <1>6 DEF DriverUsersDone, UpsertDrivers
<1> QED BY <1>1, <1>2, <1>3, <1>4, <1>5, <1>6 DEF DatabaseSteps

LEMMA SeedEndsKeeps ==
  ASSUME SeedIInv,
         PoolDriver \/ PoolDone \/ SeedPromos \/ DeleteSaved \/ SaveLocations \/ SeedDies
  PROVE  SeedIInv'
<1> USE DEF SeedIInv, Stages, AfterFares, AfterRiders, AfterUsers, AfterDrivers, AfterGeo,
            AfterPromos, workVars
<1>1. CASE PoolDriver \/ PoolDone
  BY <1>1 DEF PoolDriver, PoolDone
<1>2. CASE SeedPromos
  BY <1>2 DEF SeedPromos
<1>3. CASE DeleteSaved
  BY <1>3 DEF DeleteSaved
<1>4. CASE SaveLocations
  <2>1. \A r \in SeedRiders : saved[r] = 0
    BY <1>4 DEF SaveLocations
  <2>2. saved' = [r \in SeedRiders |-> 2]
    BY <1>4, <2>1 DEF SaveLocations
  <2> QED BY <1>4, <2>2 DEF SaveLocations
<1>5. CASE SeedDies
  BY <1>5 DEF SeedDies
<1> QED BY <1>1, <1>2, <1>3, <1>4, <1>5

(* Between runs the accounts are used: only a run in progress or at its end *)
(* promises anything of them.                                               *)
LEMMA SeedUseKeeps ==
  ASSUME SeedIInv,
         \/ \E r \in SeedRiders : RiderSaves(r) \/ RiderRegisters(r)
         \/ \E d \in Accounts : DriverComes(d) \/ DriverPings(d) \/ DriverGoes(d)
  PROVE  SeedIInv'
<1> USE DEF SeedIInv, Stages, AfterFares, AfterRiders, AfterUsers, AfterDrivers, AfterGeo,
            AfterPromos, workVars, Between
<1>1. ASSUME NEW r \in SeedRiders, RiderSaves(r) PROVE SeedIInv'
  BY <1>1 DEF RiderSaves
<1>2. ASSUME NEW r \in SeedRiders, RiderRegisters(r) PROVE SeedIInv'
  BY <1>2 DEF RiderRegisters
<1>3. ASSUME NEW d \in Accounts, DriverComes(d) \/ DriverPings(d) \/ DriverGoes(d)
      PROVE  SeedIInv'
  BY <1>3 DEF DriverComes, DriverPings, DriverGoes
<1> QED BY <1>1, <1>2, <1>3

LEMMA SeedInductive == SeedSpec => []SeedIInv
<1>1. SeedIInv /\ [SeedNext]_seedVars => SeedIInv'
  <2> SUFFICES ASSUME SeedIInv, [SeedNext]_seedVars PROVE SeedIInv'
    OBVIOUS
  <2>1. CASE UNCHANGED seedVars
    BY <2>1 DEF SeedIInv, seedVars, workVars
  <2> QED BY <2>1, SeedRunsKeeps, SeedEndsKeeps, SeedUseKeeps DEF SeedNext
<1> QED BY <1>1, InitSeedIInv, PTL DEF SeedSpec

(* Whatever earlier runs left half done, a run that ends leaves every demo *)
(* row, every demo driver ONLINE and in the pool and two saved locations   *)
(* per rider, for any accounts and any use of them between runs (main      *)
(* 395-437).  What stays in the pool besides them it does not say.         *)
THEOREM SeedIsRepeatable == SeedSpec => []SeedRepeatable
<1>1. SeedIInv => SeedRepeatable
  BY DEF SeedIInv, SeedRepeatable, AfterFares, AfterRiders, AfterUsers, AfterDrivers, AfterGeo,
         AfterPromos
<1> QED BY <1>1, SeedInductive, PTL

-----------------------------------------------------------------------------
(* The registry of one user.  One handler at a time, the socket that is up *)
(* is the one registered.                                                  *)
LEMMA InitPresenceIInv == ASSUME PresenceInit PROVE PresenceIInv
BY DEF PresenceInit, PresenceIInv, PresenceTypeOK, Hand, IsUp, Busy, FoundNobody

(* One socket's handler moves, and the others stay where they are. *)
LEMMA HandMoves ==
  ASSUME PresenceTypeOK, NEW s \in Sockets,
         NEW pc \in {"get", "check", "set", "name", "up", "rejected"}, HandTo(s, pc)
  PROVE  /\ hand' \in [Sockets -> Hand]
         /\ hand'[s].pc = pc /\ hand'[s].prev = hand[s].prev
         /\ \A t \in Sockets : t # s => hand'[t] = hand[t]
BY DEF PresenceTypeOK, HandTo, Hand

LEMMA ConnectKeeps ==
  ASSUME PresenceIInv, NEW s \in Sockets, Connect(s)
  PROVE  PresenceIInv'
<1>1. PresenceTypeOK /\ hand[s].pc = "new"
  BY DEF PresenceIInv, Connect
<1>2. /\ hand' \in [Sockets -> Hand] /\ hand'[s].pc = "get"
      /\ \A t \in Sockets : t # s => hand'[t] = hand[t]
  BY <1>1, HandMoves DEF Connect
<1>3. PresenceTypeOK'
  BY <1>1, <1>2 DEF PresenceTypeOK, Connect
<1>4. ASSUME ~overlapped' PROVE ~overlapped /\ \A t \in Sockets : ~Busy(t)
  BY <1>4 DEF Connect
<1> QED BY <1>1, <1>2, <1>3, <1>4 DEF PresenceIInv, PresenceTypeOK, Connect, IsUp, Busy, FoundNobody

LEMMA GetPrevKeeps ==
  ASSUME PresenceIInv, NEW s \in Sockets, GetPrev(s)
  PROVE  PresenceIInv'
<1>1. /\ PresenceTypeOK /\ hand[s].pc = "get"
      /\ UNCHANGED <<connected, registry, leaving, overlapped, expired>>
  BY DEF PresenceIInv, GetPrev
<1>2. /\ hand' \in [Sockets -> Hand]
      /\ hand'[s].pc = "check" /\ hand'[s].prev = registry
      /\ \A t \in Sockets : t # s => hand'[t] = hand[t]
  BY <1>1 DEF PresenceTypeOK, GetPrev, Hand
<1>3. PresenceTypeOK'
  BY <1>1, <1>2 DEF PresenceTypeOK
<1>4. registry # s
  BY <1>1, PresenceAssumption DEF PresenceIInv
<1> QED BY <1>1, <1>2, <1>3, <1>4 DEF PresenceIInv, PresenceTypeOK, IsUp, Busy, FoundNobody

(* The other steps of a handler. *)
LEMMA HandStepKeeps ==
  ASSUME PresenceIInv, NEW s \in Sockets,
         \/ GetFails(s) \/ NoPrev(s) \/ Kick(s)
         \/ SetRegistry(s) \/ SetFails(s) \/ NameSocket(s)
  PROVE  PresenceIInv'
<1>1. PresenceTypeOK
  BY DEF PresenceIInv
<1>2. CASE GetFails(s) \/ Kick(s) \/ SetFails(s)
  <2>1. /\ hand[s].pc \in {"get", "check", "set"} /\ HandTo(s, "rejected")
        /\ connected' = connected \ {s} /\ registry' \in {registry, s}
        /\ registry' = s => hand[s].pc = "set" \/ registry = s
        /\ UNCHANGED <<leaving, overlapped, expired>>
    BY <1>2 DEF GetFails, Kick, SetFails, Reject
  <2>2. /\ hand' \in [Sockets -> Hand] /\ hand'[s].pc = "rejected"
        /\ \A t \in Sockets : t # s => hand'[t] = hand[t]
    BY <1>1, <2>1, HandMoves
  <2>3. PresenceTypeOK'
    BY <1>1, <2>1, <2>2 DEF PresenceTypeOK
  <2> QED BY <1>1, <2>1, <2>2, <2>3, PresenceAssumption
          DEF PresenceIInv, PresenceTypeOK, IsUp, Busy, FoundNobody
<1>3. CASE NoPrev(s)
  <2>1. /\ hand[s].pc = "check" /\ HandTo(s, "set") /\ hand[s].prev = NoSocket
        /\ UNCHANGED <<connected, registry, leaving, overlapped, expired>>
    BY <1>3 DEF NoPrev, PresenceIInv
  <2>2. /\ hand' \in [Sockets -> Hand] /\ hand'[s].pc = "set"
        /\ \A t \in Sockets : t # s => hand'[t] = hand[t]
    BY <1>1, <2>1, HandMoves
  <2>3. PresenceTypeOK'
    BY <1>1, <2>1, <2>2 DEF PresenceTypeOK
  <2> QED BY <1>1, <2>1, <2>2, <2>3 DEF PresenceIInv, PresenceTypeOK, IsUp, Busy, FoundNobody
<1>4. CASE SetRegistry(s)
  <2>1. /\ hand[s].pc = "set" /\ HandTo(s, "name") /\ registry' = s
        /\ UNCHANGED <<connected, leaving, overlapped, expired>>
    BY <1>4 DEF SetRegistry
  <2>2. /\ hand' \in [Sockets -> Hand] /\ hand'[s].pc = "name"
        /\ \A t \in Sockets : t # s => hand'[t] = hand[t]
    BY <1>1, <2>1, HandMoves
  <2>3. PresenceTypeOK'
    BY <1>1, <2>1, <2>2 DEF PresenceTypeOK
  <2> QED BY <1>1, <2>1, <2>2, <2>3, PresenceAssumption
          DEF PresenceIInv, PresenceTypeOK, IsUp, Busy, FoundNobody
<1>5. CASE NameSocket(s)
  <2>1. /\ hand[s].pc = "name" /\ HandTo(s, "up")
        /\ UNCHANGED <<connected, registry, leaving, overlapped, expired>>
    BY <1>5 DEF NameSocket
  <2>2. /\ hand' \in [Sockets -> Hand] /\ hand'[s].pc = "up"
        /\ \A t \in Sockets : t # s => hand'[t] = hand[t]
    BY <1>1, <2>1, HandMoves
  <2>3. PresenceTypeOK'
    BY <1>1, <2>1, <2>2 DEF PresenceTypeOK
  <2> QED BY <1>1, <2>1, <2>2, <2>3 DEF PresenceIInv, PresenceTypeOK, IsUp, Busy, FoundNobody
<1> QED BY <1>2, <1>3, <1>4, <1>5

(* The socket goes, and its registration after it or on its own. *)
LEMMA SocketGoesKeeps ==
  ASSUME PresenceIInv,
         \/ RegistryExpires
         \/ \E s \in Sockets : ClientLeaves(s) \/ HandleDisconnect(s) \/ DelFails(s)
  PROVE  PresenceIInv'
<1> USE DEF PresenceIInv, PresenceTypeOK, IsUp, Busy, FoundNobody
<1>1. CASE RegistryExpires
  BY <1>1 DEF RegistryExpires
<1>2. ASSUME NEW s \in Sockets, ClientLeaves(s) PROVE PresenceIInv'
  BY <1>2 DEF ClientLeaves
<1>3. ASSUME NEW s \in Sockets, HandleDisconnect(s) PROVE PresenceIInv'
  <2>1. /\ s \in leaving /\ registry' = NoSocket /\ leaving' = leaving \ {s}
        /\ UNCHANGED <<connected, hand, overlapped, expired>>
    BY <1>3 DEF HandleDisconnect
  <2>2. ASSUME ~expired, ~overlapped
        PROVE  /\ \A t \in connected' \cup leaving' : hand[t].pc # "up"
               /\ \A t \in Sockets : hand[t].pc # "name"
    <3>1. registry = s /\ hand[s].pc = "up" /\ s \in Sockets
      BY <2>1, <2>2
    <3>2. \A t \in connected \cup leaving : hand[t].pc = "up" => registry = t
      BY <2>2
    <3>3. \A t \in Sockets : hand[t].pc = "name" => registry = t
      BY <2>2
    <3>4. s \notin connected
      BY <2>1
    <3> QED BY <2>1, <3>1, <3>2, <3>3, <3>4
  <2> QED BY <2>1, <2>2
<1>4. ASSUME NEW s \in Sockets, DelFails(s) PROVE PresenceIInv'
  BY <1>4 DEF DelFails
<1> QED BY <1>1, <1>2, <1>3, <1>4

LEMMA PresenceInductive == PresenceSpec => []PresenceIInv
<1>1. PresenceIInv /\ [PresenceNext]_socketVars => PresenceIInv'
  <2> SUFFICES ASSUME PresenceIInv, [PresenceNext]_socketVars PROVE PresenceIInv'
    OBVIOUS
  <2>1. ASSUME NEW s \in Sockets, Connect(s) \/ HandStep(s) PROVE PresenceIInv'
    BY <2>1, ConnectKeeps, GetPrevKeeps, HandStepKeeps DEF HandStep
  <2>2. CASE UNCHANGED socketVars
    BY <2>2 DEF socketVars, PresenceIInv, PresenceTypeOK, IsUp, Busy, FoundNobody
  <2> QED BY <2>1, <2>2, SocketGoesKeeps DEF PresenceNext
<1> QED BY <1>1, InitPresenceIInv, PTL DEF PresenceSpec

(* For any number of sockets of one user: as long as no two of their        *)
(* handlers overlapped and no registration outlived its 24 hours, a         *)
(* connected socket is the one registered, whatever Redis calls fail and    *)
(* however late an old socket's DEL comes (handleConnection 45-70).         *)
THEOREM ConnectedAreRegistered == PresenceSpec => []ConnectedIsRegistered
<1>1. PresenceIInv => ConnectedIsRegistered
  BY DEF PresenceIInv, PresenceTypeOK, ConnectedIsRegistered
<1> QED BY <1>1, PresenceInductive, PTL

-----------------------------------------------------------------------------
(* The login: one row per phone number, and one live refresh token per     *)
(* login while no two refreshes of it overlap.                             *)
LEMMA NoAuthIsTyped == /\ NoAuth \in AuthCall /\ NoAuth.token = 0
                       /\ NoAuth.pc = "idle" /\ "idle" \notin Rotating
BY SessionsAssumption DEF NoAuth, AuthCall, Rotating

(* A call that goes on keeps what it has read. *)
AuthPcs == {"idle", "set", "reset", "count", "burn", "clear", "forget", "find",
            "insert", "issue", "rotate", "reissue", "revokeAll"}

LEMMA CallGoesOn ==
  ASSUME AuthTypeOK, NEW c \in AuthCalls, NEW pc \in AuthPcs, AuthGoto(c, pc)
  PROVE  /\ auth' \in [AuthCalls -> AuthCall]
         /\ auth'[c].pc = pc /\ auth'[c].token = auth[c].token
         /\ \A d \in AuthCalls : d # c => auth'[d] = auth[d]
<1>1. auth \in [AuthCalls -> AuthCall]
  BY DEF AuthTypeOK
<1> DEFINE q == [auth[c] EXCEPT !.pc = pc]
<1>2. q \in AuthCall /\ q.pc = pc /\ q.token = auth[c].token
  BY <1>1 DEF AuthCall, AuthPcs
<1>3. auth' = [auth EXCEPT ![c] = q]
  BY <1>1 DEF AuthGoto
<1> HIDE DEF q
<1> QED BY <1>1, <1>2, <1>3

LEMMA CallEnds ==
  ASSUME AuthTypeOK, NEW c \in AuthCalls, AuthEnds(c)
  PROVE  /\ auth' \in [AuthCalls -> AuthCall] /\ auth'[c] = NoAuth
         /\ \A d \in AuthCalls : d # c => auth'[d] = auth[d]
BY NoAuthIsTyped DEF AuthTypeOK, AuthEnds

LEMMA CallEnters ==
  ASSUME AuthTypeOK, NEW c \in AuthCalls, NEW q \in AuthCall, auth' = [auth EXCEPT ![c] = q]
  PROVE  /\ auth' \in [AuthCalls -> AuthCall] /\ auth'[c] = q
         /\ \A d \in AuthCalls : d # c => auth'[d] = auth[d]
BY DEF AuthTypeOK

LEMMA TokensAreTyped ==
  ASSUME AuthTypeOK
  PROVE  /\ Len(tokens) \in Nat /\ DOMAIN tokens = 1..Len(tokens)
         /\ \A t \in DOMAIN tokens : /\ tokens[t] \in Token /\ tokens[t].login \in Nat
                                     /\ tokens[t].state \in {"live", "rotated", "dead"}
<1>1. tokens \in Seq(Token)
  BY DEF AuthTypeOK
<1>2. \A t \in DOMAIN tokens : tokens[t] \in Token
  BY <1>1, ElementOfSeq
<1> QED BY <1>1, <1>2, SessionsAssumption DEF Token

LEMMA NewTokenMoves ==
  ASSUME AuthTypeOK, NEW login \in 1..MaxTokens, NewToken(login)
  PROVE  /\ tokens' \in Seq(Token) /\ Len(tokens') = Len(tokens) + 1
         /\ Len(tokens') <= MaxTokens
         /\ DOMAIN tokens' = DOMAIN tokens \cup {Len(tokens) + 1}
         /\ Len(tokens) + 1 \notin DOMAIN tokens
         /\ tokens'[Len(tokens) + 1] = [login |-> login, state |-> "live"]
         /\ \A t \in DOMAIN tokens : tokens'[t] = tokens[t]
<1> DEFINE e == [login |-> login, state |-> "live"]  k == Len(tokens) + 1
<1>1. e \in Token /\ tokens' = Append(tokens, e) /\ tokens \in Seq(Token)
      /\ Len(tokens) < MaxTokens
  BY DEF Token, NewToken, AuthTypeOK
<1>2. /\ tokens' \in Seq(Token) /\ Len(tokens') = k /\ DOMAIN tokens' = 1..k
      /\ tokens'[k] = e /\ \A t \in 1..Len(tokens) : tokens'[t] = tokens[t]
  BY <1>1, AppendProperties
<1>3. Len(tokens) \in Nat /\ DOMAIN tokens = 1..Len(tokens) /\ MaxTokens \in Nat
  BY TokensAreTyped, SessionsAssumption
<1>4. 1..k = 1..Len(tokens) \cup {k} /\ k \notin 1..Len(tokens) /\ k <= MaxTokens
  BY <1>1, <1>3
<1> HIDE DEF k, e
<1>5. DOMAIN tokens' = DOMAIN tokens \cup {k} /\ k \notin DOMAIN tokens
  BY <1>2, <1>3, <1>4
<1> QED BY <1>1, <1>2, <1>3, <1>4, <1>5 DEF k, e

-----------------------------------------------------------------------------
(* Calls that stay, end, or do something other than a refresh, on tokens   *)
(* that only die, keep the refreshes apart.                                *)
CallsLeave == \A c \in AuthCalls :
  auth'[c] # auth[c] => auth'[c].token = 0 /\ auth'[c].pc \notin Rotating

TokensOnlyDie ==
  /\ DOMAIN tokens' = DOMAIN tokens
  /\ \A t \in DOMAIN tokens : /\ tokens'[t].login = tokens[t].login
                              /\ tokens'[t].state = "live" => tokens[t].state = "live"

LEMMA LeavingKeeps ==
  ASSUME AuthIInv, AuthTypeOK', CallsLeave, TokensOnlyDie, serial' = serial
  PROVE  AuthIInv'
<1>1. \A t \in DOMAIN tokens' : tokens'[t].login <= t
  BY DEF AuthIInv, TokensOnlyDie
<1>2. \A c \in AuthCalls : /\ auth'[c].token # 0 <=> auth'[c].pc \in Rotating
                           /\ auth'[c].token # 0 => auth'[c].token \in DOMAIN tokens'
  BY DEF AuthIInv, CallsLeave, TokensOnlyDie
<1>3. ASSUME NEW c \in AuthCalls, auth'[c].token # 0
      PROVE  auth'[c] = auth[c] /\ LoginOf(c)' = LoginOf(c)
  <2>1. auth'[c] = auth[c]
    BY <1>3 DEF CallsLeave
  <2>2. auth[c].token \in DOMAIN tokens
    BY <1>3, <2>1 DEF AuthIInv
  <2> QED BY <2>1, <2>2 DEF LoginOf, TokensOnlyDie
<1>4. \A login : LiveOf(login)' \subseteq LiveOf(login)
  BY DEF LiveOf, TokensOnlyDie
<1>5. serial' => RefreshesApart'
  <2> SUFFICES ASSUME serial' PROVE RefreshesApart'
    OBVIOUS
  <2>1. RefreshesApart
    BY DEF AuthIInv
  <2>2. \A c, d \in AuthCalls :
          auth'[c].token # 0 /\ auth'[d].token # 0 /\ LoginOf(c)' = LoginOf(d)' => c = d
    BY <1>3, <2>1 DEF RefreshesApart
  <2>3. ASSUME NEW c \in AuthCalls
        PROVE  /\ auth'[c].pc = "rotate" => LiveOf(LoginOf(c))' \subseteq {auth'[c].token}
               /\ auth'[c].pc = "reissue" => LiveOf(LoginOf(c))' = {}
    <3> SUFFICES ASSUME auth'[c].pc \in Rotating
                 PROVE  /\ auth'[c].pc = "rotate" =>
                             LiveOf(LoginOf(c))' \subseteq {auth'[c].token}
                        /\ auth'[c].pc = "reissue" => LiveOf(LoginOf(c))' = {}
      BY DEF Rotating
    <3>1. auth'[c] = auth[c] /\ LoginOf(c)' = LoginOf(c)
      BY <1>2, <1>3
    <3>2. LiveOf(LoginOf(c))' \subseteq LiveOf(LoginOf(c))
      BY <3>1 DEF LiveOf, TokensOnlyDie
    <3> QED BY <2>1, <3>1, <3>2 DEF RefreshesApart
  <2> QED BY <2>2, <2>3 DEF RefreshesApart
<1>6. OneLiveTokenWhileSerial'
  BY DEF AuthIInv, OneLiveTokenWhileSerial, TokensOnlyDie
<1> QED BY <1>1, <1>2, <1>5, <1>6 DEF AuthIInv

LEMMA SameTokens ==
  ASSUME tokens' = tokens
  PROVE  TokensOnlyDie
BY DEF TokensOnlyDie

-----------------------------------------------------------------------------
(* The steps of a call that refreshes nothing. *)
LEMMA CodeStepKeeps ==
  ASSUME AuthIInv, NEW c \in AuthCalls,
         \/ SendOtp(c) \/ SetCode(c) \/ ResetTries(c) \/ CountTry(c)
         \/ DeleteCode(c) \/ ForgetTries(c) \/ FindUser(c) \/ InsertUser(c)
         \/ AuthCallDies(c) \/ \E guess \in 0..sent : VerifyOtp(c, guess)
  PROVE  AuthIInv'
<1>1. AuthTypeOK /\ auth \in [AuthCalls -> AuthCall]
  BY DEF AuthIInv, AuthTypeOK
<1>2. tokens' = tokens /\ serial' = serial
  BY DEF SendOtp, SetCode, ResetTries, CountTry, DeleteCode, ForgetTries, FindUser,
         InsertUser, AuthCallDies, VerifyOtp
<1>3. \/ AuthEnds(c)
      \/ \E pc \in AuthPcs \ Rotating : AuthGoto(c, pc) /\ auth[c].pc \notin Rotating
      \/ \E guess \in 0..sent : VerifyOtp(c, guess)
  BY DEF SendOtp, SetCode, ResetTries, CountTry, DeleteCode, ForgetTries, FindUser,
         InsertUser, AuthCallDies, AuthPcs, Rotating, AuthAt
<1>4. auth' \in [AuthCalls -> AuthCall] /\ CallsLeave
  <2>1. CASE AuthEnds(c)
    BY <1>1, <2>1, CallEnds, NoAuthIsTyped DEF CallsLeave
  <2>2. CASE \E pc \in AuthPcs \ Rotating : AuthGoto(c, pc) /\ auth[c].pc \notin Rotating
    <3> PICK pc \in AuthPcs \ Rotating : AuthGoto(c, pc) /\ auth[c].pc \notin Rotating
      BY <2>2
    <3>1. auth[c].token = 0
      BY DEF AuthIInv
    <3> QED BY <1>1, <3>1, CallGoesOn DEF CallsLeave
  <2>3. CASE \E guess \in 0..sent : VerifyOtp(c, guess)
    <3> PICK guess \in 0..sent : VerifyOtp(c, guess)
      BY <2>3
    <3>1. guess \in 0..MaxSent /\ code \in 0..MaxSent /\ 0 \in 0..MaxTokens
      BY SessionsAssumption DEF AuthIInv, AuthTypeOK
    <3>2. PICK q : q = [NoAuth EXCEPT !.pc = "count", !.guess = guess, !.stored = code]
      OBVIOUS
    <3>3. auth' = [auth EXCEPT ![c] = q]
      BY <3>2 DEF VerifyOtp
    <3>4. q \in AuthCall /\ q.token = 0 /\ q.pc = "count"
      BY <3>1, <3>2 DEF AuthCall, NoAuth
    <3> QED BY <1>1, <3>3, <3>4, CallEnters DEF CallsLeave, Rotating
  <2> QED BY <1>3, <2>1, <2>2, <2>3
<1>5. /\ code' \in 0..MaxSent /\ young' \in BOOLEAN /\ sent' \in 0..MaxSent
      /\ users' \in 0..1 /\ authFaults' \in 0..MaxAuthFaults
  <2>1. /\ code \in 0..MaxSent /\ young \in BOOLEAN /\ sent \in 0..MaxSent
        /\ users \in 0..1 /\ authFaults \in 0..MaxAuthFaults /\ 0 \in 0..MaxSent
    BY <1>1, SessionsAssumption DEF AuthTypeOK
  <2>2. CASE SetCode(c)
    BY <2>1, <2>2, SessionsAssumption DEF SetCode
  <2>3. CASE InsertUser(c)
    BY <2>1, <2>3 DEF InsertUser
  <2>4. CASE AuthCallDies(c)
    BY <2>1, <2>4, SessionsAssumption DEF AuthCallDies
  <2>5. CASE SendOtp(c) \/ ResetTries(c) \/ CountTry(c) \/ DeleteCode(c) \/ ForgetTries(c)
             \/ FindUser(c) \/ \E guess \in 0..sent : VerifyOtp(c, guess)
    BY <2>1, <2>5 DEF SendOtp, ResetTries, CountTry, DeleteCode, ForgetTries, FindUser, VerifyOtp
  <2> QED BY <2>2, <2>3, <2>4, <2>5
<1>6. tries' \in 0..MaxTries + 1
  <2>1. CASE CountTry(c)
    BY <1>1, <2>1, SessionsAssumption DEF AuthTypeOK, CountTry
  <2>2. CASE ~CountTry(c)
    <3>1. tries' = tries \/ tries' = 0
      BY <2>2 DEF SendOtp, SetCode, ResetTries, DeleteCode, ForgetTries, FindUser, InsertUser,
                  AuthCallDies, VerifyOtp
    <3> QED BY <1>1, <3>1, SessionsAssumption DEF AuthTypeOK
  <2> QED BY <2>1, <2>2
<1>7. AuthTypeOK'
  BY <1>1, <1>2, <1>4, <1>5, <1>6 DEF AuthTypeOK
<1> QED BY <1>2, <1>4, <1>7, LeavingKeeps, SameTokens

LEMMA ClockKeeps ==
  ASSUME AuthIInv, CooldownEnds \/ CodeExpires \/ UNCHANGED authVars
  PROVE  AuthIInv'
<1>1. tokens' = tokens /\ serial' = serial /\ auth' = auth
  BY DEF CooldownEnds, CodeExpires, authVars
<1>2. 0 \in 0..MaxSent
  BY SessionsAssumption
<1>3. AuthTypeOK'
  BY <1>2 DEF AuthIInv, AuthTypeOK, CooldownEnds, CodeExpires, authVars
<1> QED BY <1>1, <1>3, LeavingKeeps, SameTokens DEF CallsLeave

(* Tokens that die. *)
LEMMA RevokeTokenKeeps ==
  ASSUME AuthIInv, NEW t \in DOMAIN tokens, RevokeToken(t)
  PROVE  AuthIInv'
<1>1. AuthTypeOK
  BY DEF AuthIInv
<1>2. tokens' = [tokens EXCEPT ![t].state = "dead"]
  BY DEF RevokeToken
<1> DEFINE e == [tokens[t] EXCEPT !.state = "dead"]
<1>3. e \in Token /\ e.login = tokens[t].login /\ e.state = "dead"
  BY <1>1, TokensAreTyped DEF Token
<1>4. tokens' = [tokens EXCEPT ![t] = e] /\ tokens \in Seq(Token)
  BY <1>1, <1>2 DEF AuthTypeOK
<1> HIDE DEF e
<1>5. tokens' \in Seq(Token) /\ Len(tokens') = Len(tokens) /\ TokensOnlyDie
  <2>1. t \in 1..Len(tokens) /\ DOMAIN tokens = 1..Len(tokens)
    BY <1>1, TokensAreTyped
  <2>2. /\ tokens' \in Seq(Token) /\ Len(tokens') = Len(tokens)
        /\ \A u \in 1..Len(tokens) : tokens'[u] = IF u = t THEN e ELSE tokens[u]
    BY <1>3, <1>4, <2>1, ExceptSeq
  <2>3. DOMAIN tokens' = DOMAIN tokens
    BY <1>4
  <2> QED BY <1>3, <2>1, <2>2, <2>3 DEF TokensOnlyDie
<1>6. AuthTypeOK'
  BY <1>1, <1>5 DEF AuthTypeOK, RevokeToken
<1> QED BY <1>5, <1>6, LeavingKeeps DEF CallsLeave, RevokeToken

LEMMA RevokeAllKeeps ==
  ASSUME AuthIInv, NEW c \in AuthCalls, RevokeAll(c)
  PROVE  AuthIInv'
<1>1. AuthTypeOK
  BY DEF AuthIInv
<1>2. tokens' = [t \in DOMAIN tokens |-> [tokens[t] EXCEPT !.state = "dead"]]
  BY DEF RevokeAll
<1>3. \A t \in DOMAIN tokens : /\ [tokens[t] EXCEPT !.state = "dead"] \in Token
                               /\ tokens'[t].login = tokens[t].login
                               /\ tokens'[t].state = "dead"
  BY <1>1, <1>2, TokensAreTyped DEF Token
<1>4. tokens' \in Seq(Token) /\ Len(tokens') = Len(tokens) /\ TokensOnlyDie
  <2>1. Len(tokens) \in Nat /\ DOMAIN tokens = 1..Len(tokens)
    BY <1>1, TokensAreTyped
  <2>2. tokens' \in [1..Len(tokens) -> Token]
    BY <1>2, <1>3, <2>1
  <2>3. tokens' \in Seq(Token) /\ Len(tokens') = Len(tokens)
    BY <1>2, <2>1, <2>2, SeqDef
  <2> QED BY <1>2, <1>3, <2>3 DEF TokensOnlyDie
<1>5. auth' \in [AuthCalls -> AuthCall] /\ CallsLeave
  BY <1>1, CallEnds, NoAuthIsTyped DEF RevokeAll, CallsLeave
<1>6. AuthTypeOK'
  BY <1>1, <1>4, <1>5 DEF AuthTypeOK, RevokeAll
<1> QED BY <1>4, <1>5, <1>6, LeavingKeeps DEF RevokeAll

-----------------------------------------------------------------------------
(* A login's first token: nothing refers to that login yet. *)
LEMMA IssueTokensKeeps ==
  ASSUME AuthIInv, NEW c \in AuthCalls, IssueTokens(c)
  PROVE  AuthIInv'
<1> DEFINE k == Len(tokens) + 1
<1>1. AuthTypeOK /\ Len(tokens) \in Nat /\ DOMAIN tokens = 1..Len(tokens)
      /\ k \in 1..MaxTokens
  BY TokensAreTyped, SessionsAssumption DEF AuthIInv, IssueTokens, NewToken
<1>2. /\ tokens' \in Seq(Token) /\ Len(tokens') = k /\ Len(tokens') <= MaxTokens
      /\ DOMAIN tokens' = DOMAIN tokens \cup {k} /\ k \notin DOMAIN tokens
      /\ tokens'[k] = [login |-> k, state |-> "live"]
      /\ \A t \in DOMAIN tokens : tokens'[t] = tokens[t]
  BY <1>1, NewTokenMoves DEF IssueTokens
<1>3. \A t \in DOMAIN tokens : tokens[t].login # k
  <2> SUFFICES ASSUME NEW t \in DOMAIN tokens PROVE tokens[t].login # k
    OBVIOUS
  <2>1. tokens[t].login <= t /\ tokens[t].login \in Nat /\ t \in 1..Len(tokens)
    BY <1>1, TokensAreTyped DEF AuthIInv
  <2> QED BY <1>1, <2>1
<1> HIDE DEF k
<1>4. /\ auth' \in [AuthCalls -> AuthCall] /\ auth'[c] = NoAuth
      /\ \A d \in AuthCalls : d # c => auth'[d] = auth[d]
  BY <1>1, CallEnds DEF IssueTokens
<1>5. AuthTypeOK' /\ serial' = serial
  BY <1>1, <1>2, <1>4 DEF AuthTypeOK, IssueTokens
<1>6. \A t \in DOMAIN tokens' : tokens'[t].login <= t
  BY <1>1, <1>2 DEF AuthIInv
<1>7. \A d \in AuthCalls : /\ auth'[d].token # 0 <=> auth'[d].pc \in Rotating
                           /\ auth'[d].token # 0 => auth'[d].token \in DOMAIN tokens'
  BY <1>2, <1>4, NoAuthIsTyped DEF AuthIInv
<1>8. ASSUME NEW d \in AuthCalls, auth'[d].token # 0
      PROVE  /\ auth'[d] = auth[d] /\ LoginOf(d)' = LoginOf(d)
             /\ LiveOf(LoginOf(d))' = LiveOf(LoginOf(d))
  <2>1. auth'[d] = auth[d] /\ auth[d].token \in DOMAIN tokens
    BY <1>4, <1>8, NoAuthIsTyped DEF AuthIInv
  <2>2. LoginOf(d)' = LoginOf(d) /\ LoginOf(d) # k
    BY <1>2, <1>3, <2>1 DEF LoginOf
  <2>3. LiveOf(LoginOf(d))' = {t \in DOMAIN tokens' : tokens'[t].state = "live"
                                                      /\ tokens'[t].login = LoginOf(d)}
    BY <2>2 DEF LiveOf
  <2> QED BY <1>2, <2>1, <2>2, <2>3 DEF LiveOf
<1>9. serial' => RefreshesApart'
  <2> SUFFICES ASSUME serial PROVE RefreshesApart'
    BY <1>5
  <2>1. RefreshesApart
    BY DEF AuthIInv
  <2> QED BY <1>7, <1>8, <2>1 DEF RefreshesApart, Rotating
<1>10. OneLiveTokenWhileSerial'
  BY <1>2, <1>3, <1>5 DEF AuthIInv, OneLiveTokenWhileSerial
<1> QED BY <1>5, <1>6, <1>7, <1>9, <1>10 DEF AuthIInv

(* A refresh begins: alone, it has the login's only live token. *)
LEMMA RefreshKeeps ==
  ASSUME AuthIInv, NEW c \in AuthCalls, NEW t \in DOMAIN tokens, Refresh(c, t)
  PROVE  AuthIInv'
<1>1. AuthTypeOK /\ t \in 1..MaxTokens /\ t # 0
  <2>1. t \in 1..Len(tokens) /\ Len(tokens) <= MaxTokens /\ Len(tokens) \in Nat
    BY TokensAreTyped DEF AuthIInv, AuthTypeOK
  <2> QED BY <2>1, SessionsAssumption DEF AuthIInv
<1> DEFINE pc == IF tokens[t].state = "rotated" THEN "revokeAll" ELSE "rotate"
<1>2. PICK q : q = [NoAuth EXCEPT !.pc = pc, !.token = t]
  OBVIOUS
<1>3. /\ q \in AuthCall /\ q.token = t
      /\ q.pc = "rotate" => tokens[t].state = "live"
      /\ q.pc \in {"rotate", "revokeAll"}
  <2>1. tokens[t].state \in {"live", "rotated"}
    BY <1>1, TokensAreTyped DEF Refresh
  <2>2. 0 \in 0..MaxSent /\ t \in 0..MaxTokens
    BY <1>1, SessionsAssumption
  <2>3. pc \in {"rotate", "revokeAll"} /\ (pc = "rotate" => tokens[t].state = "live")
    BY <2>1
  <2> HIDE DEF pc
  <2> QED BY <1>2, <2>2, <2>3 DEF AuthCall, NoAuth
<1>4. auth' = [auth EXCEPT ![c] = q] /\ tokens' = tokens
  BY <1>2 DEF Refresh
<1>5. /\ auth' \in [AuthCalls -> AuthCall] /\ auth'[c] = q
      /\ \A d \in AuthCalls : d # c => auth'[d] = auth[d]
  BY <1>1, <1>3, <1>4, CallEnters
<1>6. AuthTypeOK'
  BY <1>1, <1>4, <1>5 DEF AuthTypeOK, Refresh
<1>7. \A d \in AuthCalls : /\ auth'[d].token # 0 <=> auth'[d].pc \in Rotating
                           /\ auth'[d].token # 0 => auth'[d].token \in DOMAIN tokens'
  BY <1>1, <1>3, <1>4, <1>5 DEF AuthIInv, Rotating
<1>8. serial' => /\ RefreshesApart /\ OneLiveTokenWhileSerial /\ serial
                 /\ \A d \in AuthCalls : auth[d].token # 0 => LoginOf(d) # tokens[t].login
  BY DEF AuthIInv, Refresh, Refreshing, LoginOf
<1>9. LoginOf(c)' = tokens[t].login
      /\ \A d \in AuthCalls : d # c => LoginOf(d)' = LoginOf(d)
      /\ \A login : LiveOf(login)' = LiveOf(login)
  BY <1>3, <1>4, <1>5 DEF LoginOf, LiveOf
<1>10. serial' => RefreshesApart'
  <2> SUFFICES ASSUME serial' PROVE RefreshesApart'
    OBVIOUS
  <2>1. \A d, e \in AuthCalls :
          auth'[d].token # 0 /\ auth'[e].token # 0 /\ LoginOf(d)' = LoginOf(e)' => d = e
    BY <1>5, <1>8, <1>9 DEF RefreshesApart
  <2>2. ASSUME NEW d \in AuthCalls
        PROVE  /\ auth'[d].pc = "rotate" => LiveOf(LoginOf(d))' \subseteq {auth'[d].token}
               /\ auth'[d].pc = "reissue" => LiveOf(LoginOf(d))' = {}
    <3>1. CASE d # c
      <4>1. LiveOf(LoginOf(d))' = LiveOf(LoginOf(d))
        BY <1>4, <1>9, <3>1 DEF LiveOf
      <4> QED BY <1>5, <1>8, <3>1, <4>1 DEF RefreshesApart
    <3>2. CASE d = c
      <4>1. LiveOf(LoginOf(d))' = LiveOf(tokens[t].login)
        BY <1>4, <1>9, <3>2 DEF LiveOf
      <4>2. tokens[t].state = "live" => LiveOf(tokens[t].login) \subseteq {t}
        BY <1>8 DEF LiveOf, OneLiveTokenWhileSerial
      <4> QED BY <1>3, <1>5, <3>2, <4>1, <4>2
    <3> QED BY <3>1, <3>2
  <2> QED BY <2>1, <2>2 DEF RefreshesApart
<1>11. OneLiveTokenWhileSerial'
  BY <1>4, <1>8 DEF OneLiveTokenWhileSerial
<1>12. \A u \in DOMAIN tokens' : tokens'[u].login <= u
  BY <1>4 DEF AuthIInv
<1> QED BY <1>6, <1>7, <1>10, <1>11, <1>12 DEF AuthIInv

(* The mark takes the login's last live token. *)
LEMMA MarkRotatedKeeps ==
  ASSUME AuthIInv, NEW c \in AuthCalls, MarkRotated(c)
  PROVE  AuthIInv'
<1> DEFINE t == auth[c].token
<1>1. AuthTypeOK /\ auth[c].pc = "rotate" /\ t # 0 /\ t \in DOMAIN tokens
  BY DEF AuthIInv, MarkRotated, AuthAt, Rotating
<1>2. PICK e : e = Rotated(tokens[t])
  OBVIOUS
<1>3. e \in Token /\ e.login = tokens[t].login /\ e.state # "live"
  BY <1>1, <1>2, TokensAreTyped DEF Rotated, Token
<1>4. tokens' = [tokens EXCEPT ![t] = e] /\ tokens \in Seq(Token) /\ serial' = serial
  BY <1>1, <1>2 DEF MarkRotated, AuthTypeOK
<1>5. /\ tokens' \in Seq(Token) /\ Len(tokens') = Len(tokens)
      /\ DOMAIN tokens' = DOMAIN tokens
      /\ \A u \in DOMAIN tokens : tokens'[u] = IF u = t THEN e ELSE tokens[u]
  <2>1. t \in 1..Len(tokens) /\ DOMAIN tokens = 1..Len(tokens)
    BY <1>1, TokensAreTyped
  <2> HIDE DEF t
  <2> QED BY <1>3, <1>4, <2>1, ExceptSeq
<1>6. /\ auth' \in [AuthCalls -> AuthCall]
      /\ auth'[c].pc = "reissue" /\ auth'[c].token = t
      /\ \A d \in AuthCalls : d # c => auth'[d] = auth[d]
  <2>1. AuthGoto(c, "reissue") /\ "reissue" \in AuthPcs
    BY DEF MarkRotated, AuthPcs
  <2> QED BY <1>1, <2>1, CallGoesOn
<1>7. AuthTypeOK'
  BY <1>1, <1>5, <1>6 DEF AuthTypeOK, MarkRotated
<1>8. \A d \in AuthCalls : /\ auth'[d].token # 0 <=> auth'[d].pc \in Rotating
                           /\ auth'[d].token # 0 => auth'[d].token \in DOMAIN tokens'
  BY <1>1, <1>5, <1>6 DEF AuthIInv, Rotating
<1>9. \A u \in DOMAIN tokens : /\ tokens'[u].login = tokens[u].login
                               /\ tokens'[u].state = "live" => tokens[u].state = "live" /\ u # t
  BY <1>3, <1>5
<1>10. \A d \in AuthCalls : auth'[d].token = auth[d].token
                            /\ (auth[d].token # 0 => LoginOf(d)' = LoginOf(d))
  <2> SUFFICES ASSUME NEW d \in AuthCalls
               PROVE  /\ auth'[d].token = auth[d].token
                      /\ auth[d].token # 0 => LoginOf(d)' = LoginOf(d)
    OBVIOUS
  <2>1. auth'[d].token = auth[d].token
    BY <1>6
  <2>2. auth[d].token # 0 => auth[d].token \in DOMAIN tokens
    BY DEF AuthIInv
  <2> QED BY <1>9, <2>1, <2>2 DEF LoginOf
<1>11. serial' => RefreshesApart'
  <2> SUFFICES ASSUME serial PROVE RefreshesApart'
    BY <1>4
  <2>1. RefreshesApart
    BY DEF AuthIInv
  <2>2. \A d, b \in AuthCalls :
          auth'[d].token # 0 /\ auth'[b].token # 0 /\ LoginOf(d)' = LoginOf(b)' => d = b
    BY <1>10, <2>1 DEF RefreshesApart
  <2>3. ASSUME NEW d \in AuthCalls
        PROVE  /\ auth'[d].pc = "rotate" => LiveOf(LoginOf(d))' \subseteq {auth'[d].token}
               /\ auth'[d].pc = "reissue" => LiveOf(LoginOf(d))' = {}
    <3> SUFFICES ASSUME auth[d].token # 0
                 PROVE  /\ auth'[d].pc = "rotate" =>
                             LiveOf(LoginOf(d))' \subseteq {auth'[d].token}
                        /\ auth'[d].pc = "reissue" => LiveOf(LoginOf(d))' = {}
      BY <1>8, <1>10 DEF Rotating
    <3>1. LiveOf(LoginOf(d))' \subseteq LiveOf(LoginOf(d)) \ {t}
      BY <1>5, <1>9, <1>10 DEF LiveOf
    <3>2. CASE d = c
      <4>1. LiveOf(LoginOf(d)) \subseteq {t}
        BY <1>1, <2>1, <3>2 DEF RefreshesApart
      <4> QED BY <1>6, <3>1, <3>2, <4>1
    <3>3. CASE d # c
      BY <1>6, <2>1, <3>1, <3>3 DEF RefreshesApart
    <3> QED BY <3>2, <3>3
  <2> QED BY <2>2, <2>3 DEF RefreshesApart
<1>12. OneLiveTokenWhileSerial'
  BY <1>4, <1>5, <1>9 DEF AuthIInv, OneLiveTokenWhileSerial
<1>13. \A u \in DOMAIN tokens' : tokens'[u].login <= u
  BY <1>5, <1>9 DEF AuthIInv
<1> QED BY <1>7, <1>8, <1>11, <1>12, <1>13 DEF AuthIInv

(* The next token: the login has no other live one, and no other refresh. *)
LEMMA ReissueKeeps ==
  ASSUME AuthIInv, NEW c \in AuthCalls, Reissue(c)
  PROVE  AuthIInv'
<1> DEFINE k == Len(tokens) + 1  login == LoginOf(c)
<1>1. AuthTypeOK /\ auth[c].pc = "reissue" /\ auth[c].token # 0
      /\ auth[c].token \in DOMAIN tokens
  BY DEF AuthIInv, Reissue, AuthAt, Rotating
<1>2. /\ login \in 1..MaxTokens /\ Len(tokens) \in Nat
      /\ login <= auth[c].token /\ auth[c].token \in 1..Len(tokens)
      /\ DOMAIN tokens = 1..Len(tokens)
  <2>1. tokens[auth[c].token] \in Token
    BY <1>1, TokensAreTyped
  <2> QED BY <1>1, <2>1, TokensAreTyped DEF LoginOf, Token, AuthIInv
<1>3. /\ tokens' \in Seq(Token) /\ Len(tokens') = k /\ Len(tokens') <= MaxTokens
      /\ DOMAIN tokens' = DOMAIN tokens \cup {k} /\ k \notin DOMAIN tokens
      /\ tokens'[k] = [login |-> login, state |-> "live"]
      /\ \A t \in DOMAIN tokens : tokens'[t] = tokens[t]
  BY <1>1, <1>2, NewTokenMoves DEF Reissue, LoginOf
<1>4. login <= k
  <2>1. auth[c].token \in Nat /\ login \in Nat
    BY <1>2, SessionsAssumption
  <2> QED BY <1>2, <2>1
<1> HIDE DEF k, login
<1>5. /\ auth' \in [AuthCalls -> AuthCall] /\ auth'[c] = NoAuth
      /\ \A d \in AuthCalls : d # c => auth'[d] = auth[d]
  BY <1>1, CallEnds DEF Reissue
<1>6. AuthTypeOK' /\ serial' = serial
  BY <1>1, <1>3, <1>5 DEF AuthTypeOK, Reissue
<1>7. \A t \in DOMAIN tokens' : tokens'[t].login <= t
  BY <1>3, <1>4 DEF AuthIInv
<1>8. \A d \in AuthCalls : /\ auth'[d].token # 0 <=> auth'[d].pc \in Rotating
                           /\ auth'[d].token # 0 => auth'[d].token \in DOMAIN tokens'
  BY <1>3, <1>5, NoAuthIsTyped DEF AuthIInv
<1>9. ASSUME NEW d \in AuthCalls, auth'[d].token # 0
      PROVE  d # c /\ auth'[d] = auth[d] /\ LoginOf(d)' = LoginOf(d)
  <2>1. d # c /\ auth'[d] = auth[d] /\ auth[d].token \in DOMAIN tokens
    BY <1>5, <1>9, NoAuthIsTyped DEF AuthIInv
  <2> QED BY <1>3, <2>1 DEF LoginOf
<1>10. serial' => RefreshesApart'
  <2> SUFFICES ASSUME serial PROVE RefreshesApart'
    BY <1>6
  <2>1. RefreshesApart
    BY DEF AuthIInv
  <2>2. ASSUME NEW d \in AuthCalls, auth'[d].token # 0
        PROVE  LiveOf(LoginOf(d))' = LiveOf(LoginOf(d))
    <3>1. LoginOf(d) # login
      BY <1>1, <1>9, <2>1, <2>2 DEF RefreshesApart, login
    <3>2. LiveOf(LoginOf(d))' = {t \in DOMAIN tokens' : tokens'[t].state = "live"
                                                        /\ tokens'[t].login = LoginOf(d)}
      BY <1>9, <2>2 DEF LiveOf
    <3> QED BY <1>3, <3>1, <3>2 DEF LiveOf
  <2> QED BY <1>8, <1>9, <2>1, <2>2 DEF RefreshesApart, Rotating
<1>11. OneLiveTokenWhileSerial'
  <2> SUFFICES ASSUME serial PROVE OneLiveTokenWhileSerial'
    BY <1>6 DEF OneLiveTokenWhileSerial
  <2>1. LiveOf(login) = {}
    BY <1>1 DEF AuthIInv, RefreshesApart, login
  <2>2. \A t \in DOMAIN tokens : ~(tokens[t].state = "live" /\ tokens[t].login = login)
    BY <2>1 DEF LiveOf
  <2> QED BY <1>3, <2>2 DEF AuthIInv, OneLiveTokenWhileSerial
<1> QED BY <1>6, <1>7, <1>8, <1>10, <1>11 DEF AuthIInv

-----------------------------------------------------------------------------
LEMMA InitAuthIInv == ASSUME AuthInit PROVE AuthIInv
<1>1. tokens = <<>> /\ tokens \in Seq(Token) /\ Len(tokens) = 0 /\ DOMAIN tokens = {}
  BY DEF AuthInit
<1>2. /\ 0 \in 0..MaxSent /\ 0 \in 0..MaxTries + 1 /\ 0 \in 0..MaxAuthFaults /\ 0 <= MaxTokens
  BY SessionsAssumption
<1>3. AuthTypeOK
  <2>1. auth \in [AuthCalls -> AuthCall]
    BY NoAuthIsTyped DEF AuthInit
  <2>2. Len(tokens) <= MaxTokens
    BY <1>1, <1>2
  <2>3. /\ code = 0 /\ young = FALSE /\ tries = 0 /\ sent = 0
        /\ users = 0 /\ serial = TRUE /\ authFaults = 0
    BY DEF AuthInit
  <2>4. users \in 0..1
    BY <2>3
  <2> QED BY <1>1, <1>2, <2>1, <2>2, <2>3, <2>4 DEF AuthTypeOK
<1>4. \A c \in AuthCalls : auth[c] = NoAuth
  BY DEF AuthInit
<1>5. RefreshesApart /\ OneLiveTokenWhileSerial
  BY <1>1, <1>4, NoAuthIsTyped DEF RefreshesApart, OneLiveTokenWhileSerial, Rotating
<1> QED BY <1>1, <1>3, <1>4, <1>5, NoAuthIsTyped DEF AuthIInv

LEMMA AuthStepKeeps == ASSUME AuthIInv, [AuthNext]_authVars PROVE AuthIInv'
<1>1. CASE \E c \in AuthCalls : AuthStep(c)
  <2> PICK c \in AuthCalls : AuthStep(c)
    BY <1>1
  <2>1. CASE \/ SendOtp(c) \/ SetCode(c) \/ ResetTries(c)
             \/ \E guess \in 0..sent : VerifyOtp(c, guess)
             \/ CountTry(c) \/ DeleteCode(c) \/ ForgetTries(c)
             \/ FindUser(c) \/ InsertUser(c) \/ AuthCallDies(c)
    BY <2>1, CodeStepKeeps
  <2>2. CASE IssueTokens(c) \/ \E t \in DOMAIN tokens : Refresh(c, t)
    BY <2>2, IssueTokensKeeps, RefreshKeeps
  <2>3. CASE MarkRotated(c) \/ Reissue(c) \/ RevokeAll(c)
    BY <2>3, MarkRotatedKeeps, ReissueKeeps, RevokeAllKeeps
  <2> QED BY <2>1, <2>2, <2>3 DEF AuthStep
<1>2. CASE CooldownEnds \/ CodeExpires \/ UNCHANGED authVars
  BY <1>2, ClockKeeps
<1>3. CASE \E t \in DOMAIN tokens : RevokeToken(t)
  BY <1>3, RevokeTokenKeeps
<1> QED BY <1>1, <1>2, <1>3 DEF AuthNext

LEMMA AuthInductive == AuthSpec => []AuthIInv
BY InitAuthIInv, AuthStepKeeps, PTL DEF AuthSpec

(* One row per phone number, and every counter within its limit, for any   *)
(* number of racing logins (findOrCreate 24-60, verifyOtp 86-101).         *)
THEOREM AuthTypeCorrect == AuthSpec => []AuthTypeOK
<1>1. AuthIInv => AuthTypeOK
  BY DEF AuthIInv
<1> QED BY <1>1, AuthInductive, PTL

(* A login has one usable refresh token at most as long as its refreshes   *)
(* do not overlap, wherever calls die and whatever is revoked meanwhile    *)
(* (rotate 62-91).                                                         *)
THEOREM OneTokenWhileSerial == AuthSpec => []OneLiveTokenWhileSerial
<1>1. AuthIInv => OneLiveTokenWhileSerial
  BY DEF AuthIInv
<1> QED BY <1>1, AuthInductive, PTL
=============================================================================
