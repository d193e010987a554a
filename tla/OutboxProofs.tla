---------------------------- MODULE OutboxProofs ----------------------------
(***************************************************************************)
(* For any number of relays, events, attempts and faults, Outbox keeps     *)
(* OutboxIInv; so no event is lost, and each step is a step of the channel *)
(* that OutboxChannel promises.                                            *)
(***************************************************************************)
EXTENDS Outbox, FiniteSetTheorems, SequenceTheorems, WellFoundedInduction, TLAPS

LEMMA Least ==
  ASSUME NEW S, S \subseteq Nat, S # {}
  PROVE  \E x \in S : \A y \in S : x <= y
<1>1. IsWellFoundedOn(OpToRel(<, Nat), Nat)
  BY NatLessThanWellFounded
<1>2. PICK R : R = OpToRel(<, Nat)
  OBVIOUS
<1>3. \A x, y \in Nat : y < x => <<y, x>> \in R
  BY <1>2 DEF OpToRel
<1>4. PICK x \in S : \A y \in S : ~ (<<y, x>> \in R)
  BY <1>1, <1>2, WFMin
<1>5. \A y \in S : x <= y
  <2> TAKE y \in S
  <2>1. ~(y < x)
    BY <1>3, <1>4
  <2>2. x \in Nat /\ y \in Nat
    BY <1>4
  <2> QED BY <2>1, <2>2
<1> QED BY <1>4, <1>5

LEMMA OutboxDomain ==
  ASSUME OutboxIInv
  PROVE  /\ DOMAIN outbox \subseteq Events /\ open \subseteq Events
         /\ \A e \in DOMAIN outbox : outbox[e] \in OutboxRow
         /\ begun \in Nat /\ EventsPerRide \in Nat
BY OutboxAssumption DEF OutboxIInv, RowsPlaced, Events

(* A relay at work is at a row of its batch, which exists and has an       *)
(* attempt left.                                                           *)
LEMMA RowInBatch ==
  ASSUME OutboxIInv, NEW i \in Relays, relay[i].pc # "claim"
  PROVE  /\ relay[i] \in RelayState /\ Row(i) \in relay[i].batch
         /\ Row(i)[1] \in DOMAIN outbox /\ Row(i)[1] \in Events
         /\ Row(i)[2] \in 0..MaxAttempts /\ Row(i)[2] < MaxAttempts
<1>1. /\ relay[i] \in RelayState /\ relay[i].batch # {}
      /\ \A r \in relay[i].batch : r[1] \in DOMAIN outbox /\ r[2] < MaxAttempts
  BY DEF OutboxIInv, RelayOK
<1>2. relay[i].batch \subseteq Events \X (0..MaxAttempts)
  BY <1>1 DEF RelayState
<1>3. PICK S : S = {r[1] : r \in relay[i].batch}
  OBVIOUS
<1>4. S \subseteq Nat /\ S # {}
  BY <1>1, <1>2, <1>3, OutboxAssumption DEF Events
<1>5. PICK x \in S : \A y \in S : x <= y
  BY <1>4, Least
<1>6. \E r \in relay[i].batch : \A s \in relay[i].batch : r[1] <= s[1]
  BY <1>3, <1>5
<1>7. Row(i) \in relay[i].batch
  BY <1>6 DEF Row, First
<1> QED BY <1>1, <1>2, <1>7

LEMMA HandOverAdds ==
  ASSUME handed \in Seq(Events), NEW e \in Events, HandOver(e)
  PROVE  handed' \in Seq(Events) /\ Handed' = Handed \cup {e}
<1>1. CASE e \in Handed
  BY <1>1 DEF HandOver, Handed
<1>2. CASE e \notin Handed
  <2>1. handed' = Append(handed, e)
    BY <1>2 DEF HandOver
  <2>2. /\ handed' \in Seq(Events) /\ DOMAIN handed' = 1..(Len(handed) + 1)
        /\ DOMAIN handed = 1..Len(handed) /\ Len(handed) \in Nat
        /\ handed'[Len(handed) + 1] = e
        /\ \A k \in 1..Len(handed) : handed'[k] = handed[k]
    BY <2>1
  <2>3. DOMAIN handed' = DOMAIN handed \cup {Len(handed) + 1}
    BY <2>2
  <2> QED BY <2>2, <2>3 DEF Handed
<1> QED BY <1>1, <1>2

-----------------------------------------------------------------------------
(* One relay moves to q, or none. *)
LEMMA RelayMoves ==
  ASSUME OutboxIInv, NEW i \in Relays, NEW q \in RelayState,
         relay' = [relay EXCEPT ![i] = q],
         DOMAIN outbox \subseteq DOMAIN outbox', Handed \subseteq Handed', UNCHANGED brokered,
         q.pc # "claim" => q.batch # {},
         \A r \in q.batch : r[1] \in DOMAIN outbox /\ r[2] < MaxAttempts,
         brokered /\ q.pc = "mark" => First(q.batch)[1] \in Handed'
  PROVE  relay' \in [Relays -> RelayState] /\ \A j \in Relays : RelayOK(j)'
<1>1. /\ relay' \in [Relays -> RelayState] /\ relay'[i] = q
      /\ \A j \in Relays : j # i => relay'[j] = relay[j]
  BY DEF OutboxIInv
<1>2. RelayOK(i)'
  BY <1>1 DEF RelayOK, Row
<1>3. ASSUME NEW j \in Relays, j # i PROVE RelayOK(j)'
  BY <1>1, <1>3 DEF OutboxIInv, RelayOK, Row
<1> QED BY <1>1, <1>2, <1>3

LEMMA RelaysStay ==
  ASSUME OutboxIInv, UNCHANGED <<relay, brokered>>,
         DOMAIN outbox \subseteq DOMAIN outbox', Handed \subseteq Handed'
  PROVE  relay' \in [Relays -> RelayState] /\ \A j \in Relays : RelayOK(j)'
<1>1. ASSUME NEW j \in Relays PROVE RelayOK(j)'
  BY DEF OutboxIInv, RelayOK, Row
<1> QED BY <1>1 DEF OutboxIInv

LEMMA GotoMoves ==
  ASSUME OutboxIInv, NEW i \in Relays, relay[i].pc # "claim",
         NEW pc \in {"mark", "fail"}, RelayGoto(i, pc),
         DOMAIN outbox \subseteq DOMAIN outbox', Handed \subseteq Handed', UNCHANGED brokered,
         brokered /\ pc = "mark" => Row(i)[1] \in Handed'
  PROVE  relay' \in [Relays -> RelayState] /\ \A j \in Relays : RelayOK(j)'
<1>1. PICK q : q = [relay[i] EXCEPT !.pc = pc]
  OBVIOUS
<1>2. q \in RelayState /\ q.pc = pc /\ q.batch = relay[i].batch
  BY <1>1, RowInBatch DEF RelayState
<1>3. relay' = [relay EXCEPT ![i] = q]
  BY <1>1 DEF RelayGoto, OutboxIInv
<1>4. /\ q.batch # {}
      /\ \A r \in q.batch : r[1] \in DOMAIN outbox /\ r[2] < MaxAttempts
      /\ First(q.batch) = Row(i)
  BY <1>2 DEF OutboxIInv, RelayOK, Row
<1> QED BY <1>2, <1>3, <1>4, RelayMoves

LEMMA NextRowMoves ==
  ASSUME OutboxIInv, NEW i \in Relays, relay[i].pc # "claim", NextRow(i),
         DOMAIN outbox \subseteq DOMAIN outbox', Handed \subseteq Handed', UNCHANGED brokered
  PROVE  relay' \in [Relays -> RelayState] /\ \A j \in Relays : RelayOK(j)'
<1>1. /\ relay[i] \in RelayState /\ Row(i) \in relay[i].batch
      /\ \A r \in relay[i].batch : r[1] \in DOMAIN outbox /\ r[2] < MaxAttempts
  BY RowInBatch DEF OutboxIInv, RelayOK
<1>2. CASE relay[i].batch = {Row(i)}
  <2>1. IdleRelay \in RelayState /\ IdleRelay.pc = "claim" /\ IdleRelay.batch = {}
    BY DEF IdleRelay, RelayState
  <2>2. relay' = [relay EXCEPT ![i] = IdleRelay]
    BY <1>2 DEF NextRow
  <2> QED BY <2>1, <2>2, RelayMoves
<1>3. CASE relay[i].batch # {Row(i)}
  <2>1. PICK q : q = [pc |-> "send", batch |-> relay[i].batch \ {Row(i)}]
    OBVIOUS
  <2>2. relay' = [relay EXCEPT ![i] = q]
    BY <1>3, <2>1 DEF NextRow
  <2>3. /\ q \in RelayState /\ q.pc = "send" /\ q.batch # {}
        /\ q.batch \subseteq relay[i].batch
    BY <1>1, <1>3, <2>1 DEF RelayState
  <2> QED BY <1>1, <2>2, <2>3, RelayMoves
<1> QED BY <1>2, <1>3

(* One row changes. *)
LEMMA RowMoves ==
  ASSUME OutboxIInv, NEW e \in DOMAIN outbox, NEW row \in OutboxRow,
         outbox' = [outbox EXCEPT ![e] = row], UNCHANGED txVars, Handed \subseteq Handed',
         row.status = "PUBLISHED" => e \in Handed',
         row.status = "FAILED" => row.attempts = MaxAttempts,
         row.status \in {"PENDING", "PROCESSING"} => row.attempts < MaxAttempts
  PROVE  /\ RowsPlaced' /\ DOMAIN outbox' = DOMAIN outbox
         /\ outbox'[e] = row /\ \A f \in DOMAIN outbox : f # e => outbox'[f] = outbox[f]
         /\ \A f \in DOMAIN outbox' : RowOK(f)'
<1>1. RowsPlaced /\ \A f \in DOMAIN outbox : RowOK(f)
  BY DEF OutboxIInv
<1>2. /\ outbox' \in [DOMAIN outbox -> OutboxRow] /\ DOMAIN outbox' = DOMAIN outbox
      /\ outbox'[e] = row /\ \A f \in DOMAIN outbox : f # e => outbox'[f] = outbox[f]
  BY <1>1 DEF RowsPlaced
<1>3. RowOK(e)'
  BY <1>2 DEF RowOK
<1>4. ASSUME NEW f \in DOMAIN outbox, f # e PROVE RowOK(f)'
  BY <1>1, <1>2, <1>4 DEF RowOK
<1>5. RowsPlaced'
  BY <1>1, <1>2 DEF RowsPlaced, txVars
<1> QED BY <1>2, <1>3, <1>4, <1>5

LEMMA RowsStay ==
  ASSUME OutboxIInv, UNCHANGED <<txVars, outbox>>, Handed \subseteq Handed'
  PROVE  RowsPlaced' /\ \A f \in DOMAIN outbox' : RowOK(f)'
BY DEF OutboxIInv, RowsPlaced, RowOK, txVars

(* What each step leaves of the channel's state. *)
Abandoned == {e \in DOMAIN outbox : outbox[e].status = "FAILED"} \ Handed
ChannelStutters == DOMAIN outbox' = DOMAIN outbox /\ Handed' = Handed /\ Abandoned' = Abandoned
ChannelMoves == ChannelStutters \/ \E e \in Events :
  \/ /\ e \notin DOMAIN outbox /\ DOMAIN outbox' = DOMAIN outbox \cup {e}
     /\ Handed' = Handed /\ Abandoned' = Abandoned
  \/ /\ e \in DOMAIN outbox \ Handed /\ DOMAIN outbox' = DOMAIN outbox
     /\ Handed' = Handed \cup {e} /\ Abandoned' = Abandoned \ {e}
  \/ /\ e \in DOMAIN outbox \ Handed /\ DOMAIN outbox' = DOMAIN outbox
     /\ Handed' = Handed /\ Abandoned' = Abandoned \cup {e}
  \/ /\ e \in Abandoned /\ DOMAIN outbox' = DOMAIN outbox
     /\ Handed' = Handed /\ Abandoned' = Abandoned \ {e}

-----------------------------------------------------------------------------
LEMMA TransactionKeeps ==
  ASSUME OutboxIInv, BeginTx \/ \E e \in Events : Rollback(e)
  PROVE  OutboxIInv' /\ ChannelMoves
<1>1. /\ UNCHANGED <<brokered, outbox, relay, handed>> /\ Handed' = Handed
      /\ RowsPlaced /\ begun \in Nat /\ EventsPerRide \in Nat
  BY OutboxDomain DEF BeginTx, Rollback, Handed, OutboxIInv
<1>2. RowsPlaced'
  <2>1. CASE BeginTx
    <3>1. /\ begun' = begun + 1 /\ begun < EventsPerRide /\ open' = open \cup {begun + 1}
          /\ 1..(begun + 1) = 1..begun \cup {begun + 1} /\ begun + 1 \notin 1..begun
      BY <1>1, <2>1 DEF BeginTx
    <3> QED BY <1>1, <3>1 DEF RowsPlaced
  <2>2. CASE \E e \in Events : Rollback(e)
    BY <1>1, <2>2 DEF Rollback, RowsPlaced
  <2> QED BY <2>1, <2>2
<1>3. relay' \in [Relays -> RelayState] /\ \A j \in Relays : RelayOK(j)'
  BY <1>1, RelaysStay
<1>4. OutboxIInv'
  BY <1>1, <1>2, <1>3 DEF OutboxIInv, RowOK
<1>5. Abandoned' = Abandoned
  BY <1>1 DEF Abandoned
<1> QED BY <1>1, <1>4, <1>5 DEF ChannelMoves, ChannelStutters

(* The new row, and the others as they were. *)
LEMMA RowWritten ==
  ASSUME OutboxIInv, NEW e, WriteEvent(e)
  PROVE  /\ e \in Events /\ e \notin DOMAIN outbox /\ DOMAIN outbox' = DOMAIN outbox \cup {e}
         /\ outbox'[e] = NewRow /\ NewRow \in OutboxRow
         /\ NewRow.status = "PENDING" /\ NewRow.attempts = 0 /\ NewRow.before = DOMAIN outbox
         /\ \A f \in DOMAIN outbox : outbox'[f] = outbox[f]
<1>1. e \in Events /\ e \notin DOMAIN outbox /\ DOMAIN outbox \subseteq Events
  BY OutboxDomain DEF WriteEvent, OutboxIInv, RowsPlaced
<1>2. outbox' = [f \in DOMAIN outbox \cup {e} |-> IF f = e THEN NewRow ELSE outbox[f]]
  BY DEF WriteEvent
<1>3. NewRow \in OutboxRow
  BY <1>1, OutboxAssumption DEF NewRow, OutboxRow
<1> QED BY <1>1, <1>2, <1>3 DEF NewRow

LEMMA WriteEventKeeps ==
  ASSUME OutboxIInv, NEW e, WriteEvent(e)
  PROVE  OutboxIInv' /\ ChannelMoves
<1>1. /\ UNCHANGED <<brokered, begun, relay, handed>> /\ Handed' = Handed
      /\ e \in open /\ open' = open \ {e} /\ RowsPlaced
      /\ outbox' = [f \in DOMAIN outbox \cup {e} |-> IF f = e THEN NewRow ELSE outbox[f]]
  BY DEF WriteEvent, Handed, OutboxIInv
<1>2. /\ e \in Events /\ e \notin DOMAIN outbox /\ DOMAIN outbox' = DOMAIN outbox \cup {e}
      /\ outbox'[e].status = "PENDING" /\ outbox'[e].attempts = 0 /\ outbox'[e] \in OutboxRow
      /\ \A f \in DOMAIN outbox : outbox'[f] = outbox[f]
  BY RowWritten
<1>3. RowsPlaced'
  <2>1. open' \cup DOMAIN outbox' \subseteq 1..begun /\ open' \cap DOMAIN outbox' = {}
    BY <1>1, <1>2 DEF RowsPlaced
  <2>2. outbox' \in [DOMAIN outbox' -> OutboxRow]
    BY <1>1, <1>2 DEF RowsPlaced
  <2> QED BY <1>1, <2>1, <2>2 DEF RowsPlaced
<1>4. \A f \in DOMAIN outbox' : RowOK(f)'
  <2>1. RowOK(e)'
    BY <1>2, OutboxAssumption DEF RowOK
  <2>2. ASSUME NEW f \in DOMAIN outbox PROVE RowOK(f)'
    BY <1>1, <1>2, <2>2 DEF OutboxIInv, RowOK
  <2> QED BY <1>2, <2>1, <2>2
<1>5. relay' \in [Relays -> RelayState] /\ \A j \in Relays : RelayOK(j)'
  BY <1>1, <1>2, RelaysStay
<1>6. OutboxIInv'
  BY <1>1, <1>3, <1>4, <1>5 DEF OutboxIInv
<1>7. Abandoned' = Abandoned
  BY <1>1, <1>2 DEF Abandoned
<1> QED BY <1>1, <1>2, <1>6, <1>7 DEF ChannelMoves

LEMMA GrowOldKeeps ==
  ASSUME OutboxIInv, NEW e, GrowOld(e)
  PROVE  OutboxIInv' /\ ChannelMoves
<1>1. e \in DOMAIN outbox /\ outbox[e] \in OutboxRow
  BY OutboxDomain DEF GrowOld, OutboxIInv
<1>2. PICK row : row = [outbox[e] EXCEPT !.old = TRUE]
  OBVIOUS
<1>3. /\ row \in OutboxRow /\ row.status = outbox[e].status
      /\ row.attempts = outbox[e].attempts
  BY <1>1, <1>2 DEF OutboxRow
<1>4. outbox' = [outbox EXCEPT ![e] = row] /\ UNCHANGED <<brokered, txVars, relay, handed>>
  BY <1>2 DEF GrowOld
<1>5. Handed' = Handed
  BY <1>4 DEF Handed
<1>6. RowOK(e)
  BY <1>1 DEF OutboxIInv
<1>7. /\ RowsPlaced' /\ DOMAIN outbox' = DOMAIN outbox /\ \A f \in DOMAIN outbox' : RowOK(f)'
      /\ outbox'[e] = row /\ \A f \in DOMAIN outbox : f # e => outbox'[f] = outbox[f]
  BY <1>1, <1>3, <1>4, <1>5, <1>6, RowMoves DEF RowOK
<1>8. OutboxIInv'
  BY <1>4, <1>5, <1>7, RelaysStay DEF OutboxIInv
<1>9. Abandoned' = Abandoned
  BY <1>1, <1>3, <1>5, <1>7 DEF Abandoned
<1> QED BY <1>5, <1>7, <1>8, <1>9 DEF ChannelMoves, ChannelStutters

LEMMA ClaimBatchKeeps ==
  ASSUME OutboxIInv, NEW i \in Relays, ClaimBatch(i)
  PROVE  OutboxIInv' /\ ChannelMoves
<1>1. PICK b \in Oldest(Claimable) :
        /\ outbox' = [e \in DOMAIN outbox |->
                        IF e \in b THEN [outbox[e] EXCEPT !.status = "PROCESSING"]
                                   ELSE outbox[e]]
        /\ relay' = [relay EXCEPT ![i] =
                       [pc |-> "send", batch |-> {<<e, outbox[e].attempts>> : e \in b}]]
  BY DEF ClaimBatch
<1>2. b \subseteq Claimable /\ b # {}
  <2>1. b \subseteq Claimable /\ (Cardinality(b) = BatchSize \/ b = Claimable)
    BY DEF Oldest
  <2>2. Claimable # {} /\ Cardinality({}) = 0 /\ BatchSize # 0
    BY OutboxAssumption, FS_EmptySet DEF ClaimBatch
  <2> QED BY <2>1, <2>2
<1>3. \A e \in DOMAIN outbox : outbox[e] \in OutboxRow /\ RowOK(e)
  BY OutboxDomain DEF OutboxIInv
<1>4. \A e \in b : /\ e \in DOMAIN outbox /\ e \in Events
                   /\ outbox[e].status \in {"PENDING", "PROCESSING"}
                   /\ outbox[e].attempts \in 0..MaxAttempts /\ outbox[e].attempts < MaxAttempts
  BY <1>2, <1>3, OutboxDomain DEF Claimable, RowOK, OutboxRow
<1>5. \A e \in DOMAIN outbox :
        /\ outbox'[e] \in OutboxRow
        /\ e \in b => /\ outbox'[e].status = "PROCESSING"
                      /\ outbox'[e].attempts = outbox[e].attempts
        /\ e \notin b => outbox'[e] = outbox[e]
  BY <1>1, <1>3 DEF OutboxRow
<1>6. DOMAIN outbox' = DOMAIN outbox /\ UNCHANGED <<brokered, handed>> /\ Handed' = Handed
  BY <1>1 DEF ClaimBatch, Handed
<1>7. RowsPlaced'
  <2>1. outbox' \in [DOMAIN outbox -> OutboxRow] /\ UNCHANGED <<begun, open>>
    BY <1>1, <1>5 DEF ClaimBatch, txVars
  <2> QED BY <1>6, <2>1 DEF OutboxIInv, RowsPlaced
<1>8. \A e \in DOMAIN outbox' : RowOK(e)'
  BY <1>3, <1>4, <1>5, <1>6 DEF RowOK
<1>9. PICK q : q = [pc |-> "send", batch |-> {<<e, outbox[e].attempts>> : e \in b}]
  OBVIOUS
<1>10. /\ q \in RelayState /\ q.pc = "send" /\ q.batch # {}
       /\ \A r \in q.batch : r[1] \in DOMAIN outbox /\ r[2] < MaxAttempts
  <2>1. q.pc = "send" /\ q.batch = {<<e, outbox[e].attempts>> : e \in b}
    BY <1>9
  <2>2. q.batch # {}
    BY <1>2, <2>1
  <2>3. \A r \in q.batch : /\ r \in Events \X (0..MaxAttempts)
                           /\ r[1] \in DOMAIN outbox /\ r[2] < MaxAttempts
    BY <1>4, <2>1
  <2>4. q \in RelayState
    BY <1>9, <2>1, <2>3 DEF RelayState
  <2> QED BY <2>1, <2>2, <2>3, <2>4
<1>11. relay' = [relay EXCEPT ![i] = q]
  BY <1>1, <1>9
<1>12. relay' \in [Relays -> RelayState] /\ \A j \in Relays : RelayOK(j)'
  BY <1>6, <1>10, <1>11, RelayMoves
<1>13. OutboxIInv'
  BY <1>6, <1>7, <1>8, <1>12 DEF OutboxIInv
<1>14. Abandoned' = Abandoned
  BY <1>4, <1>5, <1>6 DEF Abandoned
<1> QED BY <1>6, <1>13, <1>14 DEF ChannelMoves, ChannelStutters

LEMMA SendRowKeeps ==
  ASSUME OutboxIInv, NEW i \in Relays, SendRow(i)
  PROVE  OutboxIInv' /\ ChannelMoves
<1>1. PICK e \in Events : e = Row(i)[1] /\ e \in DOMAIN outbox
  BY RowInBatch DEF SendRow
<1>2. /\ relay[i].pc # "claim" /\ UNCHANGED <<brokered, txVars, outbox>>
      /\ handed \in Seq(Events)
      /\ HandOver(e) \/ UNCHANGED handed
  BY <1>1 DEF SendRow, OutboxIInv
<1>3. \/ HandOver(e)
      \/ UNCHANGED handed
  BY <1>2
<1>4. CASE HandOver(e)
  <2>1. handed' \in Seq(Events) /\ Handed' = Handed \cup {e}
    BY <1>2, <1>4, HandOverAdds
  <2>2. PICK pc \in {"mark", "fail"} : RelayGoto(i, pc)
    BY DEF SendRow
  <2>3. relay' \in [Relays -> RelayState] /\ \A j \in Relays : RelayOK(j)'
    BY <1>1, <1>2, <2>1, <2>2, GotoMoves
  <2>4. OutboxIInv'
    BY <1>2, <2>1, <2>3, RowsStay DEF OutboxIInv
  <2>5. Abandoned' = Abandoned \ {e}
    BY <1>2, <2>1 DEF Abandoned
  <2>6. CASE e \in Handed
    <3>1. Handed' = Handed /\ Abandoned' = Abandoned
      BY <2>1, <2>5, <2>6 DEF Abandoned
    <3> QED BY <1>2, <2>4, <3>1 DEF ChannelMoves, ChannelStutters
  <2>7. CASE e \notin Handed
    BY <1>1, <1>2, <2>1, <2>4, <2>5, <2>7 DEF ChannelMoves
  <2> QED BY <2>6, <2>7
<1>5. CASE UNCHANGED handed
  <2>1. handed' \in Seq(Events) /\ Handed' = Handed
    BY <1>2, <1>5 DEF Handed
  <2>2. PICK pc \in {"mark", "fail"} :
          RelayGoto(i, pc) /\ (brokered /\ pc = "mark" => HandOver(e))
    BY <1>1 DEF SendRow
  <2>3. brokered /\ pc = "mark" => Row(i)[1] \in Handed'
    <3>1. SUFFICES ASSUME HandOver(e) PROVE e \in Handed'
      BY <1>1, <2>2
    <3> QED BY <1>2, <3>1, HandOverAdds
  <2>4. relay' \in [Relays -> RelayState] /\ \A j \in Relays : RelayOK(j)'
    BY <1>2, <2>1, <2>2, <2>3, GotoMoves
  <2>5. OutboxIInv'
    BY <1>2, <2>1, <2>4, RowsStay DEF OutboxIInv
  <2>6. Abandoned' = Abandoned
    BY <1>2, <2>1 DEF Abandoned
  <2> QED BY <1>2, <2>1, <2>5, <2>6 DEF ChannelMoves, ChannelStutters
<1> QED BY <1>3, <1>4, <1>5

LEMMA MarkPublishedKeeps ==
  ASSUME OutboxIInv, NEW i \in Relays, MarkPublished(i)
  PROVE  OutboxIInv' /\ ChannelMoves
<1>1. PICK e \in Events : e = Row(i)[1] /\ e \in DOMAIN outbox
  BY RowInBatch DEF MarkPublished
<1>2. PICK row : row = [outbox[e] EXCEPT !.status = "PUBLISHED"]
  OBVIOUS
<1>3. row \in OutboxRow /\ row.status = "PUBLISHED"
  <2>1. outbox[e] \in OutboxRow
    BY <1>1, OutboxDomain DEF OutboxIInv
  <2> QED BY <1>2, <2>1 DEF OutboxRow
<1>4. /\ outbox' = [outbox EXCEPT ![e] = row] /\ UNCHANGED <<brokered, txVars>>
      /\ relay[i].pc = "mark" /\ NextRow(i)
  BY <1>1, <1>2 DEF MarkPublished
<1>5. handed' \in Seq(Events) /\ Handed' = Handed \cup {e}
  <2>1. handed \in Seq(Events)
    BY DEF OutboxIInv
  <2>2. CASE brokered
    <3>1. e \in Handed /\ UNCHANGED handed
      BY <1>1, <1>4, <2>2 DEF MarkPublished, OutboxIInv, RelayOK
    <3> QED BY <2>1, <3>1 DEF Handed
  <2>3. CASE ~brokered
    <3>1. HandOver(e)
      BY <1>1, <2>3 DEF MarkPublished
    <3> QED BY <2>1, <3>1, HandOverAdds
  <2> QED BY <2>2, <2>3
<1>6. /\ RowsPlaced' /\ DOMAIN outbox' = DOMAIN outbox /\ \A f \in DOMAIN outbox' : RowOK(f)'
      /\ outbox'[e] = row /\ \A f \in DOMAIN outbox : f # e => outbox'[f] = outbox[f]
  BY <1>1, <1>3, <1>4, <1>5, RowMoves
<1>7. relay' \in [Relays -> RelayState] /\ \A j \in Relays : RelayOK(j)'
  BY <1>4, <1>5, <1>6, NextRowMoves
<1>8. OutboxIInv'
  BY <1>5, <1>6, <1>7 DEF OutboxIInv
<1>9. Abandoned' = Abandoned \ {e}
  BY <1>3, <1>5, <1>6 DEF Abandoned
<1>10. CASE e \in Handed
  <2>1. Handed' = Handed /\ Abandoned' = Abandoned
    BY <1>5, <1>9, <1>10 DEF Abandoned
  <2> QED BY <1>6, <1>8, <2>1 DEF ChannelMoves, ChannelStutters
<1>11. CASE e \notin Handed
  BY <1>1, <1>5, <1>6, <1>8, <1>9, <1>11 DEF ChannelMoves
<1> QED BY <1>10, <1>11

LEMMA MarkFailedKeeps ==
  ASSUME OutboxIInv, NEW i \in Relays, MarkFailed(i)
  PROVE  OutboxIInv' /\ ChannelMoves
<1>1. PICK e \in Events : e = Row(i)[1] /\ e \in DOMAIN outbox
  BY RowInBatch DEF MarkFailed
<1>2. PICK n : n = Row(i)[2] + 1
  OBVIOUS
<1>3. n \in 0..MaxAttempts
  <2>1. Row(i)[2] \in 0..MaxAttempts /\ Row(i)[2] < MaxAttempts /\ MaxAttempts \in Nat
    BY RowInBatch, OutboxAssumption DEF MarkFailed
  <2> QED BY <1>2, <2>1
<1>4. PICK s : s = IF GiveUp(n) THEN "FAILED" ELSE "PENDING"
  OBVIOUS
<1>5. /\ s \in {"FAILED", "PENDING"}
      /\ s = "FAILED" => n = MaxAttempts
      /\ s = "PENDING" => n < MaxAttempts
  BY <1>3, <1>4, OutboxAssumption DEF GiveUp
<1>6. outbox[e] \in OutboxRow
  BY <1>1, OutboxDomain DEF OutboxIInv
<1>7. PICK half : half = [outbox[e] EXCEPT !.attempts = n]
  OBVIOUS
<1>8. half \in OutboxRow /\ half.attempts = n
  BY <1>3, <1>6, <1>7 DEF OutboxRow
<1>9. PICK row : row = [half EXCEPT !.status = s]
  OBVIOUS
<1>10. row \in OutboxRow /\ row.attempts = n /\ row.status = s
  BY <1>5, <1>8, <1>9 DEF OutboxRow
<1>11. outbox' = [outbox EXCEPT ![e] = row]
  <2>1. outbox' = [outbox EXCEPT ![e].attempts = n, ![e].status = s]
    BY <1>1, <1>2, <1>4 DEF MarkFailed
  <2>2. PICK o : o = [outbox EXCEPT ![e].attempts = n]
    OBVIOUS
  <2>3. outbox' = [o EXCEPT ![e].status = s]
    BY <2>1, <2>2
  <2>4. o = [outbox EXCEPT ![e] = half]
    BY <1>7, <2>2
  <2>5. o[e] = half
    BY <1>1, <2>4
  <2>6. outbox' = [o EXCEPT ![e] = row]
    BY <1>9, <2>3, <2>5
  <2> QED BY <2>4, <2>6
<1>12. UNCHANGED <<brokered, txVars, handed>> /\ Handed' = Handed /\ relay[i].pc = "fail" /\ NextRow(i)
  BY DEF MarkFailed, Handed
<1>13. /\ RowsPlaced' /\ DOMAIN outbox' = DOMAIN outbox /\ \A f \in DOMAIN outbox' : RowOK(f)'
       /\ outbox'[e] = row /\ \A f \in DOMAIN outbox : f # e => outbox'[f] = outbox[f]
  BY <1>1, <1>5, <1>10, <1>11, <1>12, RowMoves
<1>14. relay' \in [Relays -> RelayState] /\ \A j \in Relays : RelayOK(j)'
  BY <1>12, <1>13, NextRowMoves
<1>15. OutboxIInv'
  BY <1>12, <1>13, <1>14 DEF OutboxIInv
<1>16. CASE e \notin Handed /\ s = "FAILED"
  <2>1. Abandoned' = Abandoned \cup {e}
    BY <1>1, <1>10, <1>12, <1>13, <1>16 DEF Abandoned
  <2> QED BY <1>1, <1>12, <1>13, <1>15, <1>16, <2>1 DEF ChannelMoves
<1>17. CASE e \notin Handed /\ s = "PENDING"
  <2>1. Abandoned' = Abandoned \ {e}
    BY <1>1, <1>10, <1>12, <1>13, <1>17 DEF Abandoned
  <2>2. CASE e \in Abandoned
    BY <1>1, <1>12, <1>13, <1>15, <2>1, <2>2 DEF ChannelMoves
  <2>3. CASE e \notin Abandoned
    <3>1. Abandoned' = Abandoned
      BY <2>1, <2>3
    <3> QED BY <1>12, <1>13, <1>15, <3>1 DEF ChannelMoves, ChannelStutters
  <2> QED BY <2>2, <2>3
<1>18. CASE e \in Handed
  <2>1. Abandoned' = Abandoned
    BY <1>12, <1>13, <1>18 DEF Abandoned
  <2> QED BY <1>12, <1>13, <1>15, <2>1 DEF ChannelMoves, ChannelStutters
<1> QED BY <1>5, <1>16, <1>17, <1>18

(* The steps that touch neither rows nor deliveries. *)
LEMMA FaultsKeep ==
  ASSUME OutboxIInv, NEW i \in Relays, MarkFails(i) \/ MarkFailedFails(i) \/ RelayDies(i)
  PROVE  OutboxIInv' /\ ChannelMoves
<1>1. UNCHANGED <<brokered, txVars, outbox, handed>> /\ Handed' = Handed
  BY DEF MarkFails, MarkFailedFails, RelayDies, Handed
<1>2. relay' \in [Relays -> RelayState] /\ \A j \in Relays : RelayOK(j)'
  <2>1. CASE MarkFails(i)
    BY <1>1, <2>1, GotoMoves DEF MarkFails
  <2>2. CASE MarkFailedFails(i)
    BY <1>1, <2>2, NextRowMoves DEF MarkFailedFails
  <2>3. CASE RelayDies(i)
    <3>1. IdleRelay \in RelayState /\ IdleRelay.pc = "claim" /\ IdleRelay.batch = {}
      BY DEF IdleRelay, RelayState
    <3> QED BY <1>1, <2>3, <3>1, RelayMoves DEF RelayDies
  <2> QED BY <2>1, <2>2, <2>3
<1>3. OutboxIInv'
  BY <1>1, <1>2, RowsStay DEF OutboxIInv
<1>4. Abandoned' = Abandoned
  BY <1>1 DEF Abandoned
<1> QED BY <1>1, <1>3, <1>4 DEF ChannelMoves, ChannelStutters

LEMMA StutterKeeps ==
  ASSUME OutboxIInv, UNCHANGED outboxVars
  PROVE  OutboxIInv' /\ ChannelMoves
<1>1. UNCHANGED <<brokered, txVars, outbox, relay, handed>> /\ Handed' = Handed
  BY DEF outboxVars, Handed
<1>2. OutboxIInv'
  BY <1>1, RowsStay, RelaysStay DEF OutboxIInv
<1>3. Abandoned' = Abandoned
  BY <1>1 DEF Abandoned
<1> QED BY <1>1, <1>2, <1>3 DEF ChannelMoves, ChannelStutters

-----------------------------------------------------------------------------
LEMMA InitHolds == OutboxInit => OutboxIInv
<1> SUFFICES ASSUME OutboxInit PROVE OutboxIInv
  OBVIOUS
<1>1. DOMAIN outbox = {} /\ RowsPlaced /\ handed \in Seq(Events)
  BY OutboxAssumption DEF OutboxInit, RowsPlaced
<1>2. \A i \in Relays : /\ relay[i] \in RelayState /\ relay[i].pc = "claim"
                        /\ relay[i].batch = {}
  BY DEF OutboxInit, IdleRelay, RelayState
<1>3. relay \in [Relays -> RelayState]
  BY <1>2 DEF OutboxInit
<1> QED BY <1>1, <1>2, <1>3, OutboxAssumption DEF OutboxIInv, RelayOK

LEMMA StepKeeps ==
  ASSUME OutboxIInv, [OutboxNext]_outboxVars
  PROVE  OutboxIInv' /\ ChannelMoves
<1>1. CASE BeginTx \/ \E e \in Events : Rollback(e)
  BY <1>1, TransactionKeeps
<1>2. CASE \E e \in Events : WriteEvent(e) \/ GrowOld(e)
  BY <1>2, WriteEventKeeps, GrowOldKeeps
<1>3. CASE \E i \in Relays : \/ RelayStep(i) \/ RelayDies(i)
                            \/ MarkFails(i) \/ MarkFailedFails(i)
  BY <1>3, ClaimBatchKeeps, SendRowKeeps, MarkPublishedKeeps, MarkFailedKeeps, FaultsKeep
     DEF RelayStep
<1>4. CASE UNCHANGED outboxVars
  BY <1>4, StutterKeeps
<1> QED BY <1>1, <1>2, <1>3, <1>4 DEF OutboxNext

LEMMA Inductive == OutboxSpec => []OutboxIInv
BY InitHolds, StepKeeps, PTL DEF OutboxSpec

(* Whatever the relays do to each other's rows, and however often they die, *)
(* an event not handed over is still to be sent or has used up its attempts *)
(* (relayOnce 70-107, dispatch 109-144).                                    *)
THEOREM NoEventIsLost == OutboxSpec => []NoEventLost
<1>1. OutboxIInv => NoEventLost
  <2> SUFFICES ASSUME OutboxIInv, NEW e \in DOMAIN outbox, e \notin Handed
               PROVE  \/ outbox[e].status \in {"PENDING", "PROCESSING"}
                      \/ outbox[e].status = "FAILED" /\ outbox[e].attempts = MaxAttempts
    BY DEF NoEventLost
  <2>1. outbox[e] \in OutboxRow /\ RowOK(e)
    BY OutboxDomain DEF OutboxIInv
  <2> QED BY <2>1 DEF OutboxRow, RowOK
<1> QED BY <1>1, Inductive, PTL

(* Every step of the relays is a step of the at-least-once channel; that    *)
(* every event is decided is left to TLC (ChannelSpec).                     *)
THEOREM ChannelIsSafe == OutboxSpec => Channel!SafeSpec
<1>1. OutboxInit => Channel!ChanInit
  BY DEF OutboxInit, Channel!ChanInit, Handed
<1>2. OutboxIInv /\ [OutboxNext]_outboxVars => [Channel!ChanNext]_Channel!chan
  <2> SUFFICES ASSUME OutboxIInv, [OutboxNext]_outboxVars
               PROVE  [Channel!ChanNext]_Channel!chan
    OBVIOUS
  <2>1. ChannelMoves
    BY StepKeeps
  <2> QED BY <2>1 DEF ChannelMoves, ChannelStutters, Abandoned, Channel!ChanNext, Channel!chan,
             Channel!Send, Channel!Deliver, Channel!Abandon, Channel!Resume
<1> QED BY <1>1, <1>2, Inductive, PTL DEF OutboxSpec, Channel!SafeSpec

-----------------------------------------------------------------------------
(* The order of delivery while all is calm.                                *)
Ids(batch) == {r[1] : r \in batch}
Distinct == \A k, m \in DOMAIN handed : handed[k] = handed[m] => k = m

(* No event is in the order of delivery twice, whatever happens. *)
LEMMA HandOverOnce ==
  ASSUME handed \in Seq(Events), Distinct, NEW e \in Events, HandOver(e)
  PROVE  /\ Distinct'
         /\ (InOrder /\ \A f \in Handed : f < e \/ e \in Handed)
              => InOrder'
<1>1. CASE e \in Handed
  BY <1>1 DEF HandOver, Distinct, InOrder
<1>2. CASE e \notin Handed
  <2>1. handed' = Append(handed, e)
    BY <1>2 DEF HandOver
  <2>2. /\ DOMAIN handed' = 1..(Len(handed) + 1)
        /\ DOMAIN handed = 1..Len(handed) /\ Len(handed) \in Nat
        /\ handed'[Len(handed) + 1] = e
        /\ \A k \in 1..Len(handed) : handed'[k] = handed[k]
    BY <2>1
  <2>3. \A k \in 1..Len(handed) : handed[k] \in Handed /\ handed[k] # e
    BY <1>2, <2>2 DEF Handed
  <2>4. Distinct'
    BY <2>2, <2>3 DEF Distinct
  <2>5. ASSUME InOrder, \A f \in Handed : f < e \/ e \in Handed
        PROVE  InOrder'
    <3>1. \A k \in 1..Len(handed) : handed'[k] < e
      BY <1>2, <2>2, <2>3, <2>5
    <3> QED BY <2>2, <2>5, <3>1 DEF InOrder
  <2> QED BY <2>4, <2>5
<1> QED BY <1>1, <1>2

(* What an event's status and place in the broker say while all is calm. *)
LEMMA CalmRows ==
  ASSUME CalmIInv, calm, NEW e \in DOMAIN outbox
  PROVE  /\ outbox[e].status \in {"PENDING", "PROCESSING", "PUBLISHED"}
         /\ e \in Events /\ e \in Nat
<1>1. outbox[e] \in OutboxRow /\ e \in Events
  BY OutboxDomain DEF CalmIInv, OutboxIInv
<1> QED BY <1>1, OutboxAssumption DEF CalmIInv, CalmOK, OutboxRow, Events

(* The one relay at work holds what is PROCESSING, and the row it is at is *)
(* the first of that.                                                      *)
LEMMA CalmAtWork ==
  ASSUME CalmIInv, calm, NEW i \in Relays, relay[i].pc # "claim"
  PROVE  /\ \A j \in Relays : j # i => relay[j] = IdleRelay
         /\ \A e \in DOMAIN outbox : outbox[e].status = "PROCESSING" <=> e \in Ids(relay[i].batch)
         /\ \A e \in DOMAIN outbox :
              AtBroker(e) <=> brokered /\ relay[i].pc = "mark" /\ Row(i)[1] = e
         /\ Row(i)[1] \in Ids(relay[i].batch)
         /\ \A e \in Ids(relay[i].batch) : Row(i)[1] <= e
<1>1. OutboxIInv /\ CalmOK
  BY DEF CalmIInv
<1>2. relay[i] # IdleRelay
  BY DEF IdleRelay
<1>3. \A j \in Relays : j # i => relay[j] = IdleRelay
  BY <1>1, <1>2 DEF CalmOK
<1>4. \A j \in Relays : j # i => relay[j].batch = {} /\ relay[j].pc # "mark"
  BY <1>3 DEF IdleRelay
<1>5. \A e \in DOMAIN outbox : outbox[e].status = "PROCESSING" <=> e \in Ids(relay[i].batch)
  BY <1>1, <1>4 DEF CalmOK, Ids
<1>6. \A e \in DOMAIN outbox :
        AtBroker(e) <=> brokered /\ relay[i].pc = "mark" /\ Row(i)[1] = e
  BY <1>4 DEF AtBroker
<1>7. Row(i) \in relay[i].batch /\ \A s \in relay[i].batch : Row(i)[1] <= s[1]
  <2>1. /\ relay[i].batch \subseteq Events \X (0..MaxAttempts) /\ relay[i].batch # {}
    BY <1>1, RowInBatch DEF RelayState
  <2>2. PICK S : S = Ids(relay[i].batch)
    OBVIOUS
  <2>3. S \subseteq Nat /\ S # {}
    BY <2>1, <2>2, OutboxAssumption DEF Events, Ids
  <2>4. PICK x \in S : \A y \in S : x <= y
    BY <2>3, Least
  <2>5. \E r \in relay[i].batch : \A s \in relay[i].batch : r[1] <= s[1]
    BY <2>2, <2>4 DEF Ids
  <2> QED BY <2>5 DEF Row, First
<1> QED BY <1>3, <1>5, <1>6, <1>7 DEF Ids

(* The one relay at work moves to q. *)
LEMMA CalmMoves ==
  ASSUME CalmIInv, calm, NEW i \in Relays, NEW q \in RelayState,
         relay' = [relay EXCEPT ![i] = q], \A j \in Relays : j # i => relay[j] = IdleRelay,
         UNCHANGED brokered, DOMAIN outbox' = DOMAIN outbox,
         q.pc # "fail", \A r, s \in q.batch : r[1] = s[1] => r = s,
         Ids(q.batch) \subseteq DOMAIN outbox,
         \A e \in DOMAIN outbox : /\ outbox'[e].status # "FAILED"
                                  /\ outbox'[e].status = "PROCESSING" <=> e \in Ids(q.batch)
                                  /\ e \in Handed' <=> \/ outbox'[e].status = "PUBLISHED"
                                                       \/ /\ brokered /\ q.pc = "mark"
                                                          /\ First(q.batch)[1] = e,
         \A e, f \in DOMAIN outbox :
           /\ e \in Handed' /\ f \notin Handed' => e < f
           /\ outbox'[e].status = "PROCESSING" /\ outbox'[f].status = "PENDING" => e < f,
         InOrder', CommitsInOrder', Handed' \subseteq DOMAIN outbox
  PROVE  CalmOK'
<1>1. relay'[i] = q /\ \A j \in Relays : j # i => relay'[j] = IdleRelay
  BY DEF CalmIInv, OutboxIInv
<1>2. \A j \in Relays : j # i => /\ relay'[j].batch = {} /\ relay'[j].pc # "mark"
                                /\ relay'[j].pc # "fail"
  BY <1>1 DEF IdleRelay
<1>3. \A e \in DOMAIN outbox :
        AtBroker(e)' <=> brokered /\ q.pc = "mark" /\ First(q.batch)[1] = e
  BY <1>1, <1>2 DEF AtBroker, Row
<1>4. \A j, k \in Relays : relay'[j] # IdleRelay /\ relay'[k] # IdleRelay => j = k
  BY <1>1
<1>5. \A j \in Relays : /\ relay'[j].pc # "fail"
                        /\ \A r, s \in relay'[j].batch : r[1] = s[1] => r = s
                        /\ \A r \in relay'[j].batch : outbox'[r[1]].status = "PROCESSING"
  BY <1>1, <1>2 DEF Ids
<1>6. \A e \in DOMAIN outbox :
        outbox'[e].status = "PROCESSING" => \E j \in Relays : \E r \in relay'[j].batch : r[1] = e
  BY <1>1 DEF Ids
<1> QED BY <1>3, <1>4, <1>5, <1>6 DEF CalmOK

(* Rows keep the events committed before them. *)
LEMMA CommitsStay ==
  ASSUME CalmIInv, calm, UNCHANGED txVars, DOMAIN outbox' = DOMAIN outbox,
         \A e \in DOMAIN outbox : outbox'[e].before = outbox[e].before
  PROVE  CommitsInOrder'
BY DEF CalmIInv, CalmOK, CommitsInOrder, txVars

(* Nobody moves, and no row changes its status but for new ones. *)
LEMMA CalmStays ==
  ASSUME CalmIInv, calm, UNCHANGED <<brokered, relay, handed>>,
         DOMAIN outbox \subseteq DOMAIN outbox',
         \A e \in DOMAIN outbox : outbox'[e].status = outbox[e].status,
         \A e \in DOMAIN outbox' \ DOMAIN outbox :
           outbox'[e].status = "PENDING" /\ \A f \in DOMAIN outbox : f < e,
         CommitsInOrder'
  PROVE  CalmOK'
<1>1. Handed' = Handed
  BY DEF Handed
<1>2. OutboxIInv /\ CalmOK
  BY DEF CalmIInv
<1>3. \A e : AtBroker(e)' <=> AtBroker(e)
  BY DEF AtBroker, Row
<1>4. \A e : AtBroker(e) => e \in DOMAIN outbox
  <2> SUFFICES ASSUME NEW i \in Relays, relay[i].pc = "mark" PROVE Row(i)[1] \in DOMAIN outbox
    BY DEF AtBroker
  <2> QED BY <1>2, RowInBatch
<1>5. \A i \in Relays : \A r \in relay[i].batch : r[1] \in DOMAIN outbox
  BY <1>2 DEF OutboxIInv, RelayOK
<1>6. \A e, f \in DOMAIN outbox' :
       /\ e \in Handed' /\ f \notin Handed' => e < f
       /\ outbox'[e].status = "PROCESSING" /\ outbox'[f].status = "PENDING" => e < f
  BY <1>1, <1>2 DEF CalmOK
<1>7. \A e \in DOMAIN outbox' :
       /\ outbox'[e].status # "FAILED"
       /\ outbox'[e].status = "PROCESSING"
            => \E i \in Relays : \E r \in relay'[i].batch : r[1] = e
       /\ e \in Handed' <=> outbox'[e].status = "PUBLISHED" \/ AtBroker(e)'
  BY <1>1, <1>2, <1>3, <1>4 DEF CalmOK
<1>8. \A i \in Relays :
       /\ relay'[i].pc # "fail"
       /\ \A r, s \in relay'[i].batch : r[1] = s[1] => r = s
       /\ \A r \in relay'[i].batch : outbox'[r[1]].status = "PROCESSING"
  BY <1>2, <1>5 DEF CalmOK
<1> QED BY <1>1, <1>2, <1>6, <1>7, <1>8 DEF CalmOK, InOrder

(* A transaction that began alone is the last to begin and to commit. *)
LEMMA TransactionCalm ==
  ASSUME CalmIInv, BeginTx \/ \E e \in Events : Rollback(e)
  PROVE  calm' => CalmOK'
<1> SUFFICES ASSUME calm' PROVE CalmOK'
  OBVIOUS
<1>1. UNCHANGED <<brokered, outbox, relay, handed>> /\ calm
  BY DEF BeginTx, Rollback, CalmIInv
<1>2. CommitsInOrder
  BY <1>1 DEF CalmIInv, CalmOK
<1>3. CommitsInOrder'
  <2>1. CASE BeginTx
    BY <1>1, <1>2, <2>1 DEF BeginTx, CommitsInOrder, CalmIInv
  <2>2. CASE \E e \in Events : Rollback(e)
    BY <1>1, <1>2, <2>2 DEF Rollback, CommitsInOrder
  <2> QED BY <2>1, <2>2
<1> QED BY <1>1, <1>3, CalmStays

LEMMA WriteEventCalm ==
  ASSUME CalmIInv, NEW e, WriteEvent(e)
  PROVE  calm' => CalmOK'
<1> SUFFICES ASSUME calm PROVE CalmOK'
  BY DEF WriteEvent
<1>1. OutboxIInv /\ CommitsInOrder /\ RowsPlaced
  BY DEF CalmIInv, CalmOK, OutboxIInv
<1>2. /\ UNCHANGED <<brokered, relay, handed, begun>> /\ e \in open /\ open' = open \ {e}
  BY DEF WriteEvent
<1>3. /\ DOMAIN outbox' = DOMAIN outbox \cup {e} /\ e \notin DOMAIN outbox
      /\ outbox'[e].status = "PENDING" /\ outbox'[e].before = DOMAIN outbox
      /\ \A f \in DOMAIN outbox : outbox'[f] = outbox[f]
  BY <1>1, RowWritten
<1>4. \A f \in DOMAIN outbox : f < e
  <2>1. e = begun /\ begun \in Nat /\ DOMAIN outbox \subseteq 1..begun
    BY <1>1, <1>2, OutboxDomain DEF CommitsInOrder, RowsPlaced
  <2> QED BY <1>3, <2>1
<1>5. CommitsInOrder'
  BY <1>1, <1>2, <1>3, <1>4 DEF CommitsInOrder
<1> QED BY <1>2, <1>3, <1>4, <1>5, CalmStays

LEMMA GrowOldCalm ==
  ASSUME CalmIInv, NEW e, GrowOld(e)
  PROVE  calm' => CalmOK'
<1> SUFFICES ASSUME calm PROVE CalmOK'
  BY DEF GrowOld
<1>1. PICK row : row = [outbox[e] EXCEPT !.old = TRUE]
  OBVIOUS
<1>2. e \in DOMAIN outbox /\ outbox[e] \in OutboxRow
  BY OutboxDomain DEF GrowOld, CalmIInv
<1>3. row.status = outbox[e].status /\ row.before = outbox[e].before
  BY <1>1, <1>2 DEF OutboxRow
<1>4. outbox' = [outbox EXCEPT ![e] = row] /\ UNCHANGED <<brokered, txVars, relay, handed>>
  BY <1>1 DEF GrowOld
<1>5. /\ DOMAIN outbox' = DOMAIN outbox
      /\ \A f \in DOMAIN outbox : /\ outbox'[f].status = outbox[f].status
                                  /\ outbox'[f].before = outbox[f].before
  BY <1>2, <1>3, <1>4
<1>6. CommitsInOrder'
  BY <1>4, <1>5, CommitsStay
<1> QED BY <1>4, <1>5, <1>6, CalmStays

(* A claim that keeps the calm finds nobody at work and nothing PROCESSING. *)
LEMMA ClaimBatchCalm ==
  ASSUME CalmIInv, NEW i \in Relays, ClaimBatch(i)
  PROVE  calm' => CalmOK'
<1> SUFFICES ASSUME calm' PROVE CalmOK'
  OBVIOUS
<1>1. PICK b \in Oldest(Claimable) :
        /\ outbox' = [e \in DOMAIN outbox |->
                        IF e \in b THEN [outbox[e] EXCEPT !.status = "PROCESSING"]
                                   ELSE outbox[e]]
        /\ relay' = [relay EXCEPT ![i] =
                       [pc |-> "send", batch |-> {<<e, outbox[e].attempts>> : e \in b}]]
  BY DEF ClaimBatch
<1>2. calm /\ (\A j \in Relays : relay[j] = IdleRelay) /\ UNCHANGED <<brokered, txVars, handed>>
  BY DEF ClaimBatch, CalmIInv
<1>3. OutboxIInv /\ CalmOK
  BY <1>2 DEF CalmIInv
<1>4. \A j \in Relays : relay[j].batch = {} /\ relay[j].pc # "mark"
  BY <1>2 DEF IdleRelay
<1>5. \A e \in DOMAIN outbox : /\ outbox[e].status \in {"PENDING", "PUBLISHED"}
                               /\ e \in Handed <=> outbox[e].status = "PUBLISHED"
                               /\ outbox[e] \in OutboxRow
  BY <1>2, <1>3, <1>4, CalmRows, OutboxDomain DEF CalmOK, AtBroker, OutboxIInv
<1>6. /\ b \subseteq Claimable /\ b \subseteq DOMAIN outbox
      /\ \A e \in b : outbox[e].status = "PENDING"
      /\ \A e \in b, f \in DOMAIN outbox : outbox[f].status = "PENDING" /\ f \notin b => e < f
  BY <1>5 DEF Oldest, Claimable
<1>7. /\ DOMAIN outbox' = DOMAIN outbox /\ Handed' = Handed
      /\ \A e \in DOMAIN outbox : /\ e \in b => outbox'[e].status = "PROCESSING"
                                  /\ e \notin b => outbox'[e].status = outbox[e].status
                                  /\ outbox'[e].before = outbox[e].before
  BY <1>1, <1>2, <1>5 DEF OutboxRow, Handed
<1>8. PICK q : q = [pc |-> "send", batch |-> {<<e, outbox[e].attempts>> : e \in b}]
  OBVIOUS
<1>9. q.pc = "send" /\ q.batch = {<<e, outbox[e].attempts>> : e \in b}
  BY <1>8
<1>10. Ids(q.batch) = b /\ \A r, s \in q.batch : r[1] = s[1] => r = s
  <2>1. Ids(q.batch) = {r[1] : r \in {<<e, outbox[e].attempts>> : e \in b}}
    BY <1>9 DEF Ids
  <2>2. Ids(q.batch) = b
    <3>1. \A e \in b : <<e, outbox[e].attempts>>[1] = e
      OBVIOUS
    <3>2. \A x : x \in Ids(q.batch) <=> \E e \in b : x = <<e, outbox[e].attempts>>[1]
      BY <2>1
    <3> QED BY <3>1, <3>2
  <2>3. \A r \in q.batch : r = <<r[1], outbox[r[1]].attempts>>
    BY <1>9
  <2> QED BY <2>2, <2>3
<1>11. q \in RelayState
  <2>1. \A e \in b : e \in Events /\ outbox[e].attempts \in 0..MaxAttempts
    BY <1>5, <1>6, <1>3, OutboxDomain DEF OutboxRow
  <2>2. q.batch \in SUBSET (Events \X (0..MaxAttempts))
    BY <1>9, <2>1
  <2> QED BY <1>8, <1>9, <2>2 DEF RelayState
<1>12. relay' = [relay EXCEPT ![i] = q]
  BY <1>1, <1>8
<1>13. \A e, f \in DOMAIN outbox :
         /\ e \in Handed' /\ f \notin Handed' => e < f
         /\ outbox'[e].status = "PROCESSING" /\ outbox'[f].status = "PENDING" => e < f
  BY <1>3, <1>5, <1>6, <1>7 DEF CalmOK
<1>14. InOrder' /\ Handed' \subseteq DOMAIN outbox /\ CommitsInOrder'
  BY <1>2, <1>3, <1>7, CommitsStay DEF CalmOK, InOrder
<1>15. \A e \in DOMAIN outbox : /\ outbox'[e].status # "FAILED"
                                /\ outbox'[e].status = "PROCESSING" <=> e \in Ids(q.batch)
                                /\ e \in Handed' <=> \/ outbox'[e].status = "PUBLISHED"
                                                     \/ /\ brokered /\ q.pc = "mark"
                                                        /\ First(q.batch)[1] = e
  BY <1>5, <1>6, <1>7, <1>9, <1>10
<1> QED BY <1>2, <1>6, <1>7, <1>9, <1>10, <1>11, <1>12, <1>13, <1>14, <1>15, CalmMoves

(* The row at work comes after all that was handed over and before all that *)
(* was not.                                                                 *)
LEMMA NextInOrder ==
  ASSUME CalmIInv, calm, NEW i \in Relays, relay[i].pc # "claim", NEW e, e = Row(i)[1]
  PROVE  /\ e \in DOMAIN outbox /\ e \in Events
         /\ \A f \in Handed : f < e \/ e \in Handed
         /\ \A f \in DOMAIN outbox : f \notin Handed /\ f # e => e < f
<1>1. OutboxIInv /\ CalmOK
  BY DEF CalmIInv
<1>2. e \in DOMAIN outbox /\ e \in Events
  BY <1>1, RowInBatch
<1>3. outbox[e].status = "PROCESSING" /\ e \in Nat
  BY <1>2, CalmAtWork, CalmRows
<1>4. \A f \in Handed : f < e \/ e \in Handed
  BY <1>1, <1>2 DEF CalmOK
<1>5. ASSUME NEW f \in DOMAIN outbox, f \notin Handed, f # e PROVE e < f
  <2>1. f \in Nat /\ outbox[f].status \in {"PENDING", "PROCESSING"}
    BY <1>1, <1>5, CalmRows DEF CalmOK
  <2>2. CASE outbox[f].status = "PENDING"
    BY <1>1, <1>2, <1>3, <2>2 DEF CalmOK
  <2>3. CASE outbox[f].status = "PROCESSING"
    <3>1. e <= f
      BY <2>3, CalmAtWork
    <3> QED BY <1>3, <1>5, <2>1, <3>1
  <2> QED BY <2>1, <2>2, <2>3
<1> QED BY <1>2, <1>4, <1>5

LEMMA SendRowCalm ==
  ASSUME CalmIInv, NEW i \in Relays, SendRow(i)
  PROVE  calm' => CalmOK'
<1> SUFFICES ASSUME calm' PROVE CalmOK'
  OBVIOUS
<1>1. PICK e : e = Row(i)[1]
  OBVIOUS
<1>2. /\ relay[i].pc = "send" /\ RelayGoto(i, "mark") /\ calm
      /\ IF brokered THEN HandOver(e) ELSE UNCHANGED handed
      /\ UNCHANGED <<brokered, txVars, outbox>>
  BY <1>1 DEF SendRow
<1>3. OutboxIInv /\ CalmOK /\ handed \in Seq(Events) /\ relay[i] \in RelayState
  BY <1>2, RowInBatch DEF CalmIInv, OutboxIInv
<1>4. /\ e \in DOMAIN outbox /\ e \in Events
      /\ \A f \in Handed : f < e \/ e \in Handed
      /\ \A f \in DOMAIN outbox : f \notin Handed /\ f # e => e < f
  BY <1>1, <1>2, NextInOrder
<1>5. PICK q : q = [relay[i] EXCEPT !.pc = "mark"]
  OBVIOUS
<1>6. q \in RelayState /\ q.pc = "mark" /\ q.batch = relay[i].batch
  BY <1>3, <1>5 DEF RelayState
<1>7. relay' = [relay EXCEPT ![i] = q] /\ First(q.batch) = Row(i)
  BY <1>2, <1>3, <1>5, <1>6 DEF RelayGoto, OutboxIInv, Row
<1>8. /\ \A j \in Relays : j # i => relay[j] = IdleRelay
      /\ \A f \in DOMAIN outbox : outbox[f].status = "PROCESSING" <=> f \in Ids(relay[i].batch)
      /\ \A f \in DOMAIN outbox : ~AtBroker(f)
  BY <1>2, CalmAtWork
<1>9. /\ InOrder'
      /\ Handed' = IF brokered THEN Handed \cup {e} ELSE Handed
  <2>1. CASE brokered
    <3>1. HandOver(e) /\ Distinct /\ InOrder
      BY <1>2, <1>3, <2>1 DEF CalmIInv, CalmOK, Distinct
    <3> QED BY <1>3, <1>4, <2>1, <3>1, HandOverOnce, HandOverAdds
  <2>2. CASE ~brokered
    BY <1>2, <1>3, <2>2 DEF CalmOK, InOrder, Handed
  <2> QED BY <2>1, <2>2
<1>10. \A f \in DOMAIN outbox :
         /\ f \in Handed <=> outbox[f].status = "PUBLISHED"
         /\ outbox[f].status # "FAILED"
  BY <1>3, <1>8 DEF CalmOK
<1>11. \A f \in DOMAIN outbox : f \in Handed' <=> \/ outbox[f].status = "PUBLISHED"
                                                  \/ brokered /\ e = f
  BY <1>9, <1>10
<1>12. \A f, g \in DOMAIN outbox : f \in Handed' /\ g \notin Handed' => f < g
  BY <1>3, <1>4, <1>9 DEF CalmOK
<1>13. \A f, g \in DOMAIN outbox :
         outbox'[f].status = "PROCESSING" /\ outbox'[g].status = "PENDING" => f < g
  BY <1>2, <1>3 DEF CalmOK
<1>14. /\ \A r, s \in q.batch : r[1] = s[1] => r = s
       /\ Ids(q.batch) \subseteq DOMAIN outbox
       /\ Handed' \subseteq DOMAIN outbox
  BY <1>3, <1>4, <1>6, <1>9 DEF CalmOK, Ids, OutboxIInv, RelayOK
<1>15. \A f \in DOMAIN outbox : /\ outbox'[f].status # "FAILED"
                                /\ outbox'[f].status = "PROCESSING" <=> f \in Ids(q.batch)
                                /\ f \in Handed' <=> \/ outbox'[f].status = "PUBLISHED"
                                                     \/ /\ brokered /\ q.pc = "mark"
                                                        /\ First(q.batch)[1] = f
  BY <1>1, <1>2, <1>6, <1>7, <1>8, <1>10, <1>11
<1>16. \A f, g \in DOMAIN outbox :
         /\ f \in Handed' /\ g \notin Handed' => f < g
         /\ outbox'[f].status = "PROCESSING" /\ outbox'[g].status = "PENDING" => f < g
  BY <1>12, <1>13
<1>17. /\ UNCHANGED brokered /\ DOMAIN outbox' = DOMAIN outbox /\ q.pc # "fail" /\ calm
       /\ CommitsInOrder'
  BY <1>2, <1>6, CommitsStay
<1> QED BY <1>6, <1>7, <1>8, <1>9, <1>14, <1>15, <1>16, <1>17, CalmMoves

(* The row at work leaves the batch, PUBLISHED. *)
LEMMA MarkPublishedCalm ==
  ASSUME CalmIInv, NEW i \in Relays, MarkPublished(i)
  PROVE  calm' => CalmOK'
<1> SUFFICES ASSUME calm' PROVE CalmOK'
  OBVIOUS
<1>1. PICK e : e = Row(i)[1]
  OBVIOUS
<1>2. PICK row : row = [outbox[e] EXCEPT !.status = "PUBLISHED"]
  OBVIOUS
<1>3. /\ relay[i].pc = "mark" /\ NextRow(i) /\ calm
      /\ outbox' = [outbox EXCEPT ![e] = row]
      /\ IF brokered THEN UNCHANGED handed ELSE HandOver(e)
      /\ UNCHANGED <<brokered, txVars>>
  BY <1>1, <1>2 DEF MarkPublished
<1>4. /\ OutboxIInv /\ CalmOK /\ handed \in Seq(Events) /\ relay[i] \in RelayState
      /\ Row(i) \in relay[i].batch
  BY <1>3, RowInBatch DEF CalmIInv, OutboxIInv
<1>5. /\ e \in DOMAIN outbox /\ e \in Events
      /\ \A f \in Handed : f < e \/ e \in Handed
      /\ \A f \in DOMAIN outbox : f \notin Handed /\ f # e => e < f
  BY <1>1, <1>3, NextInOrder
<1>6. /\ \A j \in Relays : j # i => relay[j] = IdleRelay
      /\ \A f \in DOMAIN outbox : outbox[f].status = "PROCESSING" <=> f \in Ids(relay[i].batch)
      /\ \A f \in DOMAIN outbox : AtBroker(f) <=> brokered /\ e = f
  BY <1>1, <1>3, CalmAtWork
<1>7. /\ DOMAIN outbox' = DOMAIN outbox /\ outbox'[e].status = "PUBLISHED"
      /\ outbox'[e].before = outbox[e].before
      /\ \A f \in DOMAIN outbox : f # e => outbox'[f] = outbox[f]
  <2>1. outbox[e] \in OutboxRow
    BY <1>4, <1>5, OutboxDomain DEF OutboxIInv
  <2>2. row.status = "PUBLISHED" /\ row.before = outbox[e].before
    BY <1>2, <2>1 DEF OutboxRow
  <2> QED BY <1>3, <1>5, <2>2
<1>8. InOrder' /\ Handed' = Handed \cup {e}
  <2>1. CASE brokered
    <3>1. e \in Handed
      BY <1>4, <1>5, <1>6, <2>1 DEF CalmOK
    <3> QED BY <1>3, <1>4, <2>1, <3>1 DEF CalmOK, InOrder, Handed
  <2>2. CASE ~brokered
    <3>1. HandOver(e) /\ Distinct /\ InOrder
      BY <1>3, <1>4, <2>2 DEF CalmIInv, CalmOK, Distinct
    <3> QED BY <1>4, <1>5, <3>1, HandOverOnce, HandOverAdds
  <2> QED BY <2>1, <2>2
<1>9. \E q \in RelayState : /\ relay' = [relay EXCEPT ![i] = q] /\ q.pc \in {"claim", "send"}
                            /\ q.batch = relay[i].batch \ {Row(i)}
  <2>1. CASE relay[i].batch = {Row(i)}
    <3>1. /\ IdleRelay \in RelayState /\ IdleRelay.pc = "claim"
          /\ IdleRelay.batch = relay[i].batch \ {Row(i)}
      BY <2>1 DEF IdleRelay, RelayState
    <3> QED BY <1>3, <2>1, <3>1 DEF NextRow
  <2>2. CASE relay[i].batch # {Row(i)}
    <3>1. PICK q : q = [pc |-> "send", batch |-> relay[i].batch \ {Row(i)}]
      OBVIOUS
    <3>2. q \in RelayState /\ q.pc = "send" /\ q.batch = relay[i].batch \ {Row(i)}
      BY <1>4, <3>1 DEF RelayState
    <3> QED BY <1>3, <2>2, <3>1, <3>2 DEF NextRow
  <2> QED BY <2>1, <2>2
<1>10. PICK q \in RelayState : /\ relay' = [relay EXCEPT ![i] = q] /\ q.pc \in {"claim", "send"}
                               /\ q.batch = relay[i].batch \ {Row(i)}
  BY <1>9
<1>11. \A r, s \in relay[i].batch : r[1] = s[1] => r = s
  BY <1>4 DEF CalmOK
<1>12. Ids(q.batch) = Ids(relay[i].batch) \ {e}
  BY <1>1, <1>4, <1>10, <1>11 DEF Ids
<1>13. Ids(relay[i].batch) \subseteq DOMAIN outbox /\ Handed' \subseteq DOMAIN outbox
  BY <1>4, <1>5, <1>8 DEF CalmOK, Ids, OutboxIInv, RelayOK
<1>14. \A f \in DOMAIN outbox : /\ outbox'[f].status # "FAILED"
                                /\ outbox'[f].status = "PROCESSING" <=> f \in Ids(q.batch)
  BY <1>4, <1>6, <1>7, <1>12 DEF CalmOK
<1>15. \A f \in DOMAIN outbox : f # e => (f \in Handed <=> outbox[f].status = "PUBLISHED")
  BY <1>4, <1>6 DEF CalmOK
<1>16. \A f \in DOMAIN outbox : f \in Handed' <=> outbox'[f].status = "PUBLISHED"
  BY <1>7, <1>8, <1>15
<1>17. \A f, g \in DOMAIN outbox : f \in Handed' /\ g \notin Handed' => f < g
  BY <1>4, <1>5, <1>8 DEF CalmOK
<1>18. \A f, g \in DOMAIN outbox :
         outbox'[f].status = "PROCESSING" /\ outbox'[g].status = "PENDING" => f < g
  BY <1>4, <1>7 DEF CalmOK
<1>19. \A r, s \in q.batch : r[1] = s[1] => r = s
  BY <1>10, <1>11
<1>20. \A f \in DOMAIN outbox : /\ outbox'[f].status # "FAILED"
                                /\ outbox'[f].status = "PROCESSING" <=> f \in Ids(q.batch)
                                /\ f \in Handed' <=> \/ outbox'[f].status = "PUBLISHED"
                                                     \/ /\ brokered /\ q.pc = "mark"
                                                        /\ First(q.batch)[1] = f
  BY <1>10, <1>14, <1>16
<1>21. \A f, g \in DOMAIN outbox :
         /\ f \in Handed' /\ g \notin Handed' => f < g
         /\ outbox'[f].status = "PROCESSING" /\ outbox'[g].status = "PENDING" => f < g
  BY <1>17, <1>18
<1>22. /\ UNCHANGED brokered /\ DOMAIN outbox' = DOMAIN outbox /\ q.pc # "fail" /\ calm
       /\ CommitsInOrder'
  BY <1>3, <1>7, <1>10, CommitsStay
<1> QED BY <1>6, <1>8, <1>10, <1>12, <1>13, <1>19, <1>20, <1>21, <1>22, CalmMoves

(* A failure, a second relay at work or a crash ends the calm. *)
LEMMA FaultsCalm ==
  ASSUME CalmIInv, NEW i \in Relays,
         MarkFailed(i) \/ MarkFails(i) \/ MarkFailedFails(i) \/ RelayDies(i)
  PROVE  calm' => CalmOK'
<1>1. CASE MarkFailed(i) \/ MarkFailedFails(i)
  BY <1>1 DEF MarkFailed, MarkFailedFails, CalmIInv, CalmOK
<1>2. CASE MarkFails(i) \/ RelayDies(i)
  BY <1>2 DEF MarkFails, RelayDies
<1> QED BY <1>1, <1>2

-----------------------------------------------------------------------------
LEMMA InitCalm == ASSUME OutboxInit PROVE CalmIInv
<1>1. /\ handed = <<>> /\ outbox = <<>> /\ DOMAIN outbox = {} /\ DOMAIN handed = {}
      /\ \A i \in Relays : relay[i] = IdleRelay /\ relay[i].pc = "claim" /\ relay[i].batch = {}
  BY DEF OutboxInit, IdleRelay
<1>2. Handed = {}
  BY <1>1 DEF Handed
<1>3. InOrder /\ CommitsInOrder
  BY <1>1 DEF InOrder, CommitsInOrder, OutboxInit
<1>4. CalmOK
  BY <1>1, <1>2, <1>3 DEF CalmOK
<1>5. brokered \in BOOLEAN /\ calm \in BOOLEAN /\ outboxFaults \in 0..MaxOutboxFaults
  BY OutboxAssumption DEF OutboxInit
<1> QED BY <1>1, <1>4, <1>5, InitHolds DEF CalmIInv

(* What every step does to the variables that only CalmIInv types. *)
LEMMA OrderTyped ==
  ASSUME CalmIInv, [OutboxNext]_outboxVars
  PROVE  /\ brokered' \in BOOLEAN /\ calm' \in BOOLEAN /\ outboxFaults' \in 0..MaxOutboxFaults
         /\ Distinct'
<1>1. /\ brokered \in BOOLEAN /\ calm \in BOOLEAN /\ outboxFaults \in 0..MaxOutboxFaults
      /\ handed \in Seq(Events) /\ OutboxIInv /\ Distinct /\ MaxOutboxFaults \in Nat
  BY OutboxAssumption DEF CalmIInv, OutboxIInv, Distinct
<1>2. CASE BeginTx \/ \E e \in Events : WriteEvent(e) \/ Rollback(e) \/ GrowOld(e)
  BY <1>1, <1>2 DEF BeginTx, WriteEvent, Rollback, GrowOld, Distinct
<1>3. ASSUME NEW i \in Relays, ClaimBatch(i) \/ MarkFailed(i) \/ MarkFails(i) \/ MarkFailedFails(i)
                               \/ RelayDies(i)
      PROVE  /\ brokered' \in BOOLEAN /\ calm' \in BOOLEAN
             /\ outboxFaults' \in 0..MaxOutboxFaults /\ Distinct'
  <2>1. /\ UNCHANGED <<brokered, handed>> /\ calm' \in BOOLEAN
        /\ \/ UNCHANGED outboxFaults
           \/ outboxFaults < MaxOutboxFaults /\ outboxFaults' = outboxFaults + 1
    BY <1>1, <1>3 DEF ClaimBatch, MarkFailed, MarkFails, MarkFailedFails, RelayDies
  <2> QED BY <1>1, <2>1 DEF Distinct
<1>4. ASSUME NEW i \in Relays, SendRow(i) \/ MarkPublished(i)
      PROVE  /\ brokered' \in BOOLEAN /\ calm' \in BOOLEAN
             /\ outboxFaults' \in 0..MaxOutboxFaults /\ Distinct'
  <2>1. PICK e \in Events : e = Row(i)[1]
    BY <1>1, <1>4, RowInBatch DEF SendRow, MarkPublished
  <2>2. /\ UNCHANGED <<brokered, outboxFaults>> /\ calm' \in BOOLEAN
        /\ HandOver(e) \/ UNCHANGED handed
    BY <1>1, <1>4, <2>1 DEF SendRow, MarkPublished
  <2>3. Distinct'
    BY <1>1, <2>2, HandOverOnce DEF Distinct
  <2> QED BY <1>1, <2>2, <2>3
<1>5. CASE UNCHANGED outboxVars
  BY <1>1, <1>5 DEF outboxVars, Distinct
<1> QED BY <1>2, <1>3, <1>4, <1>5 DEF OutboxNext, RelayStep

LEMMA CalmInductive == OutboxSpec => []CalmIInv
<1>1. CalmIInv /\ [OutboxNext]_outboxVars => CalmIInv'
  <2> SUFFICES ASSUME CalmIInv, [OutboxNext]_outboxVars PROVE CalmIInv'
    OBVIOUS
  <2>1. OutboxIInv'
    BY StepKeeps DEF CalmIInv
  <2>2. calm' => CalmOK'
    <3>1. CASE UNCHANGED outboxVars
      <4>1. calm => CommitsInOrder'
        BY <3>1, CommitsStay DEF outboxVars
      <4> QED BY <3>1, <4>1, CalmStays DEF outboxVars
    <3> QED BY <3>1, TransactionCalm, WriteEventCalm, GrowOldCalm, ClaimBatchCalm, SendRowCalm, MarkPublishedCalm,
               FaultsCalm DEF OutboxNext, RelayStep
  <2> QED BY <2>1, <2>2, OrderTyped DEF CalmIInv, Distinct
<1> QED BY <1>1, InitCalm, PTL DEF OutboxSpec

(* Every variable of the outbox keeps its shape, for any number of relays,  *)
(* events, attempts and faults (dispatch 109-144: no row counts more than   *)
(* maxAttempts failures; no event is in the order of delivery twice).       *)
THEOREM OutboxTypeCorrect == OutboxSpec => []OutboxTypeOK
<1>1. CalmIInv => OutboxTypeOK
  <2> SUFFICES ASSUME CalmIInv PROVE OutboxTypeOK
    OBVIOUS
  <2>1. OutboxIInv /\ handed \in Seq(Events) /\ relay \in [Relays -> RelayState]
    BY DEF CalmIInv, OutboxIInv
  <2>2. /\ begun \in 0..EventsPerRide /\ open \subseteq Events /\ DOMAIN outbox \subseteq Events
        /\ \A e \in DOMAIN outbox : outbox[e] \in OutboxRow
    BY <2>1, OutboxDomain DEF OutboxIInv, RowsPlaced
  <2>3. PICK n \in Nat : n = Len(handed) /\ DOMAIN handed = 1..n
    BY <2>1
  <2>4. \A k \in 1..n : handed[k] \in Events
    BY <2>1, <2>3, ElementOfSeq
  <2>5. n <= EventsPerRide
    <3>1. /\ IsFiniteSet(1..n) /\ Cardinality(1..n) = n
          /\ IsFiniteSet(Events) /\ Cardinality(Events) = EventsPerRide
      BY OutboxAssumption, FS_Interval DEF Events
    <3>2. handed \in [1..n -> Events]
      BY <2>1, <2>3
    <3>3. ~\E k, m \in 1..n : k # m /\ handed[k] = handed[m]
      BY <2>3 DEF CalmIInv
    <3>4. ~(Cardinality(Events) < Cardinality(1..n))
      BY <3>1, <3>2, <3>3, FS_PigeonHole
    <3> QED BY <3>1, <3>4, OutboxAssumption
  <2>6. DOMAIN handed \subseteq Events /\ Handed \subseteq Events
    BY <2>3, <2>4, <2>5, OutboxAssumption DEF Events, Handed
  <2> QED BY <2>1, <2>2, <2>6 DEF CalmIInv, OutboxTypeOK
<1> QED BY <1>1, CalmInductive, PTL

(* In a run in which no send and no update failed, no relay crashed, none    *)
(* claimed rows while another held a batch and no two transactions of the   *)
(* ride overlapped, no event reaches the broker before one committed before *)
(* it, for any number of relays and any batch size (relayOnce 71-104).      *)
THEOREM OrderedWhileNothingFails == OutboxSpec => []OrderedWhileCalm
<1>1. CalmIInv => OrderedWhileCalm
  <2> SUFFICES ASSUME CalmIInv, calm, NEW k \in DOMAIN handed, NEW m \in DOMAIN handed, k < m
               PROVE  handed[m] \notin outbox[handed[k]].before
    BY DEF OrderedWhileCalm, OrderedPerAggregate
  <2>1. /\ InOrder /\ CommitsInOrder /\ Handed \subseteq DOMAIN outbox
        /\ DOMAIN outbox \subseteq Nat
    BY OutboxDomain DEF CalmIInv, CalmOK, Events
  <2>2. handed[k] \in Handed /\ handed[m] \in Handed /\ handed[k] < handed[m]
    BY <2>1 DEF InOrder, Handed
  <2>3. ~(handed[m] < handed[k])
    BY <2>1, <2>2
  <2> QED BY <2>1, <2>2, <2>3 DEF CommitsInOrder
<1> QED BY <1>1, CalmInductive, PTL
=============================================================================
