-------------------------------- MODULE Outbox --------------------------------
(***************************************************************************)
(* OutboxService and the relay workers of several instances, for the       *)
(* events of one ride (the key by which the broker keeps an order).        *)
(*                                                                         *)
(* createdAt defaults to now(), the start of the transaction that writes   *)
(* the row: an event is named by the number of its transaction in order of *)
(* begin, and transactions that overlap commit in any order.               *)
(*                                                                         *)
(* A claim is one transaction (FOR UPDATE SKIP LOCKED); the send, the      *)
(* update to PUBLISHED and the update after a failure are awaits of their  *)
(* own and look at nothing but the row's id.                               *)
(*                                                                         *)
(* ClaimablePending, OldestAny, SendRowAcked and GiveUpLate, used by no    *)
(* action, are defective forms of the definitions after them.              *)
(***************************************************************************)
EXTENDS Naturals, Sequences, FiniteSets

CONSTANTS
  Relays,           \* the instances' relay workers
  EventsPerRide,    \* bound: transactions begun in a run
  BatchSize,        \* rows claimed at once
  MaxAttempts,      \* events.maxAttempts
  MaxOutboxFaults   \* bound: crashes and failed updates in a run

Events == 1..EventsPerRide

ASSUME OutboxAssumption ==
  /\ EventsPerRide \in Nat /\ MaxOutboxFaults \in Nat
  /\ BatchSize \in Nat \ {0} /\ MaxAttempts \in Nat \ {0}

VARIABLES
  brokered,     \* events.brokerEnabled
  begun,        \* transactions of the ride begun so far
  open,         \* those neither committed nor rolled back
  outbox,       \* the committed outbox_events rows, by their transaction
  relay,        \* what each relay worker is at
  handed,       \* the events handed over, in the order of first delivery
  calm,         \* so far no transactions of the ride at once, no two relays
                \* at work at once, no failure, no crash
  outboxFaults

txVars == <<begun, open>>
outboxVars == <<brokered, txVars, outbox, relay, handed, calm, outboxFaults>>

OutboxRow == [status : {"PENDING", "PROCESSING", "PUBLISHED", "FAILED"},
              attempts : 0..MaxAttempts, old : BOOLEAN,
              before : SUBSET Events]   \* ghost: committed before this one
RelayState == [pc : {"claim", "send", "mark", "fail"},
               batch : SUBSET (Events \X (0..MaxAttempts))]
IdleRelay == [pc |-> "claim", batch |-> {}]

Handed == {handed[k] : k \in DOMAIN handed}

OutboxInit == /\ brokered \in BOOLEAN
              /\ begun = 0 /\ open = {}
              /\ outbox = <<>>
              /\ relay = [i \in Relays |-> IdleRelay]
              /\ handed = <<>>
              /\ calm = TRUE
              /\ outboxFaults = 0

(* db.transaction of a ride that exists: its UPDATE and write() are in it. *)
BeginTx == /\ begun < EventsPerRide
           /\ begun' = begun + 1
           /\ open' = open \cup {begun'}
           /\ calm' = (calm /\ open = {})
           /\ UNCHANGED <<brokered, outbox, relay, handed, outboxFaults>>

(* write(), seen by others when the transaction commits. *)
NewRow == [status |-> "PENDING", attempts |-> 0, old |-> FALSE, before |-> DOMAIN outbox]
WriteEvent(e) == /\ e \in open
                 /\ open' = open \ {e}
                 /\ outbox' = [f \in DOMAIN outbox \cup {e} |->
                                 IF f = e THEN NewRow ELSE outbox[f]]
                 /\ UNCHANGED <<brokered, begun, relay, handed, calm, outboxFaults>>

(* A lost race (409) or a failed statement. *)
Rollback(e) == /\ e \in open
               /\ open' = open \ {e}
               /\ UNCHANGED <<brokered, begun, outbox, relay, handed, calm, outboxFaults>>

(* updatedAt is written once, at the insert: two minutes later the row is  *)
(* stale whenever it is PROCESSING.                                        *)
GrowOld(e) == /\ e \in DOMAIN outbox /\ ~outbox[e].old
              /\ outbox' = [outbox EXCEPT ![e].old = TRUE]
              /\ UNCHANGED <<brokered, txVars, relay, handed, calm, outboxFaults>>

-----------------------------------------------------------------------------
(* relayOnce: the oldest claimable rows become PROCESSING; the rows are    *)
(* returned as they were read.                                             *)
ClaimablePending == {e \in DOMAIN outbox : outbox[e].status = "PENDING"}
Claimable == {e \in DOMAIN outbox :
                \/ outbox[e].status = "PENDING"
                \/ outbox[e].status = "PROCESSING" /\ outbox[e].old}

OldestAny(rows) == {b \in SUBSET rows : b # {} /\ Cardinality(b) <= BatchSize}
Oldest(rows) == {b \in SUBSET rows :
                   /\ Cardinality(b) = BatchSize \/ b = rows
                   /\ Cardinality(b) <= BatchSize
                   /\ \A e \in b, f \in rows \ b : e < f}

ClaimBatch(i) ==
  /\ relay[i] = IdleRelay /\ Claimable # {}
  /\ \E b \in Oldest(Claimable) :
       /\ outbox' = [e \in DOMAIN outbox |->
                       IF e \in b THEN [outbox[e] EXCEPT !.status = "PROCESSING"]
                                  ELSE outbox[e]]
       /\ relay' = [relay EXCEPT ![i] =
                      [pc |-> "send", batch |-> {<<e, outbox[e].attempts>> : e \in b}]]
  /\ calm' = (calm /\ \A j \in Relays : relay[j] = IdleRelay)
  /\ UNCHANGED <<brokered, txVars, handed, outboxFaults>>

(* dispatch: the rows of the batch one after the other. *)
First(batch) == CHOOSE r \in batch : \A s \in batch : r[1] <= s[1]
Row(i) == First(relay[i].batch)
HandOver(e) == handed' = IF e \in Handed THEN handed ELSE Append(handed, e)
RelayGoto(i, pc) == relay' = [relay EXCEPT ![i].pc = pc]
NextRow(i) ==
  relay' = [relay EXCEPT ![i] = IF relay[i].batch = {Row(i)} THEN IdleRelay
              ELSE [pc |-> "send", batch |-> relay[i].batch \ {Row(i)}]]

(* The producer sends, or throws, with or without the broker having it. *)
SendRowAcked(i) ==
  /\ relay[i].pc = "send"
  /\ \/ HandOver(Row(i)[1]) \/ UNCHANGED handed
  /\ RelayGoto(i, "mark") /\ UNCHANGED calm
  /\ UNCHANGED <<brokered, txVars, outbox, outboxFaults>>

SendRow(i) ==
  /\ relay[i].pc = "send"
  /\ \/ /\ RelayGoto(i, "mark") /\ UNCHANGED calm
        /\ IF brokered THEN HandOver(Row(i)[1]) ELSE UNCHANGED handed
     \/ /\ brokered
        /\ RelayGoto(i, "fail") /\ calm' = FALSE
        /\ HandOver(Row(i)[1]) \/ UNCHANGED handed
  /\ UNCHANGED <<brokered, txVars, outbox, outboxFaults>>

MarkPublished(i) ==
  /\ relay[i].pc = "mark"
  /\ outbox' = [outbox EXCEPT ![Row(i)[1]].status = "PUBLISHED"]
  /\ IF brokered THEN UNCHANGED handed ELSE HandOver(Row(i)[1])
  /\ NextRow(i)
  /\ UNCHANGED <<brokered, txVars, calm, outboxFaults>>

(* That update fails inside the try block. *)
MarkFails(i) ==
  /\ relay[i].pc = "mark" /\ outboxFaults < MaxOutboxFaults
  /\ RelayGoto(i, "fail")
  /\ calm' = FALSE /\ outboxFaults' = outboxFaults + 1
  /\ UNCHANGED <<brokered, txVars, outbox, handed>>

(* attempts counts from the row as it was claimed. *)
GiveUpLate(attempts) == attempts > MaxAttempts
GiveUp(attempts) == attempts >= MaxAttempts

MarkFailed(i) ==
  LET attempts == Row(i)[2] + 1 IN
  /\ relay[i].pc = "fail"
  /\ outbox' = [outbox EXCEPT ![Row(i)[1]].attempts = attempts,
                  ![Row(i)[1]].status = IF GiveUp(attempts) THEN "FAILED" ELSE "PENDING"]
  /\ NextRow(i)
  /\ UNCHANGED <<brokered, txVars, handed, calm, outboxFaults>>

(* That update's own failure is swallowed. *)
MarkFailedFails(i) ==
  /\ relay[i].pc = "fail" /\ outboxFaults < MaxOutboxFaults
  /\ NextRow(i)
  /\ outboxFaults' = outboxFaults + 1
  /\ UNCHANGED <<brokered, txVars, outbox, handed, calm>>

RelayDies(i) ==
  /\ relay[i] # IdleRelay /\ outboxFaults < MaxOutboxFaults
  /\ relay' = [relay EXCEPT ![i] = IdleRelay]
  /\ calm' = FALSE /\ outboxFaults' = outboxFaults + 1
  /\ UNCHANGED <<brokered, txVars, outbox, handed>>

-----------------------------------------------------------------------------
RelayStep(i) == ClaimBatch(i) \/ SendRow(i) \/ MarkPublished(i) \/ MarkFailed(i)

OutboxNext == \/ BeginTx
              \/ \E e \in Events : WriteEvent(e) \/ Rollback(e) \/ GrowOld(e)
              \/ \E i \in Relays : \/ RelayStep(i) \/ RelayDies(i)
                                   \/ MarkFails(i) \/ MarkFailedFails(i)

OutboxSpec == OutboxInit /\ [][OutboxNext]_outboxVars

(* The interval timer fires in every live instance, a relay in a batch goes *)
(* on, and time passes.  The broker may refuse every send.                  *)
OutboxFairness == /\ \A i \in Relays : WF_outboxVars(RelayStep(i))
                  /\ \A e \in Events : WF_outboxVars(GrowOld(e))

-----------------------------------------------------------------------------
(* Every variable of the outbox keeps its shape; no row counts more than    *)
(* MaxAttempts failures.                                                    *)
OutboxTypeOK ==
  /\ brokered \in BOOLEAN /\ calm \in BOOLEAN
  /\ begun \in 0..EventsPerRide /\ open \subseteq Events
  /\ DOMAIN outbox \subseteq Events /\ DOMAIN handed \subseteq Events
  /\ \A e \in DOMAIN outbox : outbox[e] \in OutboxRow
  /\ relay \in [Relays -> RelayState]
  /\ Handed \subseteq Events
  /\ outboxFaults \in 0..MaxOutboxFaults

(* No event is lost between the row and the broker: one that was not handed *)
(* over is still to be sent, or has used up its attempts, although relays   *)
(* die in a batch, claim each other's rows and overwrite each other's       *)
(* updates (relayOnce 70-107, dispatch 109-144).                            *)
NoEventLost ==
  \A e \in DOMAIN outbox :
    e \notin Handed =>
      \/ outbox[e].status \in {"PENDING", "PROCESSING"}
      \/ outbox[e].status = "FAILED" /\ outbox[e].attempts = MaxAttempts

(* Why: a row is PUBLISHED only after its event was handed over, FAILED     *)
(* only with its attempts used up, and whoever holds it for sending read   *)
(* it with an attempt left.                                                *)
RowOK(e) ==
  /\ outbox[e].status = "PUBLISHED" => e \in Handed
  /\ outbox[e].status = "FAILED" => outbox[e].attempts = MaxAttempts
  /\ outbox[e].status \in {"PENDING", "PROCESSING"} => outbox[e].attempts < MaxAttempts
RelayOK(i) ==
  /\ relay[i].pc # "claim" => relay[i].batch # {}
  /\ \A r \in relay[i].batch : r[1] \in DOMAIN outbox /\ r[2] < MaxAttempts
  /\ brokered /\ relay[i].pc = "mark" => Row(i)[1] \in Handed

RowsPlaced ==
  /\ begun \in 0..EventsPerRide
  /\ open \cup DOMAIN outbox \subseteq 1..begun /\ open \cap DOMAIN outbox = {}
  /\ outbox \in [DOMAIN outbox -> OutboxRow]

OutboxIInv ==
  /\ RowsPlaced
  /\ handed \in Seq(Events)
  /\ relay \in [Relays -> RelayState]
  /\ \A e \in DOMAIN outbox : RowOK(e)
  /\ \A i \in Relays : RelayOK(i)

(* "publishes at-least-once" (outbox.service.ts:31) and "crash-safe"        *)
(* (CHANGELOG.md:25): the relays implement the channel, and every event is  *)
(* decided.                                                                 *)
Channel == INSTANCE OutboxChannel WITH
             committed <- DOMAIN outbox,
             delivered <- Handed,
             abandoned <- {e \in DOMAIN outbox : outbox[e].status = "FAILED"} \ Handed
ChannelSpec == Channel!Spec

(* "ordered per aggregate" (ARCHITECTURE.md:76): no event is delivered      *)
(* before one that was committed before it.  As it stands ...               *)
OrderedPerAggregate ==
  \A k, m \in DOMAIN handed : k < m => handed[m] \notin outbox[handed[k]].before

(* ... it holds as long as nothing failed, no relay claimed rows while      *)
(* another held a batch and no two transactions of the ride overlapped: the *)
(* batch is claimed and sent in the order of createdAt, which is then the   *)
(* order of commit (relayOnce 71-104).                                      *)
OrderedWhileCalm == calm => OrderedPerAggregate

(* Why: while all is calm one relay works at most, on the rows that are     *)
(* PROCESSING; those before it are PUBLISHED and handed over, those after   *)
(* it PENDING; and who commits began after all who committed.               *)
AtBroker(e) == brokered /\ \E i \in Relays : relay[i].pc = "mark" /\ Row(i)[1] = e
InOrder == \A k, m \in DOMAIN handed : k < m => handed[k] < handed[m]
CommitsInOrder == /\ open \subseteq {begun}
                  /\ \A e \in DOMAIN outbox : \A f \in outbox[e].before : f < e
CalmOK ==
  /\ InOrder /\ CommitsInOrder
  /\ Handed \subseteq DOMAIN outbox
  /\ \A i, j \in Relays : relay[i] # IdleRelay /\ relay[j] # IdleRelay => i = j
  /\ \A i \in Relays :
       /\ relay[i].pc # "fail"
       /\ \A r, s \in relay[i].batch : r[1] = s[1] => r = s
       /\ \A r \in relay[i].batch : outbox[r[1]].status = "PROCESSING"
  /\ \A e \in DOMAIN outbox :
       /\ outbox[e].status # "FAILED"
       /\ outbox[e].status = "PROCESSING" => \E i \in Relays : \E r \in relay[i].batch : r[1] = e
       /\ e \in Handed <=> outbox[e].status = "PUBLISHED" \/ AtBroker(e)
  /\ \A e, f \in DOMAIN outbox :
       /\ e \in Handed /\ f \notin Handed => e < f
       /\ outbox[e].status = "PROCESSING" /\ outbox[f].status = "PENDING" => e < f

CalmIInv ==
  /\ OutboxIInv
  /\ brokered \in BOOLEAN /\ calm \in BOOLEAN /\ outboxFaults \in 0..MaxOutboxFaults
  /\ \A k, m \in DOMAIN handed : handed[k] = handed[m] => k = m
  /\ calm => CalmOK
=============================================================================
