------------------------------- MODULE Payments -------------------------------
(***************************************************************************)
(* PaymentsService for one ride: its rows of the payments table, the       *)
(* create-order jobs and their worker, the Razorpay orders, the client's   *)
(* verification, webhooks and refunds.  Rides share nothing here.          *)
(*                                                                         *)
(* Every await is a step.  Only the two-table writes are transactions; no  *)
(* update looks at the status it overwrites.  A select by ride returns any *)
(* one row of the ride (LIMIT 1 without an order).                         *)
(*                                                                         *)
(* OrderFailsForever, WebhookAnyEvent and RefundGatewayIgnored, used by no *)
(* action, are defective forms of the definitions after them.              *)
(***************************************************************************)
EXTENDS Naturals

CONSTANTS
  PaymentIds,
  NoPayment,        \* no row of the payments table
  NoOrder,          \* gatewayOrderId, gatewayPaymentId NULL
  ApiCalls,         \* how many API calls can be in flight at once
  OrderAttempts,    \* the queue's attempts per job
  PayFaults,        \* subset of {"enqueue", "crash"}
  WebhookPaths,     \* subset of {"secret", "unnamed", "named"}
  MaxPayCrashes     \* bound: times a worker dies in a run

(* Only a worker that died makes a second order for one payment. *)
Orders == PaymentIds \X (1..1 + MaxPayCrashes)

ASSUME PaymentsAssumption ==
  /\ NoPayment \notin PaymentIds /\ NoOrder \notin Orders
  /\ PayFaults \subseteq {"enqueue", "crash"}
  /\ WebhookPaths \subseteq {"secret", "unnamed", "named"}
  /\ OrderAttempts \in Nat \ {0} /\ MaxPayCrashes \in Nat

VARIABLES
  webhookPath,  \* what the deployment does to a webhook (WebhookPaths)
  pay,          \* the ride's rows of the payments table
  ridePaid,     \* rides.paymentStatus
  orderJob,     \* the payment-<id> jobs
  order,        \* the orders at the gateway
  webhooks,     \* the webhooks the gateway has sent and may send again
  api,          \* the API calls in flight
  payCrashes

payVars ==
  <<webhookPath, pay, ridePaid, orderJob, order, webhooks, api, payCrashes>>

PaymentStatuses == {"PENDING", "PROCESSING", "COMPLETED", "FAILED", "REFUNDED"}
MaybeOrder == Orders \cup {NoOrder}
PaymentRow == [status : PaymentStatuses, order : MaybeOrder, txn : MaybeOrder]
NoRow == [status |-> "NONE"]

OrderJob == [state : {"none", "queued", "ordered", "done", "failed"},
             attempts : 0..OrderAttempts, order : MaybeOrder]
DoneJob == [state |-> "done", attempts |-> 0, order |-> NoOrder]
OrderStates == {"none", "created", "shown", "charged", "refunded"}

(* What a webhook says to the code: which event, about the ride.  The      *)
(* order is not looked at; captured stands for authorized too.             *)
WebhookEvents == {"captured", "failed"}

NoCall == [op |-> "none", pc |-> "idle", payment |-> NoPayment, order |-> NoOrder]
ApiCall == [op : {"none", "initiate", "verify", "refund"},
            pc : {"idle", "insert", "enqueue", "gateway", "commit"},
            payment : PaymentIds \cup {NoPayment}, order : MaybeOrder]

RowsOfRide == {p \in PaymentIds : pay[p] # NoRow}

PayInit ==
  /\ webhookPath \in WebhookPaths
  /\ pay = [p \in PaymentIds |-> NoRow]
  /\ ridePaid = "PENDING"
  /\ orderJob = [p \in PaymentIds |-> [state |-> "none", attempts |-> 0, order |-> NoOrder]]
  /\ order = [o \in Orders |-> "none"]
  /\ webhooks = {}
  /\ api = [c \in ApiCalls |-> NoCall]
  /\ payCrashes = 0

Enter(c, op, pc, p, o) ==
  api' = [api EXCEPT ![c] = [op |-> op, pc |-> pc, payment |-> p, order |-> o]]
At(c, op, pc) == api[c].op = op /\ api[c].pc = pc
Leave(c) == api' = [api EXCEPT ![c] = NoCall]

-----------------------------------------------------------------------------
(* initiatePayment: check, insert, enqueue. *)
InitiateCheck(c) ==
  /\ api[c] = NoCall /\ RowsOfRide = {}
  /\ Enter(c, "initiate", "insert", NoPayment, NoOrder)
  /\ UNCHANGED <<webhookPath, pay, ridePaid, orderJob, order, webhooks, payCrashes>>

InitiateInsert(c) ==
  /\ At(c, "initiate", "insert")
  /\ RowsOfRide # PaymentIds
  /\ LET p == CHOOSE fresh \in PaymentIds : fresh \notin RowsOfRide IN
       /\ pay' = [pay EXCEPT ![p] = [status |-> "PENDING", order |-> NoOrder, txn |-> NoOrder]]
       /\ Enter(c, "initiate", "enqueue", p, NoOrder)
  /\ UNCHANGED <<webhookPath, ridePaid, orderJob, order, webhooks, payCrashes>>

(* The queue takes the job or rejects it; the row stays either way. *)
InitiateEnqueue(c) ==
  /\ At(c, "initiate", "enqueue")
  /\ \/ orderJob' = [orderJob EXCEPT ![api[c].payment].state = "queued"]
     \/ "enqueue" \in PayFaults /\ UNCHANGED orderJob
  /\ Leave(c)
  /\ UNCHANGED <<webhookPath, pay, ridePaid, order, webhooks, payCrashes>>

-----------------------------------------------------------------------------
(* processOrderJob: a new order at the gateway ... *)
OrderCreate(p) ==
  /\ orderJob[p].state = "queued"
  /\ \E o \in Orders :
       /\ o[1] = p /\ order[o] = "none"
       /\ \A n \in 1..o[2] - 1 : order[<<p, n>>] # "none"
       /\ order' = [order EXCEPT ![o] = "created"]
       /\ orderJob' = [orderJob EXCEPT ![p].state = "ordered", ![p].order = o]
  /\ UNCHANGED <<webhookPath, pay, ridePaid, webhooks, api, payCrashes>>

(* ... or an error from it, which the queue retries ... *)
OrderFailsForever(p) ==
  /\ orderJob[p].state = "queued"
  /\ orderJob' = [orderJob EXCEPT ![p].attempts = @ + 1]
  /\ UNCHANGED <<webhookPath, pay, ridePaid, order, webhooks, api, payCrashes>>
OrderFails(p) ==
  /\ orderJob[p].state = "queued"
  /\ orderJob' = [orderJob EXCEPT ![p].attempts = @ + 1,
                    ![p].state = IF orderJob[p].attempts + 1 < OrderAttempts
                                 THEN "queued" ELSE "failed"]
  /\ UNCHANGED <<webhookPath, pay, ridePaid, order, webhooks, api, payCrashes>>

(* ... and the update of the row, whatever its status is by now. *)
OrderRecord(p) ==
  /\ orderJob[p].state = "ordered"
  /\ pay' = [pay EXCEPT ![p].status = "PROCESSING", ![p].order = orderJob[p].order]
  /\ order' = [order EXCEPT ![orderJob[p].order] = "shown"]
  /\ orderJob' = [orderJob EXCEPT ![p] = DoneJob]
  /\ UNCHANGED <<webhookPath, ridePaid, webhooks, api, payCrashes>>

(* The worker dies between the two, or before its job is acknowledged: the *)
(* job is stalled and runs again.                                          *)
WorkerDies(p) ==
  /\ "crash" \in PayFaults /\ payCrashes < MaxPayCrashes
  /\ \/ orderJob[p].state = "ordered" /\ UNCHANGED <<pay, order>>
     \/ /\ orderJob[p].state = "ordered"
        /\ pay' = [pay EXCEPT ![p].status = "PROCESSING", ![p].order = orderJob[p].order]
        /\ order' = [order EXCEPT ![orderJob[p].order] = "shown"]
  /\ orderJob' = [orderJob EXCEPT ![p].state = "queued", ![p].order = NoOrder]
  /\ payCrashes' = payCrashes + 1
  /\ UNCHANGED <<webhookPath, ridePaid, webhooks, api>>

-----------------------------------------------------------------------------
(* The gateway's checkout: an attempt on an order the client was shown     *)
(* fails or charges it, and a webhook goes out.                            *)
Checkout(o) ==
  /\ order[o] = "shown"
  /\ \/ /\ order' = [order EXCEPT ![o] = "charged"]
        /\ webhooks' = webhooks \cup {"captured"}
     \/ /\ webhooks' = webhooks \cup {"failed"}
        /\ UNCHANGED order
  /\ UNCHANGED <<webhookPath, pay, ridePaid, orderJob, api, payCrashes>>

(* verifyPayment: the row holds the order, the signature is the gateway's; *)
(* then the row and the ride in one transaction.                           *)
VerifyRead(c, o) ==
  /\ api[c] = NoCall
  /\ order[o] \in {"charged", "refunded"}
  /\ \E p \in RowsOfRide :
       pay[p].order = o /\ Enter(c, "verify", "commit", p, o)
  /\ UNCHANGED <<webhookPath, pay, ridePaid, orderJob, order, webhooks, payCrashes>>

VerifyCommit(c) ==
  /\ At(c, "verify", "commit")
  /\ pay' = [pay EXCEPT ![api[c].payment].status = "COMPLETED",
                        ![api[c].payment].txn = api[c].order]
  /\ ridePaid' = "COMPLETED"
  /\ Leave(c)
  /\ UNCHANGED <<webhookPath, orderJob, order, webhooks, payCrashes>>

(* handleWebhook, delivered any number of times in any order.  With a      *)
(* webhookSecret ("secret") the signature is looked for in the query, the  *)
(* gateway sends it in a header, and every delivery is answered 400.       *)
(* Without one, a delivery whose notes have no ride_id ("unnamed") is      *)
(* acknowledged and nothing else: the order job's notes say rideId, so     *)
(* only a checkout that adds ride_id itself ("named") is taken.            *)
(* Its read only picks the row, and rows never go away: read and write are *)
(* one step.                                                               *)
Dropped(m) == /\ webhookPath \in {"secret", "unnamed"} /\ m \in webhooks
              /\ UNCHANGED payVars

WebhookAnyEvent(m, p) ==
  /\ webhookPath = "named" /\ m \in webhooks
  /\ pay' = [pay EXCEPT ![p].status = "COMPLETED"]
  /\ ridePaid' = "COMPLETED"
  /\ UNCHANGED <<webhookPath, orderJob, order, webhooks, api, payCrashes>>

Webhook(m, p) ==
  /\ webhookPath = "named" /\ m \in webhooks
  /\ IF m = "captured"
     THEN /\ pay' = [pay EXCEPT ![p].status = "COMPLETED"]
          /\ ridePaid' = "COMPLETED"
     ELSE /\ pay' = [pay EXCEPT ![p].status = "FAILED"]
          /\ UNCHANGED ridePaid
  /\ UNCHANGED <<webhookPath, orderJob, order, webhooks, api, payCrashes>>

(* refund: read, the gateway's refund of the row's gatewayPaymentId, then  *)
(* the transaction.  The gateway refuses what is not charged.              *)
RefundRead(c) ==
  /\ api[c] = NoCall
  /\ \E p \in RowsOfRide :
       pay[p].status = "COMPLETED" /\ Enter(c, "refund", "gateway", p, pay[p].txn)
  /\ UNCHANGED <<webhookPath, pay, ridePaid, orderJob, order, webhooks, payCrashes>>

RefundGatewayIgnored(c) ==
  /\ At(c, "refund", "gateway")
  /\ Enter(c, "refund", "commit", api[c].payment, api[c].order)
  /\ IF api[c].order # NoOrder /\ order[api[c].order] = "charged"
     THEN order' = [order EXCEPT ![api[c].order] = "refunded"]
     ELSE UNCHANGED order
  /\ UNCHANGED <<webhookPath, pay, ridePaid, orderJob, webhooks, payCrashes>>

RefundGateway(c) ==
  /\ At(c, "refund", "gateway")
  /\ IF api[c].order # NoOrder /\ order[api[c].order] = "charged"
     THEN /\ order' = [order EXCEPT ![api[c].order] = "refunded"]
          /\ Enter(c, "refund", "commit", api[c].payment, api[c].order)
     ELSE Leave(c) /\ UNCHANGED order
  /\ UNCHANGED <<webhookPath, pay, ridePaid, orderJob, webhooks, payCrashes>>

RefundCommit(c) ==
  /\ At(c, "refund", "commit")
  /\ pay' = [pay EXCEPT ![api[c].payment].status = "REFUNDED"]
  /\ ridePaid' = "REFUNDED"
  /\ Leave(c)
  /\ UNCHANGED <<webhookPath, orderJob, order, webhooks, payCrashes>>

(* The instance of a call dies, or its client or the database gives up. *)
CallDies(c) ==
  /\ "crash" \in PayFaults
  /\ api[c] # NoCall
  /\ Leave(c)
  /\ UNCHANGED <<webhookPath, pay, ridePaid, orderJob, order, webhooks, payCrashes>>

-----------------------------------------------------------------------------
OrderStep(p) == OrderCreate(p) \/ OrderFails(p) \/ OrderRecord(p)
WebhookStep(m) == \E p \in RowsOfRide : Webhook(m, p)
CallStep(c) ==
  \/ InitiateCheck(c) \/ InitiateInsert(c) \/ InitiateEnqueue(c)
  \/ \E o \in Orders : VerifyRead(c, o)
  \/ VerifyCommit(c) \/ RefundRead(c) \/ RefundGateway(c) \/ RefundCommit(c)

PayNext == \/ \E c \in ApiCalls : CallStep(c)
           \/ \E p \in PaymentIds : OrderStep(p) \/ WorkerDies(p)
           \/ \E o \in Orders : Checkout(o)
           \/ \E m \in WebhookEvents : WebhookStep(m) \/ Dropped(m)
           \/ \E c \in ApiCalls : CallDies(c)

PaySpec == PayInit /\ [][PayNext]_payVars

-----------------------------------------------------------------------------
(* Every variable of the payment service keeps its shape. *)
PayTypeOK ==
  /\ webhookPath \in WebhookPaths
  /\ pay \in [PaymentIds -> PaymentRow \cup {NoRow}]
  /\ ridePaid \in {"PENDING", "COMPLETED", "REFUNDED"}
  /\ orderJob \in [PaymentIds -> OrderJob]
  /\ order \in [Orders -> OrderStates]
  /\ webhooks \subseteq WebhookEvents
  /\ api \in [ApiCalls -> ApiCall]
  /\ payCrashes \in 0..MaxPayCrashes

(* Reordered webhooks, a late verification, a second payment row and a     *)
(* crash never make the ride show money that did not move: it shows        *)
(* COMPLETED only after a charge and REFUNDED only after a refund          *)
(* (verifyPayment 162-179, handleWebhook 223-236, refund 288-302).         *)
Charged == {o \in Orders : order[o] \in {"charged", "refunded"}}
Ledger == INSTANCE PaymentLedger WITH
            charged <- Charged,
            refunded <- {o \in Orders : order[o] = "refunded"},
            shown <- ridePaid
LedgerSpec == Ledger!Spec

(* A row is REFUNDED only if money of that payment itself went back,       *)
(* although refund reads, calls the gateway and writes in three steps and  *)
(* the rows of a ride may be two (refund 272-302).                         *)
RefundsAreBacked ==
  \A p \in RowsOfRide : pay[p].status = "REFUNDED"
    => \E o \in Orders : o[1] = p /\ order[o] = "refunded"

(* "Client retries can never double-charge" (SECURITY.md:36). *)
NoDoubleCharge == \A o, q \in Orders : {o, q} \subseteq Charged => o = q

-----------------------------------------------------------------------------
(* The inductive invariant behind the two safety properties: a call past   *)
(* its read works on a row of the ride, and only its maker enqueues the    *)
(* row's job; whatever is about to show money, or is recorded as a         *)
(* transaction, is an order of that payment, charged or refunded as the    *)
(* call is about to write; a job holds a fresh order of its own row.       *)
CallOfPayment(f) ==
  /\ f.pc \in {"enqueue", "gateway", "commit"} => f.payment \in RowsOfRide
  /\ f.pc = "enqueue" => orderJob[f.payment].state = "none"
  /\ f.pc = "gateway" => /\ f.op = "refund"
                         /\ f.order # NoOrder => f.order[1] = f.payment
  /\ f.pc = "commit" => /\ f.order \in Charged /\ f.order[1] = f.payment
                        /\ f.op = "refund" => order[f.order] = "refunded"

CallsOfPayments ==
  /\ \A c \in ApiCalls : CallOfPayment(api[c])
  /\ \A c, d \in ApiCalls :
       /\ api[c].pc = "enqueue" /\ api[d].pc = "enqueue"
       /\ api[c].payment = api[d].payment
       => c = d

RowsOfPayments ==
  \A p \in RowsOfRide : /\ pay[p].order # NoOrder => pay[p].order[1] = p
                        /\ pay[p].txn # NoOrder => pay[p].txn[1] = p

JobOfPayment(p, j) ==
  /\ j.state # "none" => p \in RowsOfRide
  /\ j.state = "none" => j.attempts = 0
  /\ j.state \in {"queued", "ordered"} => j.attempts < OrderAttempts
  /\ j.state = "ordered" => /\ j.order \in Orders /\ j.order[1] = p
                            /\ order[j.order] = "created"

JobsOfPayments == \A p \in PaymentIds : JobOfPayment(p, orderJob[p])

PayIInv ==
  /\ PayTypeOK
  /\ CallsOfPayments
  /\ RowsOfPayments
  /\ JobsOfPayments
  /\ "captured" \in webhooks => Charged # {}
  /\ RefundsAreBacked
=============================================================================
