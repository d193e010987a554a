---------------------------- MODULE PaymentLedger ----------------------------
(***************************************************************************)
(* What the payment service promises about one ride: the payment status    *)
(* the ride shows follows the money.  An order is charged at most once and *)
(* refunded at most once, after it was charged; the ride shows COMPLETED   *)
(* only when an order was charged, REFUNDED only when one was refunded.    *)
(***************************************************************************)
CONSTANT Orders

VARIABLES
  charged,    \* the orders the gateway took money for
  refunded,   \* those it gave the money back for
  shown       \* the ride's payment status

LedgerInit == charged = {} /\ refunded = {} /\ shown = "PENDING"

Charge(o) == /\ o \notin charged
             /\ charged' = charged \cup {o}
             /\ UNCHANGED <<refunded, shown>>

GiveBack(o) == /\ o \in charged \ refunded
               /\ refunded' = refunded \cup {o}
               /\ UNCHANGED <<charged, shown>>

Show == /\ \/ charged # {} /\ shown' = "COMPLETED"
           \/ refunded # {} /\ shown' = "REFUNDED"
        /\ UNCHANGED <<charged, refunded>>

LedgerNext == Show \/ \E o \in Orders : Charge(o) \/ GiveBack(o)

Spec == LedgerInit /\ [][LedgerNext]_<<charged, refunded, shown>>
=============================================================================
