---------------------------- MODULE PaymentsProofs ----------------------------
(***************************************************************************)
(* Payments keeps its inductive invariant PayIInv for any number of        *)
(* payment rows, concurrent calls, attempts and worker deaths; its safety  *)
(* properties follow, and so does that it implements PaymentLedger.        *)
(***************************************************************************)
EXTENDS Payments, TLAPS

(* The money only moves on: nothing charged or refunded is forgotten. *)
MoneyMovesOn ==
  \A o \in Orders : /\ order[o] = "refunded" => order'[o] = "refunded"
                    /\ order[o] = "charged" => order'[o] \in {"charged", "refunded"}

LEMMA NoRowIsNone == NoRow \notin PaymentRow
<1>1. ASSUME NEW r \in PaymentRow PROVE r # NoRow
  <2>1. r.status \in PaymentStatuses
    BY <1>1 DEF PaymentRow
  <2>2. NoRow.status = "NONE" /\ "NONE" \notin PaymentStatuses
    BY DEF NoRow, PaymentStatuses
  <2> QED BY <2>1, <2>2
<1> QED BY <1>1

LEMMA RowIsTyped ==
  ASSUME PayTypeOK, NEW p \in RowsOfRide
  PROVE  /\ p \in PaymentIds /\ pay[p] \in PaymentRow
         /\ pay[p].status \in PaymentStatuses
         /\ pay[p].order \in MaybeOrder /\ pay[p].txn \in MaybeOrder
<1>1. p \in PaymentIds /\ pay[p] \in PaymentRow
  BY DEF PayTypeOK, RowsOfRide
<1> QED BY <1>1 DEF PaymentRow

LEMMA OrderIsNotNull == NoOrder \notin Orders /\ NoPayment \notin PaymentIds
BY PaymentsAssumption

LEMMA InitPayIInv == ASSUME PayInit PROVE PayIInv
<1>1. PayTypeOK
  <2>1. NoCall \in ApiCall
    BY DEF NoCall, ApiCall, MaybeOrder
  <2>2. [state |-> "none", attempts |-> 0, order |-> NoOrder] \in OrderJob
    BY PaymentsAssumption DEF OrderJob, MaybeOrder
  <2>3. payCrashes \in 0..MaxPayCrashes
    BY PaymentsAssumption DEF PayInit
  <2> QED BY <2>1, <2>2, <2>3 DEF PayInit, PayTypeOK, OrderStates
<1>2. RowsOfRide = {}
  BY DEF PayInit, RowsOfRide
<1>3. CallsOfPayments
  BY DEF PayInit, CallsOfPayments, CallOfPayment, NoCall
<1>4. RowsOfPayments /\ RefundsAreBacked
  BY <1>2 DEF RowsOfPayments, RefundsAreBacked
<1>5. JobsOfPayments
  <2> SUFFICES ASSUME NEW p \in PaymentIds PROVE JobOfPayment(p, orderJob[p])
    BY DEF JobsOfPayments
  <2>1. orderJob[p].state = "none" /\ orderJob[p].attempts = 0
    BY DEF PayInit
  <2> QED BY <2>1 DEF JobOfPayment
<1>6. "captured" \notin webhooks
  BY DEF PayInit
<1> QED BY <1>1, <1>3, <1>4, <1>5, <1>6 DEF PayIInv

-----------------------------------------------------------------------------
(* Frames: what keeps each part of the invariant. *)
LEMMA CallKept ==
  ASSUME PayTypeOK, NEW f \in ApiCall, CallOfPayment(f), MoneyMovesOn,
         RowsOfRide \subseteq RowsOfRide',
         f.pc = "enqueue" => orderJob'[f.payment] = orderJob[f.payment]
  PROVE  CallOfPayment(f)'
<1>1. Charged \subseteq Charged'
  BY DEF Charged, MoneyMovesOn
<1>2. Charged \subseteq Orders
  BY DEF Charged
<1> QED BY <1>1, <1>2 DEF CallOfPayment, MoneyMovesOn

(* One call moves on, or none. *)
LEMMA CallsKept ==
  ASSUME PayIInv, NEW c \in ApiCalls, NEW X \in ApiCall \cup {NoCall},
         api' = [api EXCEPT ![c] = X],
         CallOfPayment(X)', X.pc # "enqueue" \/ X.payment \notin RowsOfRide,
         MoneyMovesOn, RowsOfRide \subseteq RowsOfRide',
         \A d \in ApiCalls \ {c} : api[d].pc = "enqueue"
           => orderJob'[api[d].payment] = orderJob[api[d].payment]
  PROVE  api' \in [ApiCalls -> ApiCall] /\ CallsOfPayments'
<1>1. NoCall \in ApiCall
  BY DEF NoCall, ApiCall, MaybeOrder
<1>2. /\ api' \in [ApiCalls -> ApiCall]
      /\ api'[c] = X
      /\ \A d \in ApiCalls : d # c => api'[d] = api[d]
  BY <1>1 DEF PayIInv, PayTypeOK
<1>3. \A d \in ApiCalls : d # c => CallOfPayment(api[d])'
  <2> SUFFICES ASSUME NEW d \in ApiCalls, d # c PROVE CallOfPayment(api[d])'
    OBVIOUS
  <2> DEFINE f == api[d]
  <2>1. f \in ApiCall /\ CallOfPayment(f) /\ PayTypeOK
    BY DEF PayIInv, PayTypeOK, CallsOfPayments
  <2>2. f.pc = "enqueue" => orderJob'[f.payment] = orderJob[f.payment]
    OBVIOUS
  <2>3. api'[d] = f
    BY <1>2
  <2> HIDE DEF f
  <2>4. ASSUME NEW g \in ApiCall, g = f PROVE CallOfPayment(g)'
    BY <2>1, <2>2, <2>4, CallKept
  <2> QED BY <2>1, <2>3, <2>4 DEF CallOfPayment
<1>4. CallOfPayment(api[c])'
  BY <1>2 DEF CallOfPayment
<1>5. \A d \in ApiCalls : api[d].pc = "enqueue" => api[d].payment \in RowsOfRide
  BY DEF PayIInv, CallsOfPayments, CallOfPayment
<1>6. \A d, e \in ApiCalls :
        /\ api'[d].pc = "enqueue" /\ api'[e].pc = "enqueue"
        /\ api'[d].payment = api'[e].payment
        => d = e
  <2> SUFFICES ASSUME NEW d \in ApiCalls, NEW e \in ApiCalls,
                      api'[d].pc = "enqueue", api'[e].pc = "enqueue",
                      api'[d].payment = api'[e].payment, d # e
               PROVE  FALSE
    OBVIOUS
  <2>1. CASE d = c
    BY <2>1, <1>2, <1>5
  <2>2. CASE e = c
    BY <2>2, <1>2, <1>5
  <2>3. CASE d # c /\ e # c
    BY <2>3, <1>2 DEF PayIInv, CallsOfPayments
  <2> QED BY <2>1, <2>2, <2>3
<1> QED BY <1>2, <1>3, <1>4, <1>6 DEF CallsOfPayments

LEMMA CallsUntouched ==
  ASSUME PayIInv, UNCHANGED api, MoneyMovesOn, RowsOfRide \subseteq RowsOfRide',
         \A d \in ApiCalls : api[d].pc = "enqueue"
           => orderJob'[api[d].payment] = orderJob[api[d].payment]
  PROVE  api' \in [ApiCalls -> ApiCall] /\ CallsOfPayments'
<1>1. \A d \in ApiCalls : CallOfPayment(api[d])'
  <2> SUFFICES ASSUME NEW d \in ApiCalls PROVE CallOfPayment(api[d])'
    OBVIOUS
  <2>1. api[d] \in ApiCall /\ CallOfPayment(api[d]) /\ PayTypeOK
    BY DEF PayIInv, PayTypeOK, CallsOfPayments
  <2>2. ASSUME NEW g \in ApiCall, g = api[d] PROVE CallOfPayment(g)'
    BY <2>1, <2>2, CallKept
  <2> QED BY <2>1, <2>2 DEF CallOfPayment
<1> QED BY <1>1 DEF PayIInv, PayTypeOK, CallsOfPayments

(* One row is written. *)
LEMMA RowsKept ==
  ASSUME PayIInv, MoneyMovesOn, NEW p \in PaymentIds, NEW R \in PaymentRow,
         pay' = [pay EXCEPT ![p] = R],
         R.order # NoOrder => R.order[1] = p,
         R.txn # NoOrder => R.txn[1] = p,
         R.status = "REFUNDED" => \/ \E o \in Orders : o[1] = p /\ order'[o] = "refunded"
                                  \/ p \in RowsOfRide /\ pay[p].status = "REFUNDED"
  PROVE  /\ pay' \in [PaymentIds -> PaymentRow \cup {NoRow}]
         /\ RowsOfRide' = RowsOfRide \cup {p}
         /\ RowsOfPayments' /\ RefundsAreBacked'
<1>1. /\ pay' \in [PaymentIds -> PaymentRow \cup {NoRow}]
      /\ pay'[p] = R
      /\ \A q \in PaymentIds : q # p => pay'[q] = pay[q]
  BY DEF PayIInv, PayTypeOK
<1>2. RowsOfRide' = RowsOfRide \cup {p}
  BY <1>1, NoRowIsNone DEF RowsOfRide
<1>3. RowsOfPayments'
  <2> SUFFICES ASSUME NEW q \in RowsOfRide'
               PROVE  /\ pay'[q].order # NoOrder => pay'[q].order[1] = q
                      /\ pay'[q].txn # NoOrder => pay'[q].txn[1] = q
    BY DEF RowsOfPayments
  <2>1. CASE q = p
    BY <2>1, <1>1
  <2>2. CASE q # p
    <3>1. q \in RowsOfRide /\ pay'[q] = pay[q]
      BY <2>2, <1>1, <1>2 DEF RowsOfRide
    <3> QED BY <3>1 DEF PayIInv, RowsOfPayments
  <2> QED BY <2>1, <2>2
<1>4. RefundsAreBacked'
  <2> SUFFICES ASSUME NEW q \in RowsOfRide', pay'[q].status = "REFUNDED"
               PROVE  \E o \in Orders : o[1] = q /\ order'[o] = "refunded"
    BY DEF RefundsAreBacked
  <2>1. ASSUME q \in RowsOfRide, pay[q].status = "REFUNDED"
        PROVE  \E o \in Orders : o[1] = q /\ order'[o] = "refunded"
    <3>1. PICK o \in Orders : o[1] = q /\ order[o] = "refunded"
      BY <2>1 DEF PayIInv, RefundsAreBacked
    <3> QED BY <3>1 DEF MoneyMovesOn
  <2>2. CASE q = p
    BY <2>1, <2>2, <1>1
  <2>3. CASE q # p
    <3>1. q \in RowsOfRide /\ pay'[q] = pay[q]
      BY <2>3, <1>1, <1>2 DEF RowsOfRide
    <3> QED BY <3>1, <2>1
  <2> QED BY <2>2, <2>3
<1> QED BY <1>1, <1>2, <1>3, <1>4

LEMMA RowsUntouched ==
  ASSUME PayIInv, UNCHANGED pay, MoneyMovesOn
  PROVE  /\ pay' \in [PaymentIds -> PaymentRow \cup {NoRow}]
         /\ RowsOfRide' = RowsOfRide
         /\ RowsOfPayments' /\ RefundsAreBacked'
<1>1. RowsOfRide' = RowsOfRide
  BY DEF RowsOfRide
<1>2. RefundsAreBacked'
  <2> SUFFICES ASSUME NEW q \in RowsOfRide, pay[q].status = "REFUNDED"
               PROVE  \E o \in Orders : o[1] = q /\ order'[o] = "refunded"
    BY <1>1 DEF RefundsAreBacked
  <2>1. PICK o \in Orders : o[1] = q /\ order[o] = "refunded"
    BY DEF PayIInv, RefundsAreBacked
  <2> QED BY <2>1 DEF MoneyMovesOn
<1> QED BY <1>1, <1>2 DEF PayIInv, PayTypeOK, RowsOfPayments

(* One job moves on and no order another job holds is touched. *)
LEMMA JobsKept ==
  ASSUME PayIInv, RowsOfRide \subseteq RowsOfRide',
         NEW p \in PaymentIds, NEW J \in OrderJob,
         orderJob' = [orderJob EXCEPT ![p] = J], JobOfPayment(p, J)',
         \A o \in Orders : o[1] # p /\ order[o] = "created" => order'[o] = "created"
  PROVE  orderJob' \in [PaymentIds -> OrderJob] /\ JobsOfPayments'
<1>1. /\ orderJob' \in [PaymentIds -> OrderJob]
      /\ orderJob'[p] = J
      /\ \A q \in PaymentIds : q # p => orderJob'[q] = orderJob[q]
  BY DEF PayIInv, PayTypeOK
<1>2. ASSUME NEW q \in PaymentIds, q # p PROVE JobOfPayment(q, orderJob[q])'
  <2>1. JobOfPayment(q, orderJob[q])
    BY DEF PayIInv, JobsOfPayments
  <2> QED BY <2>1, <1>1, <1>2 DEF JobOfPayment
<1>3. JobOfPayment(p, orderJob[p])'
  BY <1>1 DEF JobOfPayment
<1> QED BY <1>1, <1>2, <1>3 DEF JobsOfPayments

LEMMA JobsUntouched ==
  ASSUME PayIInv, RowsOfRide \subseteq RowsOfRide', UNCHANGED orderJob,
         \A o \in Orders : order[o] = "created" => order'[o] = "created"
  PROVE  orderJob' \in [PaymentIds -> OrderJob] /\ JobsOfPayments'
<1>1. ASSUME NEW q \in PaymentIds PROVE JobOfPayment(q, orderJob[q])'
  <2>1. JobOfPayment(q, orderJob[q])
    BY DEF PayIInv, JobsOfPayments
  <2> QED BY <2>1 DEF JobOfPayment
<1> QED BY <1>1 DEF PayIInv, PayTypeOK, JobsOfPayments

-----------------------------------------------------------------------------
(* The calls. *)
LEMMA CallStepKept ==
  ASSUME PayIInv, NEW c \in ApiCalls, CallStep(c)
  PROVE  PayIInv'
<1>0. NoCall \in ApiCall /\ CallOfPayment(NoCall)' /\ NoCall.pc = "idle"
  BY DEF NoCall, ApiCall, MaybeOrder, CallOfPayment
<1>1. CASE InitiateCheck(c)
  <2> DEFINE X == [op |-> "initiate", pc |-> "insert", payment |-> NoPayment, order |-> NoOrder]
  <2>1. MoneyMovesOn /\ UNCHANGED <<webhookPath, pay, ridePaid, orderJob, order, webhooks, payCrashes>>
    BY <1>1 DEF InitiateCheck, MoneyMovesOn
  <2>2. X \in ApiCall /\ CallOfPayment(X)' /\ X.pc # "enqueue" /\ api' = [api EXCEPT ![c] = X]
    BY <1>1 DEF InitiateCheck, Enter, ApiCall, MaybeOrder, CallOfPayment
  <2> HIDE DEF X
  <2>3. RowsOfRide' = RowsOfRide
    BY <2>1, RowsUntouched
  <2>4. CallsOfPayments' /\ api' \in [ApiCalls -> ApiCall]
    BY <2>1, <2>2, <2>3, CallsKept
  <2> QED BY <2>1, <2>3, <2>4, RowsUntouched, JobsUntouched DEF PayIInv, PayTypeOK, Charged
<1>2. CASE InitiateInsert(c)
  <2>1. PICK p \in PaymentIds :
          /\ p \notin RowsOfRide
          /\ pay' = [pay EXCEPT ![p] = [status |-> "PENDING", order |-> NoOrder, txn |-> NoOrder]]
          /\ Enter(c, "initiate", "enqueue", p, NoOrder)
    <3>1. \E fresh \in PaymentIds : fresh \notin RowsOfRide
      BY <1>2 DEF InitiateInsert, RowsOfRide
    <3> QED BY <1>2, <3>1 DEF InitiateInsert
  <2> DEFINE X == [op |-> "initiate", pc |-> "enqueue", payment |-> p, order |-> NoOrder]
  <2> DEFINE R == [status |-> "PENDING", order |-> NoOrder, txn |-> NoOrder]
  <2>2. MoneyMovesOn /\ UNCHANGED <<webhookPath, ridePaid, orderJob, order, webhooks, payCrashes>>
    BY <1>2 DEF InitiateInsert, MoneyMovesOn
  <2>3. R \in PaymentRow /\ R.order = NoOrder /\ R.txn = NoOrder /\ R.status # "REFUNDED"
    BY DEF PaymentRow, PaymentStatuses, MaybeOrder
  <2>4. pay' = [pay EXCEPT ![p] = R]
    BY <2>1
  <2>5. X \in ApiCall /\ X.pc = "enqueue" /\ X.payment = p /\ api' = [api EXCEPT ![c] = X]
    BY <2>1 DEF Enter, ApiCall, MaybeOrder
  <2> HIDE DEF X, R
  <2>6. /\ pay' \in [PaymentIds -> PaymentRow \cup {NoRow}]
        /\ RowsOfRide' = RowsOfRide \cup {p}
        /\ RowsOfPayments' /\ RefundsAreBacked'
    BY <2>2, <2>3, <2>4, RowsKept
  <2>7. CallOfPayment(X)'
    <3>1. orderJob[p].state = "none"
      BY <2>1 DEF PayIInv, JobsOfPayments, JobOfPayment
    <3> QED BY <3>1, <2>2, <2>5, <2>6 DEF CallOfPayment
  <2>8. CallsOfPayments' /\ api' \in [ApiCalls -> ApiCall]
    BY <2>1, <2>2, <2>5, <2>6, <2>7, CallsKept
  <2> QED BY <2>2, <2>6, <2>8, JobsUntouched DEF PayIInv, PayTypeOK, Charged
<1>3. CASE InitiateEnqueue(c)
  <2>0. PICK p \in PaymentIds : p = api[c].payment
    BY <1>3 DEF InitiateEnqueue, At, PayIInv, CallsOfPayments, CallOfPayment, RowsOfRide
  <2>1. /\ MoneyMovesOn /\ UNCHANGED <<webhookPath, pay, ridePaid, order, webhooks, payCrashes>>
        /\ api' = [api EXCEPT ![c] = NoCall] /\ api[c].pc = "enqueue"
        /\ \/ orderJob' = [orderJob EXCEPT ![p].state = "queued"]
           \/ UNCHANGED orderJob
    BY <1>3, <2>0 DEF InitiateEnqueue, MoneyMovesOn, Leave, At
  <2>2. p \in RowsOfRide /\ p \in PaymentIds /\ orderJob[p].state = "none"
    BY <2>0, <2>1 DEF PayIInv, CallsOfPayments, CallOfPayment, RowsOfRide
  <2>3. RowsOfRide' = RowsOfRide
    BY <2>1, RowsUntouched
  <2>4. orderJob' \in [PaymentIds -> OrderJob] /\ JobsOfPayments'
    <3>1. CASE UNCHANGED orderJob
      BY <3>1, <2>1, <2>3, JobsUntouched
    <3>2. CASE orderJob' = [orderJob EXCEPT ![p].state = "queued"]
      <4>0. PICK J : J = [orderJob[p] EXCEPT !.state = "queued"]
        OBVIOUS
      <4>1. orderJob[p] \in OrderJob /\ orderJob[p].attempts = 0
        BY <2>2 DEF PayIInv, PayTypeOK, JobsOfPayments, JobOfPayment
      <4>2. J \in OrderJob /\ J.state = "queued" /\ J.attempts = 0
        BY <4>0, <4>1 DEF OrderJob
      <4>3. orderJob' = [orderJob EXCEPT ![p] = J]
        BY <3>2, <4>0 DEF PayIInv, PayTypeOK
      <4>4. JobOfPayment(p, J)'
        BY <4>2, <2>2, <2>3, PaymentsAssumption DEF JobOfPayment
      <4> QED BY <4>2, <4>3, <4>4, <2>1, <2>2, <2>3, JobsKept
    <3> QED BY <3>1, <3>2, <2>1
  <2>5. \A d \in ApiCalls \ {c} : api[d].pc = "enqueue"
           => orderJob'[api[d].payment] = orderJob[api[d].payment]
    <3> SUFFICES ASSUME NEW d \in ApiCalls \ {c}, api[d].pc = "enqueue"
                 PROVE  orderJob'[api[d].payment] = orderJob[api[d].payment]
      OBVIOUS
    <3>1. api[d].payment # p
      BY <2>0, <2>1 DEF PayIInv, CallsOfPayments
    <3>2. api[d].payment \in PaymentIds
      BY DEF PayIInv, CallsOfPayments, CallOfPayment, RowsOfRide
    <3> QED BY <3>1, <3>2, <2>1 DEF PayIInv, PayTypeOK
  <2>6. CallsOfPayments' /\ api' \in [ApiCalls -> ApiCall]
    BY <1>0, <2>1, <2>3, <2>5, CallsKept
  <2> QED BY <2>1, <2>3, <2>4, <2>6, RowsUntouched DEF PayIInv, PayTypeOK, Charged
<1>4. CASE \E o \in Orders : VerifyRead(c, o)
  <2>1. PICK o \in Orders, p \in RowsOfRide :
          /\ order[o] \in {"charged", "refunded"} /\ pay[p].order = o
          /\ Enter(c, "verify", "commit", p, o)
          /\ UNCHANGED <<webhookPath, pay, ridePaid, orderJob, order, webhooks, payCrashes>>
    BY <1>4 DEF VerifyRead
  <2> DEFINE X == [op |-> "verify", pc |-> "commit", payment |-> p, order |-> o]
  <2>2. X \in ApiCall /\ X.pc = "commit" /\ api' = [api EXCEPT ![c] = X]
    BY <2>1 DEF Enter, ApiCall, MaybeOrder, RowsOfRide
  <2>3. RowsOfRide' = RowsOfRide /\ MoneyMovesOn
    BY <2>1, RowsUntouched DEF MoneyMovesOn
  <2>4. CallOfPayment(X)'
    <3>1. o[1] = p
      BY <2>1, OrderIsNotNull DEF PayIInv, RowsOfPayments
    <3> QED BY <3>1, <2>1, <2>3 DEF CallOfPayment, Charged
  <2> HIDE DEF X
  <2>5. CallsOfPayments' /\ api' \in [ApiCalls -> ApiCall]
    BY <2>1, <2>2, <2>3, <2>4, CallsKept
  <2> QED BY <2>1, <2>3, <2>5, RowsUntouched, JobsUntouched DEF PayIInv, PayTypeOK, Charged
<1>5. CASE VerifyCommit(c)
  <2>0. PICK p \in PaymentIds : p = api[c].payment
    BY <1>5 DEF VerifyCommit, At, PayIInv, CallsOfPayments, CallOfPayment, RowsOfRide
  <2>1. /\ MoneyMovesOn /\ UNCHANGED <<webhookPath, orderJob, order, webhooks, payCrashes>>
        /\ api' = [api EXCEPT ![c] = NoCall] /\ api[c].pc = "commit"
        /\ ridePaid' = "COMPLETED"
    BY <1>5 DEF VerifyCommit, MoneyMovesOn, Leave, At
  <2>2. /\ p \in RowsOfRide /\ p \in PaymentIds
        /\ api[c].order \in Orders /\ api[c].order[1] = p
    BY <2>0, <2>1 DEF PayIInv, CallsOfPayments, CallOfPayment, RowsOfRide, Charged
  <2>3. /\ pay[p] \in PaymentRow /\ pay[p].order \in MaybeOrder
        /\ pay[p].order # NoOrder => pay[p].order[1] = p
    BY <2>2, RowIsTyped DEF PayIInv, RowsOfPayments
  <2>4. PICK R : R = [status |-> "COMPLETED", order |-> pay[p].order, txn |-> api[c].order]
    OBVIOUS
  <2>5. R \in PaymentRow
    BY <2>2, <2>3, <2>4 DEF PaymentRow, PaymentStatuses, MaybeOrder
  <2>6. pay' = [pay EXCEPT ![p] = R]
    <3>1. PICK q : q = [status |-> "COMPLETED", order |-> pay[p].order, txn |-> pay[p].txn]
      OBVIOUS
    <3>2. [pay[p] EXCEPT !.status = "COMPLETED"] = q
      BY <2>3, <3>1 DEF PaymentRow
    <3>3. [q EXCEPT !.txn = api[c].order] = R
      BY <2>4, <3>1
    <3>4. pay' = [pay EXCEPT ![p] = [[pay[p] EXCEPT !.status = "COMPLETED"] EXCEPT !.txn = api[c].order]]
      BY <1>5, <2>0, <2>2 DEF VerifyCommit, PayIInv, PayTypeOK
    <3> QED BY <3>2, <3>3, <3>4
  <2>7. /\ R.order # NoOrder => R.order[1] = p
        /\ R.txn # NoOrder => R.txn[1] = p
        /\ R.status # "REFUNDED"
    BY <2>2, <2>3, <2>4
  <2>8. /\ pay' \in [PaymentIds -> PaymentRow \cup {NoRow}]
        /\ RowsOfRide' = RowsOfRide
        /\ RowsOfPayments' /\ RefundsAreBacked'
    <3>1. /\ pay' \in [PaymentIds -> PaymentRow \cup {NoRow}]
          /\ RowsOfRide' = RowsOfRide \cup {p}
          /\ RowsOfPayments' /\ RefundsAreBacked'
      BY <2>1, <2>2, <2>5, <2>6, <2>7, RowsKept
    <3> QED BY <3>1, <2>2
  <2>9. CallsOfPayments' /\ api' \in [ApiCalls -> ApiCall]
    BY <1>0, <2>1, <2>8, CallsKept
  <2> QED BY <2>1, <2>8, <2>9, JobsUntouched DEF PayIInv, PayTypeOK, Charged
<1>6. CASE RefundRead(c)
  <2>1. PICK p \in RowsOfRide :
          /\ Enter(c, "refund", "gateway", p, pay[p].txn)
          /\ UNCHANGED <<webhookPath, pay, ridePaid, orderJob, order, webhooks, payCrashes>>
    BY <1>6 DEF RefundRead
  <2>2. PICK X : X = [op |-> "refund", pc |-> "gateway", payment |-> p, order |-> pay[p].txn]
    OBVIOUS
  <2>3. X \in ApiCall /\ X.pc = "gateway" /\ api' = [api EXCEPT ![c] = X]
    <3>1. p \in PaymentIds /\ pay[p].txn \in MaybeOrder
      BY RowIsTyped DEF PayIInv
    <3> QED BY <2>1, <2>2, <3>1 DEF Enter, ApiCall
  <2>4. RowsOfRide' = RowsOfRide /\ MoneyMovesOn
    BY <2>1, RowsUntouched DEF MoneyMovesOn
  <2>5. CallOfPayment(X)'
    BY <2>2, <2>4 DEF CallOfPayment, PayIInv, RowsOfPayments
  <2>6. CallsOfPayments' /\ api' \in [ApiCalls -> ApiCall]
    BY <2>1, <2>3, <2>4, <2>5, CallsKept
  <2> QED BY <2>1, <2>4, <2>6, RowsUntouched, JobsUntouched DEF PayIInv, PayTypeOK, Charged
<1>7. CASE RefundGateway(c)
  <2>0. PICK p, o : p = api[c].payment /\ o = api[c].order
    OBVIOUS
  <2>1. /\ api[c].op = "refund" /\ api[c].pc = "gateway"
        /\ UNCHANGED <<webhookPath, pay, ridePaid, orderJob, webhooks, payCrashes>>
    BY <1>7 DEF RefundGateway, At
  <2>2. p \in RowsOfRide /\ p \in PaymentIds /\ (o # NoOrder => o[1] = p)
    BY <2>0, <2>1 DEF PayIInv, CallsOfPayments, CallOfPayment, RowsOfRide
  <2>3. CASE o # NoOrder /\ order[o] = "charged"
    <3> DEFINE X == [op |-> "refund", pc |-> "commit", payment |-> p, order |-> o]
    <3>1. order' = [order EXCEPT ![o] = "refunded"] /\ api' = [api EXCEPT ![c] = X]
      BY <1>7, <2>0, <2>3 DEF RefundGateway, Enter
    <3>2. o \in Orders
      BY <2>0, <2>3 DEF PayIInv, PayTypeOK, ApiCall, MaybeOrder
    <3>3. /\ order' \in [Orders -> OrderStates] /\ order'[o] = "refunded"
          /\ \A q \in Orders : q # o => order'[q] = order[q]
      BY <3>1, <3>2 DEF PayIInv, PayTypeOK, OrderStates
    <3>4. MoneyMovesOn /\ \A q \in Orders : order[q] = "created" => order'[q] = "created"
      BY <3>3, <2>3 DEF MoneyMovesOn
    <3>5. RowsOfRide' = RowsOfRide
      BY <2>1, <3>4, RowsUntouched
    <3>6. X \in ApiCall /\ X.pc = "commit" /\ CallOfPayment(X)'
      BY <2>2, <2>3, <3>2, <3>3, <3>5 DEF ApiCall, MaybeOrder, CallOfPayment, Charged
    <3>7. Charged # {} => Charged' # {}
      BY <3>2, <3>3 DEF Charged
    <3> HIDE DEF X
    <3>8. CallsOfPayments' /\ api' \in [ApiCalls -> ApiCall]
      BY <2>1, <3>1, <3>4, <3>5, <3>6, CallsKept
    <3> QED BY <2>1, <3>3, <3>4, <3>5, <3>7, <3>8, RowsUntouched, JobsUntouched
            DEF PayIInv, PayTypeOK
  <2>4. CASE ~(o # NoOrder /\ order[o] = "charged")
    <3>1. UNCHANGED order /\ api' = [api EXCEPT ![c] = NoCall]
      BY <1>7, <2>0, <2>4 DEF RefundGateway, Leave
    <3>2. MoneyMovesOn
      BY <3>1 DEF MoneyMovesOn
    <3>3. RowsOfRide' = RowsOfRide
      BY <2>1, <3>2, RowsUntouched
    <3>4. CallsOfPayments' /\ api' \in [ApiCalls -> ApiCall]
      BY <1>0, <2>1, <3>1, <3>2, <3>3, CallsKept
    <3> QED BY <2>1, <3>1, <3>2, <3>3, <3>4, RowsUntouched, JobsUntouched
            DEF PayIInv, PayTypeOK, Charged
  <2> QED BY <2>3, <2>4
<1>8. CASE RefundCommit(c)
  <2>0. PICK p \in PaymentIds : p = api[c].payment
    BY <1>8 DEF RefundCommit, At, PayIInv, CallsOfPayments, CallOfPayment, RowsOfRide
  <2>1. /\ MoneyMovesOn /\ UNCHANGED <<webhookPath, orderJob, order, webhooks, payCrashes>>
        /\ api' = [api EXCEPT ![c] = NoCall] /\ api[c].op = "refund" /\ api[c].pc = "commit"
        /\ ridePaid' = "REFUNDED"
    BY <1>8 DEF RefundCommit, MoneyMovesOn, Leave, At
  <2>2. /\ p \in RowsOfRide /\ p \in PaymentIds
        /\ \E o \in Orders : o[1] = p /\ order'[o] = "refunded"
    BY <2>0, <2>1 DEF PayIInv, CallsOfPayments, CallOfPayment, RowsOfRide, Charged
  <2>3. /\ pay[p] \in PaymentRow /\ pay[p].order \in MaybeOrder /\ pay[p].txn \in MaybeOrder
        /\ pay[p].order # NoOrder => pay[p].order[1] = p
        /\ pay[p].txn # NoOrder => pay[p].txn[1] = p
    BY <2>2, RowIsTyped DEF PayIInv, RowsOfPayments
  <2>4. PICK R : R = [status |-> "REFUNDED", order |-> pay[p].order, txn |-> pay[p].txn]
    OBVIOUS
  <2>5. R \in PaymentRow
    BY <2>3, <2>4 DEF PaymentRow, PaymentStatuses
  <2>6. pay' = [pay EXCEPT ![p] = R]
    <3>1. pay' = [pay EXCEPT ![p] = [pay[p] EXCEPT !.status = "REFUNDED"]]
      BY <1>8, <2>0, <2>2 DEF RefundCommit, PayIInv, PayTypeOK
    <3>2. [pay[p] EXCEPT !.status = "REFUNDED"] = R
      BY <2>3, <2>4 DEF PaymentRow
    <3> QED BY <3>1, <3>2
  <2>7. /\ R.order # NoOrder => R.order[1] = p
        /\ R.txn # NoOrder => R.txn[1] = p
    BY <2>3, <2>4
  <2>8. /\ pay' \in [PaymentIds -> PaymentRow \cup {NoRow}]
        /\ RowsOfRide' = RowsOfRide
        /\ RowsOfPayments' /\ RefundsAreBacked'
    <3>1. /\ pay' \in [PaymentIds -> PaymentRow \cup {NoRow}]
          /\ RowsOfRide' = RowsOfRide \cup {p}
          /\ RowsOfPayments' /\ RefundsAreBacked'
      BY <2>1, <2>2, <2>5, <2>6, <2>7, RowsKept
    <3> QED BY <3>1, <2>2
  <2>9. CallsOfPayments' /\ api' \in [ApiCalls -> ApiCall]
    BY <1>0, <2>1, <2>8, CallsKept
  <2> QED BY <2>1, <2>8, <2>9, JobsUntouched DEF PayIInv, PayTypeOK, Charged
<1> QED BY <1>1, <1>2, <1>3, <1>4, <1>5, <1>6, <1>7, <1>8 DEF CallStep

-----------------------------------------------------------------------------
(* The order job.  What WorkerDies and OrderRecord write is the same. *)
Recorded(p) ==
  /\ pay' = [pay EXCEPT ![p].status = "PROCESSING", ![p].order = orderJob[p].order]
  /\ order' = [order EXCEPT ![orderJob[p].order] = "shown"]

LEMMA OrderMoves ==
  ASSUME PayIInv, NEW o \in Orders, NEW state \in OrderStates,
         order[o] # "refunded", order[o] = "charged" => state = "charged",
         order' = [order EXCEPT ![o] = state]
  PROVE  /\ order' \in [Orders -> OrderStates] /\ MoneyMovesOn
         /\ order'[o] = state /\ \A q \in Orders : q # o => order'[q] = order[q]
         /\ Charged \subseteq Charged'
BY DEF PayIInv, PayTypeOK, MoneyMovesOn, Charged

LEMMA RecordKept ==
  ASSUME PayIInv, NEW p \in PaymentIds, orderJob[p].state = "ordered", Recorded(p)
  PROVE  /\ pay' \in [PaymentIds -> PaymentRow \cup {NoRow}]
         /\ order' \in [Orders -> OrderStates] /\ MoneyMovesOn
         /\ RowsOfRide' = RowsOfRide /\ p \in RowsOfRide
         /\ RowsOfPayments' /\ RefundsAreBacked'
         /\ Charged' = Charged
         /\ {o \in Orders : order'[o] = "refunded"} = {o \in Orders : order[o] = "refunded"}
         /\ \A o \in Orders : o[1] # p /\ order[o] = "created" => order'[o] = "created"
<1>1. PICK o \in Orders : o = orderJob[p].order /\ o[1] = p /\ order[o] = "created"
  BY DEF PayIInv, JobsOfPayments, JobOfPayment
<1>2. p \in RowsOfRide
  BY DEF PayIInv, JobsOfPayments, JobOfPayment
<1>3. /\ order' \in [Orders -> OrderStates] /\ MoneyMovesOn
      /\ order'[o] = "shown" /\ \A q \in Orders : q # o => order'[q] = order[q]
  BY <1>1, OrderMoves DEF Recorded, OrderStates
<1>4. PICK R : R = [status |-> "PROCESSING", order |-> o, txn |-> pay[p].txn]
  OBVIOUS
<1>5. pay[p] \in PaymentRow /\ pay[p].txn \in MaybeOrder /\ (pay[p].txn # NoOrder => pay[p].txn[1] = p)
  BY <1>2, RowIsTyped DEF PayIInv, RowsOfPayments
<1>6. R \in PaymentRow
  BY <1>4, <1>5 DEF PaymentRow, PaymentStatuses, MaybeOrder
<1>7. pay' = [pay EXCEPT ![p] = R]
  <2>1. PICK q : q = [status |-> "PROCESSING", order |-> pay[p].order, txn |-> pay[p].txn]
    OBVIOUS
  <2>2. [pay[p] EXCEPT !.status = "PROCESSING"] = q
    BY <1>5, <2>1 DEF PaymentRow
  <2>3. [q EXCEPT !.order = o] = R
    BY <1>4, <2>1
  <2>4. pay' = [pay EXCEPT ![p] = [[pay[p] EXCEPT !.status = "PROCESSING"] EXCEPT !.order = o]]
    BY <1>1, <1>2 DEF Recorded, PayIInv, PayTypeOK
  <2> QED BY <2>2, <2>3, <2>4
<1>8. /\ R.order # NoOrder => R.order[1] = p
      /\ R.txn # NoOrder => R.txn[1] = p
      /\ R.status # "REFUNDED"
  BY <1>1, <1>4, <1>5
<1>9. /\ pay' \in [PaymentIds -> PaymentRow \cup {NoRow}]
      /\ RowsOfRide' = RowsOfRide \cup {p}
      /\ RowsOfPayments' /\ RefundsAreBacked'
  BY <1>3, <1>6, <1>7, <1>8, RowsKept
<1> QED BY <1>1, <1>2, <1>3, <1>9 DEF Charged

LEMMA OrderStepKept ==
  ASSUME PayIInv, NEW p \in PaymentIds, OrderStep(p) \/ WorkerDies(p)
  PROVE  PayIInv'
<1>0. orderJob[p] \in OrderJob /\ orderJob[p].attempts \in 0..OrderAttempts
  BY DEF PayIInv, PayTypeOK, OrderJob
<1>1. \A d \in ApiCalls : api[d].pc = "enqueue" =>
         api[d].payment \in PaymentIds /\ orderJob[api[d].payment].state = "none"
  BY DEF PayIInv, CallsOfPayments, CallOfPayment, RowsOfRide
<1>2. ASSUME NEW J, orderJob' = [orderJob EXCEPT ![p] = J], orderJob[p].state # "none",
             UNCHANGED api, MoneyMovesOn, RowsOfRide' = RowsOfRide
      PROVE  api' \in [ApiCalls -> ApiCall] /\ CallsOfPayments'
  <2>1. \A d \in ApiCalls : api[d].pc = "enqueue"
           => orderJob'[api[d].payment] = orderJob[api[d].payment]
    BY <1>1, <1>2 DEF PayIInv, PayTypeOK
  <2> QED BY <1>2, <2>1, CallsUntouched
<1>3. CASE OrderCreate(p)
  <2>1. PICK o \in Orders :
          /\ o[1] = p /\ order[o] = "none"
          /\ order' = [order EXCEPT ![o] = "created"]
          /\ orderJob' = [orderJob EXCEPT ![p].state = "ordered", ![p].order = o]
    BY <1>3 DEF OrderCreate
  <2>2. orderJob[p].state = "queued" /\ UNCHANGED <<webhookPath, pay, ridePaid, webhooks, api, payCrashes>>
    BY <1>3 DEF OrderCreate
  <2>3. /\ order' \in [Orders -> OrderStates] /\ MoneyMovesOn /\ order'[o] = "created"
        /\ \A q \in Orders : q # o => order'[q] = order[q]
        /\ Charged \subseteq Charged'
    BY <2>1, OrderMoves DEF OrderStates
  <2>4. PICK J : J = [orderJob[p] EXCEPT !.state = "ordered", !.order = o]
    OBVIOUS
  <2>5. /\ J \in OrderJob /\ J.state = "ordered" /\ J.order = o
        /\ J.attempts = orderJob[p].attempts
    BY <1>0, <2>4 DEF OrderJob, MaybeOrder
  <2>6. orderJob' = [orderJob EXCEPT ![p] = J]
    BY <2>1, <2>4 DEF PayIInv, PayTypeOK
  <2>7. RowsOfRide' = RowsOfRide
    BY <2>2, <2>3, RowsUntouched
  <2>8. JobOfPayment(p, J)'
    <3>1. p \in RowsOfRide /\ orderJob[p].attempts < OrderAttempts
      BY <2>2 DEF PayIInv, JobsOfPayments, JobOfPayment
    <3> QED BY <3>1, <2>1, <2>3, <2>5, <2>7 DEF JobOfPayment
  <2>9. orderJob' \in [PaymentIds -> OrderJob] /\ JobsOfPayments'
    BY <2>1, <2>3, <2>5, <2>6, <2>7, <2>8, JobsKept
  <2>10. CallsOfPayments' /\ api' \in [ApiCalls -> ApiCall]
    BY <1>2, <2>2, <2>3, <2>6, <2>7
  <2> QED BY <2>2, <2>3, <2>9, <2>10, RowsUntouched DEF PayIInv, PayTypeOK
<1>4. CASE OrderFails(p)
  <2>1. /\ orderJob[p].state = "queued" /\ MoneyMovesOn
        /\ UNCHANGED <<webhookPath, pay, ridePaid, order, webhooks, api, payCrashes>>
    BY <1>4 DEF OrderFails, MoneyMovesOn
  <2>2. PICK state : state = IF orderJob[p].attempts + 1 < OrderAttempts THEN "queued" ELSE "failed"
    OBVIOUS
  <2>3. PICK J : J = [orderJob[p] EXCEPT !.attempts = orderJob[p].attempts + 1, !.state = state]
    OBVIOUS
  <2>4. p \in RowsOfRide /\ orderJob[p].attempts + 1 \in 0..OrderAttempts
    <3>1. p \in RowsOfRide /\ orderJob[p].attempts < OrderAttempts
      BY <2>1 DEF PayIInv, JobsOfPayments, JobOfPayment
    <3> QED BY <1>0, <3>1, PaymentsAssumption
  <2>5. /\ J \in OrderJob /\ J.state = state /\ J.attempts = orderJob[p].attempts + 1
    BY <1>0, <2>2, <2>3, <2>4 DEF OrderJob
  <2>6. orderJob' = [orderJob EXCEPT ![p] = J]
    BY <1>4, <2>2, <2>3 DEF OrderFails, PayIInv, PayTypeOK
  <2>7. RowsOfRide' = RowsOfRide
    BY <2>1, RowsUntouched
  <2>8. JobOfPayment(p, J)'
    BY <2>2, <2>4, <2>5, <2>7 DEF JobOfPayment
  <2>9. orderJob' \in [PaymentIds -> OrderJob] /\ JobsOfPayments'
    BY <2>1, <2>5, <2>6, <2>7, <2>8, JobsKept
  <2>10. CallsOfPayments' /\ api' \in [ApiCalls -> ApiCall]
    BY <1>2, <2>1, <2>6, <2>7
  <2> QED BY <2>1, <2>7, <2>9, <2>10, RowsUntouched DEF PayIInv, PayTypeOK, Charged
<1>5. CASE OrderRecord(p)
  <2>1. /\ orderJob[p].state = "ordered" /\ Recorded(p)
        /\ orderJob' = [orderJob EXCEPT ![p] = DoneJob]
        /\ UNCHANGED <<webhookPath, ridePaid, webhooks, api, payCrashes>>
    BY <1>5 DEF OrderRecord, Recorded
  <2>2. /\ pay' \in [PaymentIds -> PaymentRow \cup {NoRow}]
        /\ order' \in [Orders -> OrderStates] /\ MoneyMovesOn
        /\ RowsOfRide' = RowsOfRide /\ p \in RowsOfRide
        /\ RowsOfPayments' /\ RefundsAreBacked' /\ Charged' = Charged
        /\ \A o \in Orders : o[1] # p /\ order[o] = "created" => order'[o] = "created"
    BY <2>1, RecordKept
  <2>3. DoneJob \in OrderJob /\ JobOfPayment(p, DoneJob)'
    BY <2>2, PaymentsAssumption DEF DoneJob, OrderJob, MaybeOrder, JobOfPayment
  <2>4. orderJob' \in [PaymentIds -> OrderJob] /\ JobsOfPayments'
    BY <2>1, <2>2, <2>3, JobsKept
  <2>5. CallsOfPayments' /\ api' \in [ApiCalls -> ApiCall]
    BY <1>2, <2>1, <2>2
  <2> QED BY <2>1, <2>2, <2>4, <2>5 DEF PayIInv, PayTypeOK
<1>6. CASE WorkerDies(p)
  <2>1. /\ orderJob[p].state = "ordered"
        /\ Recorded(p) \/ UNCHANGED <<pay, order>>
        /\ orderJob' = [orderJob EXCEPT ![p].state = "queued", ![p].order = NoOrder]
        /\ payCrashes < MaxPayCrashes /\ payCrashes' = payCrashes + 1
        /\ UNCHANGED <<webhookPath, ridePaid, webhooks, api>>
    BY <1>6 DEF WorkerDies, Recorded
  <2>2. /\ pay' \in [PaymentIds -> PaymentRow \cup {NoRow}]
        /\ order' \in [Orders -> OrderStates] /\ MoneyMovesOn
        /\ RowsOfRide' = RowsOfRide
        /\ RowsOfPayments' /\ RefundsAreBacked' /\ Charged' = Charged
        /\ \A o \in Orders : o[1] # p /\ order[o] = "created" => order'[o] = "created"
    <3>1. CASE Recorded(p)
      BY <2>1, <3>1, RecordKept
    <3>2. CASE UNCHANGED <<pay, order>>
      <4>1. MoneyMovesOn /\ order' \in [Orders -> OrderStates] /\ Charged' = Charged
        BY <3>2 DEF MoneyMovesOn, Charged, PayIInv, PayTypeOK
      <4> QED BY <3>2, <4>1, RowsUntouched
    <3> QED BY <2>1, <3>1, <3>2
  <2>3. PICK J : J = [orderJob[p] EXCEPT !.state = "queued", !.order = NoOrder]
    OBVIOUS
  <2>4. /\ J \in OrderJob /\ J.state = "queued" /\ J.attempts = orderJob[p].attempts
    BY <1>0, <2>3 DEF OrderJob, MaybeOrder
  <2>5. orderJob' = [orderJob EXCEPT ![p] = J]
    BY <2>1, <2>3 DEF PayIInv, PayTypeOK
  <2>6. JobOfPayment(p, J)'
    <3>1. p \in RowsOfRide /\ orderJob[p].attempts < OrderAttempts
      BY <2>1 DEF PayIInv, JobsOfPayments, JobOfPayment
    <3> QED BY <3>1, <2>2, <2>4 DEF JobOfPayment
  <2>7. orderJob' \in [PaymentIds -> OrderJob] /\ JobsOfPayments'
    BY <2>2, <2>4, <2>5, <2>6, JobsKept
  <2>8. CallsOfPayments' /\ api' \in [ApiCalls -> ApiCall]
    BY <1>2, <2>1, <2>2, <2>5
  <2>9. payCrashes' \in 0..MaxPayCrashes
    BY <2>1, PaymentsAssumption DEF PayIInv, PayTypeOK
  <2> QED BY <2>1, <2>2, <2>7, <2>8, <2>9 DEF PayIInv, PayTypeOK
<1> QED BY <1>3, <1>4, <1>5, <1>6 DEF OrderStep

-----------------------------------------------------------------------------
(* The gateway, and calls that die. *)
LEMMA CheckoutKept ==
  ASSUME PayIInv, NEW o \in Orders, Checkout(o)
  PROVE  PayIInv'
<1>1. order[o] = "shown" /\ UNCHANGED <<webhookPath, pay, ridePaid, orderJob, api, payCrashes>>
  BY DEF Checkout
<1>2. CASE order' = [order EXCEPT ![o] = "charged"] /\ webhooks' = webhooks \cup {"captured"}
  <2>1. /\ order' \in [Orders -> OrderStates] /\ MoneyMovesOn
        /\ order'[o] = "charged" /\ \A q \in Orders : q # o => order'[q] = order[q]
    BY <1>1, <1>2, OrderMoves DEF OrderStates
  <2>2. o \in Charged' /\ \A q \in Orders : order[q] = "created" => order'[q] = "created"
    BY <1>1, <2>1 DEF Charged
  <2>3. RowsOfRide' = RowsOfRide
    BY <1>1, <2>1, RowsUntouched
  <2>4. webhooks' \subseteq WebhookEvents
    BY <1>2 DEF PayIInv, PayTypeOK, WebhookEvents
  <2> QED BY <1>1, <2>1, <2>2, <2>3, <2>4, RowsUntouched, JobsUntouched, CallsUntouched
          DEF PayIInv, PayTypeOK
<1>3. CASE UNCHANGED order /\ webhooks' = webhooks \cup {"failed"}
  <2>1. MoneyMovesOn
    BY <1>3 DEF MoneyMovesOn
  <2>2. RowsOfRide' = RowsOfRide
    BY <1>1, <2>1, RowsUntouched
  <2>3. /\ webhooks' \subseteq WebhookEvents
        /\ "captured" \in webhooks' => "captured" \in webhooks
    BY <1>3 DEF PayIInv, PayTypeOK, WebhookEvents
  <2> QED BY <1>1, <1>3, <2>1, <2>2, <2>3, RowsUntouched, JobsUntouched, CallsUntouched
          DEF PayIInv, PayTypeOK, Charged
<1> QED BY <1>2, <1>3 DEF Checkout

LEMMA WebhookKept ==
  ASSUME PayIInv, NEW m \in WebhookEvents, NEW p \in RowsOfRide, Webhook(m, p)
  PROVE  PayIInv'
<1>1. /\ MoneyMovesOn /\ UNCHANGED <<webhookPath, orderJob, order, webhooks, api, payCrashes>>
      /\ ridePaid' \in {ridePaid, "COMPLETED"}
  BY DEF Webhook, MoneyMovesOn
<1>2. PICK status \in {"COMPLETED", "FAILED"} : pay' = [pay EXCEPT ![p].status = status]
  BY DEF Webhook
<1>3. PICK R : R = [status |-> status, order |-> pay[p].order, txn |-> pay[p].txn]
  OBVIOUS
<1>4. /\ p \in PaymentIds
      /\ pay[p] \in PaymentRow /\ pay[p].order \in MaybeOrder /\ pay[p].txn \in MaybeOrder
      /\ pay[p].order # NoOrder => pay[p].order[1] = p
      /\ pay[p].txn # NoOrder => pay[p].txn[1] = p
  BY RowIsTyped DEF PayIInv, RowsOfPayments
<1>5. R \in PaymentRow
  BY <1>3, <1>4 DEF PaymentRow, PaymentStatuses
<1>6. pay' = [pay EXCEPT ![p] = R]
  <2>1. pay' = [pay EXCEPT ![p] = [pay[p] EXCEPT !.status = status]]
    BY <1>2, <1>4 DEF PayIInv, PayTypeOK
  <2>2. [pay[p] EXCEPT !.status = status] = R
    BY <1>3, <1>4 DEF PaymentRow
  <2> QED BY <2>1, <2>2
<1>7. /\ R.order # NoOrder => R.order[1] = p
      /\ R.txn # NoOrder => R.txn[1] = p
      /\ R.status # "REFUNDED"
  BY <1>2, <1>3, <1>4
<1>8. /\ pay' \in [PaymentIds -> PaymentRow \cup {NoRow}]
      /\ RowsOfRide' = RowsOfRide \cup {p}
      /\ RowsOfPayments' /\ RefundsAreBacked'
  BY <1>1, <1>4, <1>5, <1>6, <1>7, RowsKept
<1>9. ridePaid' \in {"PENDING", "COMPLETED", "REFUNDED"}
  BY <1>1 DEF PayIInv, PayTypeOK
<1> QED BY <1>1, <1>8, <1>9, JobsUntouched, CallsUntouched DEF PayIInv, PayTypeOK, Charged

LEMMA CallDiesKept ==
  ASSUME PayIInv, NEW c \in ApiCalls, CallDies(c)
  PROVE  PayIInv'
<1>1. /\ MoneyMovesOn /\ api' = [api EXCEPT ![c] = NoCall]
      /\ UNCHANGED <<webhookPath, pay, ridePaid, orderJob, order, webhooks, payCrashes>>
  BY DEF CallDies, Leave, MoneyMovesOn
<1>2. NoCall \in ApiCall /\ CallOfPayment(NoCall)' /\ NoCall.pc = "idle"
  BY DEF NoCall, ApiCall, MaybeOrder, CallOfPayment
<1>3. RowsOfRide' = RowsOfRide
  BY <1>1, RowsUntouched
<1>4. CallsOfPayments' /\ api' \in [ApiCalls -> ApiCall]
  BY <1>1, <1>2, <1>3, CallsKept
<1> QED BY <1>1, <1>3, <1>4, RowsUntouched, JobsUntouched DEF PayIInv, PayTypeOK, Charged

LEMMA StutterKept == ASSUME PayIInv, UNCHANGED payVars PROVE PayIInv'
<1>1. MoneyMovesOn
  BY DEF payVars, MoneyMovesOn
<1>2. RowsOfRide' = RowsOfRide
  BY <1>1, RowsUntouched DEF payVars
<1> QED BY <1>1, <1>2, RowsUntouched, JobsUntouched, CallsUntouched
        DEF payVars, PayIInv, PayTypeOK, Charged

LEMMA PayInductive == PaySpec => []PayIInv
<1>1. PayInit => PayIInv
  BY InitPayIInv
<1>2. PayIInv /\ [PayNext]_payVars => PayIInv'
  <2> SUFFICES ASSUME PayIInv, [PayNext]_payVars PROVE PayIInv'
    OBVIOUS
  <2>1. ASSUME NEW c \in ApiCalls, CallStep(c) \/ CallDies(c) PROVE PayIInv'
    BY <2>1, CallStepKept, CallDiesKept
  <2>2. ASSUME NEW p \in PaymentIds, OrderStep(p) \/ WorkerDies(p) PROVE PayIInv'
    BY <2>2, OrderStepKept
  <2>3. ASSUME NEW o \in Orders, Checkout(o) PROVE PayIInv'
    BY <2>3, CheckoutKept
  <2>4. ASSUME NEW m \in WebhookEvents, WebhookStep(m) \/ Dropped(m) PROVE PayIInv'
    BY <2>4, WebhookKept, StutterKept DEF WebhookStep, Dropped
  <2>5. CASE UNCHANGED payVars
    BY <2>5, StutterKept
  <2> QED BY <2>1, <2>2, <2>3, <2>4, <2>5 DEF PayNext
<1> QED BY <1>1, <1>2, PTL DEF PaySpec

-----------------------------------------------------------------------------
(* Rows, jobs, orders, webhooks and calls keep their shape, and no job     *)
(* counts more attempts than the queue allows (payments.service.ts).       *)
THEOREM PayTypeCorrect == PaySpec => []PayTypeOK
<1>1. PayIInv => PayTypeOK
  BY DEF PayIInv
<1> QED BY <1>1, PayInductive, PTL

(* A row is REFUNDED only if an order of that very payment was refunded at *)
(* the gateway (refund 272-302).                                           *)
THEOREM RefundsCorrect == PaySpec => []RefundsAreBacked
<1>1. PayIInv => RefundsAreBacked
  BY DEF PayIInv
<1> QED BY <1>1, PayInductive, PTL

(* One step of the service is one of the ledger, or none it can see. *)
LEMMA StepOfLedger ==
  ASSUME PayIInv, [PayNext]_payVars
  PROVE  [Ledger!LedgerNext]_<<Charged, {o \in Orders : order[o] = "refunded"}, ridePaid>>
<1> DEFINE Back == {o \in Orders : order[o] = "refunded"}
<1>1. ASSUME UNCHANGED <<order, ridePaid>> PROVE UNCHANGED <<Charged, Back, ridePaid>>
  BY <1>1 DEF Charged
<1>2. ASSUME UNCHANGED order, ridePaid' = "COMPLETED", Charged # {} PROVE Ledger!LedgerNext
  BY <1>2 DEF Charged, Ledger!LedgerNext, Ledger!Show
<1>3. ASSUME NEW p \in PaymentIds, OrderStep(p) \/ WorkerDies(p)
      PROVE  UNCHANGED <<Charged, Back, ridePaid>>
  <2>1. CASE OrderCreate(p)
    <3>1. PICK o \in Orders : order[o] = "none" /\ order' = [order EXCEPT ![o] = "created"]
      BY <2>1 DEF OrderCreate
    <3> QED BY <2>1, <3>1 DEF OrderCreate, Charged, PayIInv, PayTypeOK
  <2>2. CASE OrderFails(p)
    BY <2>2, <1>1 DEF OrderFails
  <2>3. CASE OrderRecord(p) \/ WorkerDies(p)
    <3>1. /\ orderJob[p].state = "ordered" /\ UNCHANGED ridePaid
          /\ Recorded(p) \/ UNCHANGED order
      BY <2>3 DEF OrderRecord, WorkerDies, Recorded
    <3>2. CASE Recorded(p)
      BY <3>1, <3>2, RecordKept
    <3>3. CASE UNCHANGED order
      BY <3>1, <3>3, <1>1
    <3> QED BY <3>1, <3>2, <3>3
  <2> QED BY <1>3, <2>1, <2>2, <2>3 DEF OrderStep
<1>4. ASSUME NEW o \in Orders, Checkout(o)
      PROVE  Ledger!LedgerNext \/ UNCHANGED <<Charged, Back, ridePaid>>
  <2>1. CASE order' = [order EXCEPT ![o] = "charged"]
    <3>1. order[o] = "shown" /\ UNCHANGED ridePaid
      BY <1>4 DEF Checkout
    <3>2. Charged' = Charged \cup {o} /\ o \notin Charged /\ Back' = Back
      BY <2>1, <3>1 DEF Charged, PayIInv, PayTypeOK
    <3>3. Ledger!Charge(o)
      BY <3>1, <3>2 DEF Ledger!Charge
    <3> QED BY <3>3 DEF Ledger!LedgerNext
  <2>2. CASE UNCHANGED order
    BY <1>4, <2>2, <1>1 DEF Checkout
  <2> QED BY <1>4, <2>1, <2>2 DEF Checkout
<1>5. ASSUME NEW m \in WebhookEvents, NEW p \in RowsOfRide, Webhook(m, p)
      PROVE  Ledger!LedgerNext \/ UNCHANGED <<Charged, Back, ridePaid>>
  <2>1. CASE m = "captured"
    BY <1>5, <2>1, <1>2 DEF Webhook, PayIInv
  <2>2. CASE m # "captured"
    BY <1>5, <2>2, <1>1 DEF Webhook
  <2> QED BY <2>1, <2>2
<1>6. ASSUME NEW c \in ApiCalls, CallStep(c) \/ CallDies(c)
      PROVE  Ledger!LedgerNext \/ UNCHANGED <<Charged, Back, ridePaid>>
  <2>1. CASE VerifyCommit(c)
    <3>1. api[c].order \in Charged
      BY <2>1 DEF VerifyCommit, At, PayIInv, CallsOfPayments, CallOfPayment
    <3> QED BY <2>1, <3>1, <1>2 DEF VerifyCommit
  <2>2. CASE RefundGateway(c)
    <3>1. PICK o : o = api[c].order
      OBVIOUS
    <3>2. o \in MaybeOrder /\ UNCHANGED ridePaid
      BY <2>2, <3>1 DEF RefundGateway, PayIInv, PayTypeOK, ApiCall
    <3>3. CASE o # NoOrder /\ order[o] = "charged"
      <4>1. o \in Orders /\ order' = [order EXCEPT ![o] = "refunded"]
        BY <2>2, <3>1, <3>2, <3>3 DEF RefundGateway, MaybeOrder
      <4>2. Charged' = Charged /\ Back' = Back \cup {o} /\ o \in Charged \ Back
        BY <3>3, <4>1 DEF Charged, PayIInv, PayTypeOK
      <4>3. Ledger!GiveBack(o)
        BY <3>2, <4>2 DEF Ledger!GiveBack
      <4> QED BY <4>1, <4>3 DEF Ledger!LedgerNext
    <3>4. CASE ~(o # NoOrder /\ order[o] = "charged")
      BY <2>2, <3>1, <3>4, <1>1 DEF RefundGateway
    <3> QED BY <3>3, <3>4
  <2>3. CASE RefundCommit(c)
    <3>1. api[c].order \in Back
      BY <2>3 DEF RefundCommit, At, PayIInv, CallsOfPayments, CallOfPayment, Charged
    <3>2. Charged' = Charged /\ Back' = Back /\ ridePaid' = "REFUNDED" /\ Back # {}
      BY <2>3, <3>1 DEF RefundCommit, Charged
    <3> QED BY <3>2 DEF Ledger!LedgerNext, Ledger!Show
  <2>4. CASE InitiateCheck(c) \/ InitiateInsert(c) \/ InitiateEnqueue(c) \/ RefundRead(c)
             \/ (\E o \in Orders : VerifyRead(c, o)) \/ CallDies(c)
    BY <2>4, <1>1 DEF InitiateCheck, InitiateInsert, InitiateEnqueue, RefundRead, VerifyRead, CallDies
  <2> QED BY <1>6, <2>1, <2>2, <2>3, <2>4 DEF CallStep
<1>7. CASE UNCHANGED payVars
  BY <1>7, <1>1 DEF payVars
<1> QED BY <1>3, <1>4, <1>5, <1>6, <1>7 DEF PayNext, WebhookStep, Dropped

(* The payment service implements the ledger: the ride shows COMPLETED     *)
(* only after a charge and REFUNDED only after a refund, whatever is       *)
(* reordered, repeated or lost (verifyPayment 162-179, handleWebhook       *)
(* 223-236, refund 288-302).                                               *)
THEOREM LedgerRefinement == PaySpec => LedgerSpec
<1>1. PayInit => Ledger!LedgerInit
  BY DEF PayInit, Ledger!LedgerInit, Charged
<1>2. PayIInv /\ [PayNext]_payVars
      => [Ledger!LedgerNext]_<<Charged, {o \in Orders : order[o] = "refunded"}, ridePaid>>
  BY StepOfLedger
<1> QED BY <1>1, <1>2, PayInductive, PTL DEF PaySpec, LedgerSpec, Ledger!Spec
=============================================================================
