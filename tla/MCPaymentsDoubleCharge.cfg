SPECIFICATION PaySpec
CONSTANTS
  PaymentIds = {p1, p2}
  NoPayment = NoPayment
  NoOrder = NoOrder
  ApiCalls = {c1, c2}
  OrderAttempts = 2
  PayFaults = {}
  WebhookPaths = {"named"}
  MaxPayCrashes = 0
INVARIANT NoDoubleCharge
\* Nobody has to call anything.
CHECK_DEADLOCK FALSE
