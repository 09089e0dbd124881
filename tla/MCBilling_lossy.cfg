SPECIFICATION Spec
CONSTANTS
  i1 = i1  c1 = c1  w1 = w1  w2 = w2
  Invoices = {i1}
  Clients = {c1}
  ClientOf <- MCClientOf
  Workers = {w1}
  MaxAttempts = 2
  Replies = {"succeeded", "failed"}
  Lossy = TRUE
  Webhooks = FALSE
  MaxCrashes = 0
CHECK_DEADLOCK FALSE
INVARIANTS NoDoubleCharge
