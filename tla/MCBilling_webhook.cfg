SPECIFICATION Spec
CONSTANTS
  i1 = i1  c1 = c1  w1 = w1  w2 = w2
  Invoices = {i1}
  Clients = {c1}
  ClientOf <- MCClientOf
  Workers = {w1}
  MaxAttempts = 2
  Replies = {"succeeded", "processing", "requires_action", "failed"}
  Lossy = TRUE
  Webhooks = TRUE
  MaxCrashes = 1
CHECK_DEADLOCK FALSE
INVARIANTS TypeOK  BooksFollowInvoice PaidByLastAttempt SucceededIsCaptured
PROPERTIES ImplementsSettlement
