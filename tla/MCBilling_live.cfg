SPECIFICATION LiveSpec
CONSTANTS
  i1 = i1  c1 = c1  w1 = w1  w2 = w2
  Invoices = {i1}
  Clients = {c1}
  ClientOf <- MCClientOf
  Workers = {w1, w2}
  MaxAttempts = 2
  Replies = {"succeeded", "failed"}
  Lossy = FALSE
  Webhooks = FALSE
  MaxCrashes = 2
  f1 = f1  f2 = f2  g1 = g1  kl = kl  dl = dl
  Completed <- MCCompleted
  Cancelled <- MCCancelled
  PayerOf <- MCPayerOf
  DriverOf <- MCDriverOf
  Amounts <- MCAmounts
  Rates <- MCRates
  MaxRedeliveries = 1
  Summarised = {f2}
  NoCharge = NoCharge
CHECK_DEADLOCK FALSE
INVARIANTS OneAttemptInFlight NoDoubleCharge LedgerBalances
PROPERTIES EventuallyClosed EventuallyInvoiced
