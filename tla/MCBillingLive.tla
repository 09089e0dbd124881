--------------------------- MODULE MCBillingLive ---------------------------
(***************************************************************************)
(* Small instances of the two halves of billing-service that must get      *)
(* somewhere: the collection of an invoice (Billing) and the posting of    *)
(* charges to the ledger (Ledger).  They meet only in the rows of an       *)
(* invoice, whose guarded updates both respect, so one of the two runs in  *)
(* a behaviour and the other stands still: Billing with no invoice,        *)
(* Ledger with messages nothing is promised of.                            *)
(***************************************************************************)
EXTENDS MCBilling, Ledger

CONSTANTS f1, f2, g1, kl, dl

VARIABLE machine

MCCompleted == <<f1, f2>>
MCCancelled == <<g1>>
MCCharges == {f1, f2, g1}
MCPayerOf == [ch \in MCCharges |-> kl]
MCDriverOf == [ch \in MCCharges |-> dl]
\* 11 at 20% rounds, 1 at 20% has a leg of zero; a cancellation is free or costs 1.
MCAmounts == [ch \in MCCharges |-> IF ch = f1 THEN {1, 11} ELSE IF ch = f2 THEN {11} ELSE {0, 1}]
MCRates == <<2000, 1000>>

LiveInit ==
  /\ machine \in {"collection", "ledger"}
  /\ Init
  /\ LedgerInit
  /\ machine = "collection" => \A ch \in MCCharges : amount[ch] = Min(MCAmounts[ch])

LiveNext ==
  /\ UNCHANGED machine
  /\ \/ machine = "collection" /\ Next /\ UNCHANGED ledgerVars
     \/ machine = "ledger" /\ LedgerNext /\ UNCHANGED vars

\* The consumers' loops retry for ever (runner.go) and Postgres runs what it is sent; a
\* waiting INSERT is woken when the transaction it waits for ends, before that one's retry
\* after the backoff, hence SF.  The finalizer may never be called.
LedgerFairness ==
  /\ WF_ledgerVars(machine = "ledger" /\ SkipFree)
  /\ \A t \in {"completed", "cancelled"} : WF_ledgerVars(machine = "ledger" /\ ConsumerStep(t))
  /\ \A p \in LedgerPosters : SF_ledgerVars(machine = "ledger" /\ PosterStep(p))

\* Without an invoice Billing has no step to take, so its own fairness asks nothing.
LiveSpec ==
  /\ LiveInit
  /\ [][LiveNext]_<<machine, vars, ledgerVars>>
  /\ Fairness
  /\ LedgerFairness
=============================================================================
