------------------------------- MODULE Ledger -------------------------------
(***************************************************************************)
(* billing-service: how charges reach the double-entry ledger.             *)
(*                                                                         *)
(* The consumers of ride.completed and ride.cancelled open invoices and    *)
(* post T1; a finalizer closes them and posts T2 or T3.  Each posting is   *)
(* one database transaction of several statements, next to the others: an  *)
(* account is created lazily by SELECT, then INSERT, and an INSERT that    *)
(* meets an uncommitted one of another transaction waits for it.  What     *)
(* decides that an invoice is paid or given up is Billing.tla's subject.   *)
(*                                                                         *)
(* Amounts are signed: a credit is positive, a debit negative, as in       *)
(* GetBalance.  There is one currency.                                     *)
(***************************************************************************)
EXTENDS Integers, Sequences, FiniteSets, FiniteSetsExt

CONSTANTS Completed, Cancelled,  \* the messages of the two topics, in order: sequences of charges
          PayerOf, DriverOf,    \* per charge
          Amounts,               \* per charge: the amounts it may carry
          Rates,                 \* commissions in basis points: the one of T1, then after a redeploy
          MaxRedeliveries,       \* bound: messages handled whose offset was not committed
          Summarised,            \* charges whose ride's summary arrives, at any time
          NoCharge

Elements(seq) == {seq[i] : i \in DOMAIN seq}
Charges == Elements(Completed) \cup Elements(Cancelled)

\* A charge is a ride and a type (the unique key of an invoice), so the topics share none;
\* amounts are cents, and a commission is a number of basis points.
ASSUME LedgerAssumption ==
  /\ Completed \in Seq(Charges) /\ Cancelled \in Seq(Charges)
  /\ Elements(Completed) \cap Elements(Cancelled) = {}
  /\ \A ch \in Charges : Amounts[ch] \subseteq Nat
  /\ Rates \in Seq(Nat) /\ Rates # << >>

LedgerPosters == {"completed", "cancelled", "finalizer"}

VARIABLES amount,    \* per charge: the amount in its message
          offset,    \* per topic: messages acknowledged
          tx,        \* per poster: its open transaction, or NoTx
          handled,   \* per topic: the handler has returned nil and the offset is to be committed
          bill,      \* the invoice, committed: "none", "open", "paid" or "uncollectible" per charge
          accounts,  \* committed rows of ledger_account
          books,     \* committed: GetBalance of every account
          opened,    \* committed: the platform's share posted by T1, per charge
          told,      \* committed: the platform's share in payment.completed, -1 before
          actuals,   \* charges whose invoice has the ride's actual distance
          summaries, \* rides' ride.summary.ready not yet delivered
          rate,      \* the index in Rates of the running configuration
          redelivered

ledgerVars == <<amount, offset, tx, handled, bill, accounts, books, opened, told, actuals,
                summaries, rate, redelivered>>

IsFare(ch) == ch \in Elements(Completed)
Queue(topic) == IF topic = "completed" THEN Completed ELSE Cancelled

Receivable(client) == <<"client_receivable", client>>
Payable(driver) == <<"driver_payable", driver>>
Revenue == <<"platform_revenue", NoCharge>>
Clearing == <<"psp_clearing", NoCharge>>
BadDebt == <<"bad_debt", NoCharge>>
AllAccounts == {Receivable(PayerOf[ch]) : ch \in Charges} \cup {Payable(DriverOf[ch]) : ch \in Charges}
                 \cup {Revenue, Clearing, BadDebt}

NoTx == [for |-> NoCharge, kind |-> "none", legs |-> << >>, at |-> 1, absent |-> FALSE,
         created |-> {}]

LedgerInit ==
  /\ amount \in {f \in [Charges -> UNION {Amounts[ch] : ch \in Charges}] :
                   \A ch \in Charges : f[ch] \in Amounts[ch]}
  /\ offset = [t \in {"completed", "cancelled"} |-> 0]
  /\ tx = [p \in LedgerPosters |-> NoTx]
  /\ handled = [t \in {"completed", "cancelled"} |-> FALSE]
  /\ bill = [ch \in Charges |-> "none"]
  /\ accounts = {}
  /\ books = [a \in AllAccounts |-> 0]
  /\ opened = [ch \in Charges |-> -1]
  /\ told = [ch \in Charges |-> -1]
  /\ actuals = {}
  /\ summaries = Summarised
  /\ rate = 1
  /\ redelivered = 0

---------------------------------------------------------------------------
(* The legs *)

\* Truncating division: the remainder goes to the driver.
Fee(n) == (n * Rates[rate]) \div 10000

Leg(account, signed) == [account |-> account, signed |-> signed]

\* Mutant of BuildT1Legs: both shares are rounded down.
BuildT1LegsTruncated(ch) ==
  IF IsFare(ch)
    THEN <<Leg(Receivable(PayerOf[ch]), -amount[ch]), Leg(Revenue, Fee(amount[ch])),
           Leg(Payable(DriverOf[ch]), (amount[ch] * (10000 - Rates[rate])) \div 10000)>>
    ELSE <<Leg(Receivable(PayerOf[ch]), -amount[ch]), Leg(Revenue, amount[ch])>>

\* buildT1Legs: a cancellation fee is the platform's alone.
BuildT1Legs(ch) ==
  IF IsFare(ch)
    THEN <<Leg(Receivable(PayerOf[ch]), -amount[ch]), Leg(Revenue, Fee(amount[ch])),
           Leg(Payable(DriverOf[ch]), amount[ch] - Fee(amount[ch]))>>
    ELSE <<Leg(Receivable(PayerOf[ch]), -amount[ch]), Leg(Revenue, amount[ch])>>

\* Mutant of T2Legs: the directions are swapped.
T2LegsSwapped(ch) == <<Leg(Clearing, amount[ch]), Leg(Receivable(PayerOf[ch]), -amount[ch])>>

T2Legs(ch) == <<Leg(Clearing, -amount[ch]), Leg(Receivable(PayerOf[ch]), amount[ch])>>

T3Legs(ch) == <<Leg(BadDebt, -amount[ch]), Leg(Receivable(PayerOf[ch]), amount[ch])>>

Total(legs, a) == SumFunction([i \in DOMAIN legs |-> IF legs[i].account = a THEN legs[i].signed ELSE 0])

\* Debits equal credits.
ValidateLegs(legs) == SumFunction([i \in DOMAIN legs |-> legs[i].signed]) = 0

---------------------------------------------------------------------------
(* Opening an invoice *)

Next1(topic) == Queue(topic)[offset[topic] + 1]

Fetched(topic) == offset[topic] < Len(Queue(topic)) /\ ~handled[topic] /\ tx[topic] = NoTx

\* The consumer of ride.cancelled passes over a fee of zero.
SkipFree ==
  /\ Fetched("cancelled") /\ amount[Next1("cancelled")] = 0
  /\ handled' = [handled EXCEPT !["cancelled"] = TRUE]
  /\ UNCHANGED <<amount, offset, tx, bill, accounts, books, opened, told, actuals, summaries, rate, redelivered>>

\* Create fails on the unique (ride, type): rolled back, and a success for the consumer.
DuplicateInvoice(topic) ==
  /\ Fetched(topic) /\ bill[Next1(topic)] # "none"
  /\ handled' = [handled EXCEPT ![topic] = TRUE]
  /\ UNCHANGED <<amount, offset, tx, bill, accounts, books, opened, told, actuals, summaries, rate, redelivered>>

\* BEGIN, the invoice and its line, and ValidateLegs, which may send everything back.
BeginInvoice(topic) ==
  LET ch == Next1(topic) IN
  /\ Fetched(topic) /\ bill[ch] = "none"
  /\ topic = "cancelled" => amount[ch] # 0
  /\ ValidateLegs(BuildT1Legs(ch))
  /\ tx' = [tx EXCEPT ![topic] = [NoTx EXCEPT !.for = ch, !.kind = "open", !.legs = BuildT1Legs(ch)]]
  /\ UNCHANGED <<amount, offset, handled, bill, accounts, books, opened, told, actuals, summaries, rate, redelivered>>

\* CommitMessages, or a restart before it: the message comes again.
CommitOffset(topic) ==
  /\ handled[topic]
  /\ handled' = [handled EXCEPT ![topic] = FALSE]
  /\ offset' = [offset EXCEPT ![topic] = @ + 1]
  /\ UNCHANGED <<amount, tx, bill, accounts, books, opened, told, actuals, summaries, rate, redelivered>>

LoseOffset(topic) ==
  /\ handled[topic] /\ redelivered < MaxRedeliveries
  /\ handled' = [handled EXCEPT ![topic] = FALSE]
  /\ redelivered' = redelivered + 1
  /\ UNCHANGED <<amount, offset, tx, bill, accounts, books, opened, told, actuals, summaries, rate>>

---------------------------------------------------------------------------
(* Closing it *)

\* The guarded MarkPaid and MarkUncollectible take the invoice's row lock: one finalizer.
BeginSettle(ch, kind) ==
  /\ tx["finalizer"] = NoTx
  /\ bill[ch] = "open"
  /\ LET legs == IF kind = "paid" THEN T2Legs(ch) ELSE T3Legs(ch) IN
     /\ ValidateLegs(legs)
     /\ tx' = [tx EXCEPT !["finalizer"] = [NoTx EXCEPT !.for = ch, !.kind = kind, !.legs = legs]]
  /\ UNCHANGED <<amount, offset, handled, bill, accounts, books, opened, told, actuals, summaries, rate, redelivered>>

---------------------------------------------------------------------------
(* PostTransaction, statement by statement *)

InTx(p) == tx[p] # NoTx /\ tx[p].at <= Len(tx[p].legs)
NextLeg(p) == tx[p].legs[tx[p].at]

Rollback(p) == tx' = [tx EXCEPT ![p] = NoTx]

\* The entry of a leg; the table's CHECK wants a positive amount and aborts otherwise.
InsertEntry(p, created) ==
  IF NextLeg(p).signed = 0 THEN Rollback(p)
  ELSE tx' = [tx EXCEPT ![p] = [tx[p] EXCEPT !.at = @ + 1, !.absent = FALSE, !.created = created]]

\* getOrCreateAccount: the SELECT sees committed rows and its own.
SelectAccount(p) ==
  /\ InTx(p) /\ ~tx[p].absent
  /\ IF NextLeg(p).account \in accounts \cup tx[p].created
       THEN InsertEntry(p, tx[p].created)
       ELSE tx' = [tx EXCEPT ![p].absent = TRUE]
  /\ UNCHANGED <<amount, offset, handled, bill, accounts, books, opened, told, actuals, summaries, rate, redelivered>>

\* The INSERT waits for another transaction that has inserted the same account.  If that one
\* commits, the unique violation aborts this transaction: the read-back fails with it.
InsertAccount(p) ==
  /\ InTx(p) /\ tx[p].absent
  /\ \A q \in LedgerPosters \ {p} : NextLeg(p).account \notin tx[q].created
  /\ IF NextLeg(p).account \in accounts
       THEN Rollback(p)
       ELSE InsertEntry(p, tx[p].created \cup {NextLeg(p).account})
  /\ UNCHANGED <<amount, offset, handled, bill, accounts, books, opened, told, actuals, summaries, rate, redelivered>>

\* The share payment.completed names: computed again, with the configuration of the day.
SplitOf(ch) == IF IsFare(ch) THEN Fee(amount[ch]) ELSE amount[ch]

\* COMMIT
CommitTx(p) ==
  /\ tx[p] # NoTx /\ tx[p].at > Len(tx[p].legs)
  /\ LET ch == tx[p].for IN
     /\ bill' = [bill EXCEPT ![ch] = tx[p].kind]
     /\ opened' = IF tx[p].kind = "open" THEN [opened EXCEPT ![ch] = Total(tx[p].legs, Revenue)] ELSE opened
     /\ told' = IF tx[p].kind = "paid" THEN [told EXCEPT ![ch] = SplitOf(ch)] ELSE told
  /\ accounts' = accounts \cup tx[p].created
  /\ books' = [a \in AllAccounts |-> books[a] + Total(tx[p].legs, a)]
  /\ handled' = IF p = "finalizer" THEN handled ELSE [handled EXCEPT ![p] = TRUE]
  /\ Rollback(p)
  /\ UNCHANGED <<amount, offset, actuals, summaries, rate, redelivered>>

---------------------------------------------------------------------------
(* Other writers *)

\* An UPDATE by ride; without a row it changes nothing.
RecordActuals(ch) == actuals' = IF bill[ch] # "none" THEN actuals \cup {ch} ELSE actuals

\* RecordRideActuals takes that for a success all the same.
RideSummaryReadyConsumer(ch) ==
  /\ ch \in summaries
  /\ summaries' = summaries \ {ch}
  /\ RecordActuals(ch)
  /\ UNCHANGED <<amount, offset, tx, handled, bill, accounts, books, opened, told, rate, redelivered>>

\* A deployment with another COMMISSION_BPS.
Redeploy ==
  /\ rate < Len(Rates)
  /\ rate' = rate + 1
  /\ \A p \in LedgerPosters : tx[p] = NoTx
  /\ UNCHANGED <<amount, offset, tx, handled, bill, accounts, books, opened, told, actuals, summaries, redelivered>>

ConsumerStep(t) == DuplicateInvoice(t) \/ BeginInvoice(t) \/ CommitOffset(t)
PosterStep(p) == SelectAccount(p) \/ InsertAccount(p) \/ CommitTx(p)

LedgerNext ==
  \/ SkipFree
  \/ \E t \in {"completed", "cancelled"} : ConsumerStep(t) \/ LoseOffset(t)
  \/ \E ch \in Charges, kind \in {"paid", "uncollectible"} : BeginSettle(ch, kind)
  \/ \E p \in LedgerPosters : PosterStep(p)
  \/ \E ch \in Charges : RideSummaryReadyConsumer(ch)
  \/ Redeploy

---------------------------------------------------------------------------
(* Properties *)

SumOf(S) == SumFunctionOnSet(amount, S)
InState(st) == {ch \in Charges : bill[ch] = st}
Invoiced == {ch \in Charges : bill[ch] # "none"}

\* Whatever is committed, in any order and after any redelivery (BILLING_SPEC.md section 4.4):
\* the books add up to zero; a client owes exactly its open invoices; clearing and bad debt
\* hold exactly the closed ones; the platform and the drivers share exactly what was
\* invoiced; and payment.completed repeats the share posted unless the rate has changed.
LedgerBalances ==
  /\ SumFunction(books) = 0
  /\ \A ch \in Charges :
       books[Receivable(PayerOf[ch])]
         = -SumOf({x \in InState("open") : PayerOf[x] = PayerOf[ch]})
  /\ books[Clearing] = -SumOf(InState("paid"))
  /\ books[BadDebt] = -SumOf(InState("uncollectible"))
  /\ books[Revenue] = SumFunctionOnSet(opened, Invoiced)
  /\ \A ch \in Charges :
       books[Payable(DriverOf[ch])]
         = SumFunctionOnSet([x \in Charges |-> amount[x] - opened[x]],
                            {x \in Invoiced : DriverOf[x] = DriverOf[ch]})
  /\ \A ch \in InState("paid") : rate = 1 => told[ch] = opened[ch]

\* A leg of this charge is zero at some rate in use.
ZeroLeg(ch) == IsFare(ch) /\ \E i \in DOMAIN Rates : (amount[ch] * Rates[i]) \div 10000 \in {0, amount[ch]}

\* Every charge that was delivered is invoiced in the end, although transactions that race
\* for an account abort and are retried, unless it has a leg of zero or stands behind one
\* that has: that message is retried for ever (ledger.go:54 accepts what the table refuses).
EventuallyInvoiced ==
  \A t \in {"completed", "cancelled"} : \A n \in 1..Len(Queue(t)) :
    (\A m \in 1..n : ~ZeroLeg(Queue(t)[m])) /\ amount[Queue(t)[n]] # 0
      ~> bill[Queue(t)[n]] # "none"

=============================================================================
