------------------------------- MODULE Wallet -------------------------------
(***************************************************************************)
(* A client's payment methods in billing-service: adding and removing      *)
(* cards from requests that run at the same time, against the table's two  *)
(* partial unique indexes (migration 0006): one active row per card, one   *)
(* active default per client.                                              *)
(*                                                                         *)
(* Postgres runs READ COMMITTED.  ClearDefault is two steps: the UPDATE    *)
(* takes its snapshot, then locks the row it found, after waiting for      *)
(* whoever holds it, and skips it when it no longer matches.  An INSERT    *)
(* and its COMMIT are one step: another INSERT that meets the uncommitted  *)
(* row waits for that commit.  Expiry dates, brands and the provider's     *)
(* customer id (a function of the client id) are left out.                 *)
(***************************************************************************)
EXTENDS Integers, Sequences, FiniteSets

CONSTANTS WalletClients,
          Strangers,      \* clients who have no card and add none
          Cards,          \* provider payment method ids
          Requests,       \* requests in flight at the same time
          MaxCalls,       \* bound: calls in a behaviour
          MaxOpenings     \* bound: times an invoice becomes open

VARIABLES methods,     \* billing.payment_method, a sequence of rows: the id is the place; ghosts:
                       \* `wasDefault` once, `lost`: removed while the default
          customers,   \* billing.customer: the clients with a row
          owing,       \* the clients with an open invoice
          call,        \* per request: its last call and how far it has come
          calls, openings

walletVars == <<methods, customers, owing, call, calls, openings>>

\* `open`: an invoice of the client has become open since the call began (ghost); `rows` and
\* `removals`: what the table had seen when the call began (ghost); `seen`: the default row the
\* UPDATE's snapshot holds; `holds`: the row it has changed and not committed; `took`: the call
\* removed a default while an invoice was open (ghost).
NoCall == [step |-> "done", kind |-> "none", client |-> "none", card |-> "none",
           setDefault |-> FALSE, id |-> 0, seen |-> 0, holds |-> 0, answer |-> "none",
           open |-> FALSE, rows |-> 0, removals |-> 0, took |-> FALSE]

WalletInit ==
  /\ methods = << >>
  /\ customers = {}
  /\ owing = {}
  /\ call = [q \in Requests |-> NoCall]
  /\ calls = 0
  /\ openings = 0

Active(r) == methods[r].status = "active"
\* GetDefaultActive: at most one row, by the index; 0 when there is none.
DefaultOf(k) ==
  LET rows == {r \in DOMAIN methods : methods[r].client = k /\ methods[r].isDefault /\ Active(r)}
  IN IF rows = {} THEN 0 ELSE CHOOSE r \in rows : TRUE
Removals == Cardinality({r \in DOMAIN methods : ~Active(r)})

At(q, step) == call[q].step = step
Moves(q, step) == call' = [call EXCEPT ![q].step = step]
Answers(q, answer, id) ==
  call' = [call EXCEPT ![q].step = "done", ![q].answer = answer, ![q].id = id,
                       ![q].seen = 0, ![q].holds = 0]

---------------------------------------------------------------------------
(* AddPaymentMethod *)

Begins(q, kind, k, card, setDefault, id, step) ==
  /\ At(q, "done")
  /\ calls < MaxCalls
  /\ calls' = calls + 1
  /\ call' = [call EXCEPT ![q] = [NoCall EXCEPT
       !.step = step, !.kind = kind, !.client = k, !.card = card, !.setDefault = setDefault,
       !.id = id, !.rows = Len(methods), !.removals = Removals]]

\* ensureCustomer looks for the customer row first; the provider is asked only without one.
GetCustomer(q, k, card, setDefault) ==
  /\ Begins(q, "add", k, card, setDefault, 0, IF k \in customers THEN "attach" ELSE "customer")
  /\ UNCHANGED <<methods, customers, owing, openings>>

\* EnsureCustomer at the provider, then the INSERT; who loses the race for the row reads it.
CreateCustomer(q) ==
  /\ At(q, "customer")
  /\ customers' = customers \union {call[q].client}
  /\ Moves(q, "attach")
  /\ UNCHANGED <<methods, owing, calls, openings>>

\* AttachPaymentMethod at the provider; then the transaction begins.
AttachPaymentMethod(q) ==
  /\ At(q, "attach")
  /\ Moves(q, IF call[q].setDefault THEN "clear" ELSE "insert")
  /\ UNCHANGED <<methods, customers, owing, calls, openings>>

\* EnsureCustomer or AttachPaymentMethod fails: nothing has been written but the customer.
VaultFails(q) ==
  /\ call[q].step \in {"customer", "attach"}
  /\ Answers(q, "provider error", 0)
  /\ UNCHANGED <<methods, customers, owing, calls, openings>>

ClearDefaultReads(q) ==
  /\ At(q, "clear")
  /\ call' = [call EXCEPT ![q].step = "lock", ![q].seen = DefaultOf(call[q].client)]
  /\ UNCHANGED <<methods, customers, owing, calls, openings>>

Locked(r) == \E p \in Requests : r # 0 /\ call[p].holds = r

\* Mutant of ClearDefault: the other defaults stay.
ClearDefaultForgets(q) ==
  /\ At(q, "lock")
  /\ Moves(q, "insert")
  /\ UNCHANGED <<methods, customers, owing, calls, openings>>

ClearDefault(q) ==
  /\ At(q, "lock")
  /\ ~Locked(call[q].seen)
  /\ call' = [call EXCEPT
       ![q].step = "insert",
       ![q].holds = IF @ = 0 /\ call[q].seen # 0 /\ call[q].seen = DefaultOf(call[q].client)
                    THEN call[q].seen ELSE 0]
  /\ UNCHANGED <<methods, customers, owing, calls, openings>>

\* The indexes, for a row of the call: a row it has itself cleared does not count.
DedupeViolated(q) ==
  \E r \in DOMAIN methods : Active(r) /\ methods[r].client = call[q].client /\ methods[r].card = call[q].card
OneDefaultViolated(q) ==
  /\ call[q].setDefault
  /\ DefaultOf(call[q].client) \notin {0, call[q].holds}

\* Create, and the commit: the cleared row and the new one appear together.
InsertMethod(q) ==
  /\ At(q, "insert")
  /\ ~DedupeViolated(q)
  /\ ~OneDefaultViolated(q)
  /\ methods' = Append([r \in DOMAIN methods |->
                          IF r = call[q].holds THEN [methods[r] EXCEPT !.isDefault = FALSE] ELSE methods[r]],
                       [client |-> call[q].client, card |-> call[q].card,
                        isDefault |-> call[q].setDefault, status |-> "active",
                        wasDefault |-> call[q].setDefault, lost |-> FALSE])
  /\ Answers(q, "ok", Len(methods) + 1)
  /\ UNCHANGED <<customers, owing, calls, openings>>

\* Either index: ErrPaymentMethodExists, and the rollback gives the lock back.
InsertRefused(q) ==
  /\ At(q, "insert")
  /\ DedupeViolated(q) \/ OneDefaultViolated(q)
  /\ call' = [call EXCEPT ![q].step = "reread", ![q].holds = 0, ![q].seen = 0]
  /\ UNCHANGED <<methods, customers, owing, calls, openings>>

\* GetActiveByProviderID: the row of the card, which may not be what was in the way, and is
\* not made the default even when the call asked for it.
GetActiveByProviderID(q) ==
  LET rows == {r \in DOMAIN methods : Active(r) /\ methods[r].client = call[q].client
                                                /\ methods[r].card = call[q].card}
  IN /\ At(q, "reread")
     /\ IF rows = {} THEN Answers(q, "NotFound", 0)
        ELSE Answers(q, "ok", CHOOSE r \in rows : TRUE)
     /\ UNCHANGED <<methods, customers, owing, calls, openings>>

---------------------------------------------------------------------------
(* RemovePaymentMethod, in one transaction *)

\* GetByID, whatever the status; the row belongs to the caller or the call is refused.
GetMethod(q, k, r) ==
  /\ methods[r].client = k
  /\ Begins(q, "remove", k, methods[r].card, FALSE, r,
            IF methods[r].isDefault THEN "count" ELSE "remove")
  /\ UNCHANGED <<methods, customers, owing, openings>>

NotTheOwner(q, k, r) ==
  /\ methods[r].client # k
  /\ At(q, "done")
  /\ calls < MaxCalls
  /\ calls' = calls + 1
  /\ call' = [call EXCEPT ![q] = [NoCall EXCEPT !.kind = "remove", !.client = k, !.id = r,
                                                !.answer = "Forbidden"]]
  /\ UNCHANGED <<methods, customers, owing, openings>>

\* CountOpenByClientID
CountOpen(q) ==
  /\ At(q, "count")
  /\ IF call[q].client \in owing THEN Answers(q, "Conflict", call[q].id) ELSE Moves(q, "remove")
  /\ UNCHANGED <<methods, customers, owing, calls, openings>>

\* MarkRemoved and the commit; it waits for a ClearDefault that holds the row.
MarkRemoved(q) ==
  LET r == call[q].id
      default == Active(r) /\ methods[r].isDefault IN
  /\ At(q, "remove")
  /\ ~Locked(r)
  /\ methods' = [methods EXCEPT ![r].status = "removed", ![r].isDefault = FALSE,
                                ![r].lost = @ \/ default]
  /\ call' = [call EXCEPT ![q].step = "done", ![q].answer = "ok",
                          ![q].took = default /\ call[q].client \in owing]
  /\ UNCHANGED <<customers, owing, calls, openings>>

---------------------------------------------------------------------------
(* The rest of billing-service, as far as a wallet sees it *)

InvoiceOpens(k) ==
  /\ k \notin owing
  /\ openings < MaxOpenings
  /\ openings' = openings + 1
  /\ owing' = owing \union {k}
  /\ call' = [q \in Requests |-> [call[q] EXCEPT !.open = @ \/ (call[q].client = k /\ ~At(q, "done"))]]
  /\ UNCHANGED <<methods, customers, calls>>

InvoiceCloses(k) ==
  /\ k \in owing
  /\ owing' = owing \ {k}
  /\ UNCHANGED <<methods, customers, call, calls, openings>>

WalletNext ==
  \/ \E q \in Requests, k \in WalletClients :
       \/ \E card \in Cards, setDefault \in BOOLEAN : GetCustomer(q, k, card, setDefault)
       \/ \E r \in DOMAIN methods : GetMethod(q, k, r)
  \/ \E q \in Requests, k \in Strangers, r \in DOMAIN methods : NotTheOwner(q, k, r)
  \/ \E q \in Requests :
       \/ CreateCustomer(q)
       \/ AttachPaymentMethod(q)
       \/ VaultFails(q)
       \/ ClearDefaultReads(q)
       \/ ClearDefault(q)
       \/ InsertMethod(q)
       \/ InsertRefused(q)
       \/ GetActiveByProviderID(q)
       \/ CountOpen(q)
       \/ MarkRemoved(q)
  \/ \E k \in WalletClients : InvoiceOpens(k) \/ InvoiceCloses(k)

---------------------------------------------------------------------------
OneDefault ==
  \A r, s \in DOMAIN methods :
    r # s /\ Active(r) /\ Active(s) /\ methods[r].client = methods[s].client =>
      methods[r].card # methods[s].card /\ ~(methods[r].isDefault /\ methods[s].isDefault)

\* A client whose card ever was the default has a default until that default is removed: an
\* add that fails half-way costs none.
DefaultKept ==
  \A r \in DOMAIN methods :
    methods[r].wasDefault =>
      \/ DefaultOf(methods[r].client) # 0
      \/ \E s \in DOMAIN methods : methods[s].client = methods[r].client /\ methods[s].lost

\* An add the provider accepts is answered with the card's row.  It fails only when another
\* call changed the wallet while it ran: a card sent by one caller at a time is never refused.
FailureHasACause ==
  \A q \in Requests : call[q].kind = "add" /\ At(q, "done") =>
    /\ call[q].answer = "ok" => /\ methods[call[q].id].card = call[q].card
                                /\ methods[call[q].id].client = call[q].client
    /\ call[q].answer = "NotFound" => Len(methods) > call[q].rows \/ Removals > call[q].removals

\* What AddPaymentMethod and RemovePaymentMethod promise together, whatever runs beside them:
\* one active row per card and one default per client; a default is lost only to its removal;
\* a lone add is never refused; a default goes while the client owes an invoice only if the
\* invoice became open after the call had looked (RemovePaymentMethod answers 409 otherwise);
\* and a card is removed only by the client it belongs to.
WalletSound ==
  /\ OneDefault
  /\ DefaultKept
  /\ FailureHasACause
  /\ \A q \in Requests :
       /\ call[q].took => call[q].open
       /\ call[q].kind = "remove" /\ call[q].answer = "ok" => methods[call[q].id].client = call[q].client
=============================================================================
