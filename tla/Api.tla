-------------------------------- MODULE Api --------------------------------
(***************************************************************************)
(* The HTTP interface of the six services: what each handler checks, in    *)
(* which order, and which status it makes of what its command answers; and *)
(* a caller that sends a request again when the answer is lost or a 5xx.   *)
(*                                                                         *)
(* A request is described by what the handler and the command can tell     *)
(* about it: the identity header, the body, whether its target is the      *)
(* caller's, and the state of the target.  The commands themselves are the *)
(* other modules; here they answer ok or an error and have their effect or *)
(* not.  An id Postgres cannot read and a value a command refuses are both *)
(* `invalid`.                                                              *)
(***************************************************************************)
EXTENDS Integers, Sequences, FiniteSets, FiniteSetsExt

CONSTANT MaxTries      \* how often the caller sends the request

---------------------------------------------------------------------------
(* Handlers.  header: "user" and "client" are required (400 without);      *)
(* "asked": read, and who sends none is a stranger.  body, fields: a body  *)
(* that does not decode, and one without a required field, is a 400.       *)
(* checks: what makes the command fail, in the order it looks, with the    *)
(* error.  errors: the status per error; any other is `fault`.  quiet: the *)
(* states of the target in which the command succeeds and changes nothing. *)

Handler(name, header, body, fields, checks, errors, success) ==
  [name |-> name, header |-> header, body |-> body, fields |-> fields, checks |-> checks,
   errors |-> errors, fault |-> 500, success |-> success, writes |-> TRUE, quiet |-> {}]

Query(name, header, fields, checks, errors) ==
  [Handler(name, header, FALSE, fields, checks, errors, 200) EXCEPT !.writes = FALSE]

BadID == <<{"invalid"}, "error">>
NotFound == <<{"absent"}, "ErrNotFound">>
Forbidden == <<{"stranger"}, "ErrForbidden">>
Over == <<{"unready", "taken", "done"}, "ErrConflict">>
RideErrors == [ErrNotFound |-> 404, ErrForbidden |-> 403, ErrConflict |-> 409]
None404 == [ErrNotFound |-> 404]
NoErrors == [e \in {} |-> 0]

(* ride-service *)

\* An unknown tariff is an error like any other.
RideHandlerCreate == Handler("CreateRide", "client", TRUE, FALSE, <<BadID>>, NoErrors, 200)

\* A body that does not decode is ignored.
RideHandlerCancel ==
  Handler("CancelRide", "client", FALSE, FALSE, <<BadID, NotFound, Forbidden, Over>>, RideErrors, 200)

RideHandlerStart ==
  Handler("StartRide", "none", TRUE, TRUE, <<BadID, NotFound, Forbidden, Over>>, RideErrors, 200)

RideHandlerComplete ==
  Handler("CompleteRide", "none", TRUE, TRUE, <<BadID, NotFound, Forbidden, Over>>, RideErrors, 200)

RideHandlerGetList == Query("GetRideList", "none", TRUE, << >>, NoErrors)

RideHandlerGetByID == Query("GetRideByID", "none", FALSE, <<BadID, NotFound>>, None404)

(* driver-service: whatever else goes wrong in a command is a 400. *)

DriverHandlerCreate ==
  [Handler("CreateDriver", "none", TRUE, FALSE, <<BadID, <<{"taken", "done"}, "unique">>>>, NoErrors, 200)
     EXCEPT !.fault = 400]

DriverHandlerUpdate ==
  [Handler("UpdateDriver", "none", TRUE, FALSE, <<BadID, NotFound>>, None404, 200)
     EXCEPT !.fault = 400, !.quiet = {"done"}]

DriverHandlerGetList == Query("GetDriverList", "none", TRUE, << >>, NoErrors)

DriverHandlerGetByID == Query("GetDriverByID", "none", FALSE, <<BadID, NotFound>>, None404)

ShiftHandlerCreate ==
  [Handler("CreateShift", "none", TRUE, FALSE, <<BadID, <<{"taken", "done"}, "activeShift">>>>, NoErrors, 200)
     EXCEPT !.fault = 400]

\* Ended: EndShift finds no row the second time.  Online: the driver already is.
ShiftHandlerUpdate(status) ==
  [Handler("UpdateShift", "none", TRUE, FALSE,
           IF status = "Ended" THEN <<BadID, <<{"absent", "unready", "done"}, "ErrNotFound">>>>
                               ELSE <<BadID, NotFound>>,
           None404, 200)
     EXCEPT !.fault = 400, !.quiet = IF status = "Ended" THEN {} ELSE {"done"}]

ShiftHandlerGetList == Query("GetShiftList", "none", TRUE, << >>, NoErrors)

ShiftHandlerGetByID == Query("GetShiftByID", "none", FALSE, <<BadID, NotFound>>, None404)

(* billing-service *)

InvoiceHandlerGetByID ==
  Query("GetInvoice", "asked", FALSE, <<BadID, NotFound, Forbidden>>,
        [ErrNotFound |-> 404, ErrForbidden |-> 403])

\* Only the ride's fare is looked for: a ride with a cancellation fee alone has none.
InvoiceHandlerGetByRideID ==
  Query("GetInvoiceByRide", "asked", FALSE,
        <<BadID, <<{"absent", "unready"}, "ErrNotFound">>, Forbidden>>,
        [ErrNotFound |-> 404, ErrForbidden |-> 403])

InvoiceHandlerGetList == Query("ListInvoices", "none", TRUE, << >>, NoErrors)

\* Mutant of PaymentMethodHandlerCreate: AddPaymentMethod does not read the row that is there.
PaymentMethodHandlerCreateOnce ==
  Handler("AddPaymentMethod", "client", TRUE, TRUE,
          <<BadID, <<{"taken", "done"}, "ErrPaymentMethodExists">>>>, NoErrors, 201)

\* A card that is there already is answered with its id.
PaymentMethodHandlerCreate ==
  [Handler("AddPaymentMethod", "client", TRUE, TRUE, <<BadID>>, NoErrors, 201)
     EXCEPT !.quiet = {"taken", "done"}]

PaymentMethodHandlerList == Query("ListPaymentMethods", "client", FALSE, <<BadID>>, NoErrors)

\* unready: the default, while an invoice is open.  A removed one is removed again.
PaymentMethodHandlerDelete ==
  [Handler("RemovePaymentMethod", "client", FALSE, FALSE,
           <<BadID, NotFound, Forbidden, <<{"unready"}, "ErrConflict">>>>, RideErrors, 204)
     EXCEPT !.quiet = {"taken", "done"}]

LedgerHandlerGetBalance == Query("GetLedgerBalance", "none", TRUE, <<BadID>>, NoErrors)

(* location-service *)

\* A user without a driver is a stranger; pings no newer than the position are all rejected.
\* A resent batch passes again when its last ping has a fraction of a second, which the hash
\* has lost, or its position is there no more (see Track).
LocationHandlerIngestBatch(passesAgain) ==
  [Handler("IngestPings", "user", TRUE, TRUE, <<Forbidden>>, [ErrForbidden |-> 403], 200)
     EXCEPT !.quiet = IF passesAgain THEN {"taken"} ELSE {"taken", "done"}]

LocationHandlerNearbyDrivers ==
  Query("FindNearbyDrivers", "none", TRUE, << <<{"invalid"}, "ErrInvalidInput">> >>,
        [ErrInvalidInput |-> 400])

\* absent: no open window; unready: the other party has sent no position.
LocationHandlerGetCounterparty ==
  Query("GetCounterpartyPosition", "user", FALSE,
        << <<{"absent", "stranger"}, "ErrForbidden">>, <<{"unready"}, "ErrNotFound">> >>,
        [ErrForbidden |-> 403, ErrNotFound |-> 404])

LocationHandlerGetRideTrack ==
  Query("GetRideTrack", "user", FALSE, <<BadID, NotFound, Forbidden>>,
        [ErrForbidden |-> 403, ErrNotFound |-> 404])

LocationHandlerListLivePositions == Query("ListLivePositions", "none", FALSE, << >>, NoErrors)

(* matching-service *)

\* unready: cancelled, or not on offer to this driver.  The winner's own retry is ErrRideTaken.
MatchingHandlerAcceptRide ==
  Handler("AcceptRide", "user", TRUE, TRUE,
          <<Forbidden, NotFound, <<{"taken", "done"}, "ErrRideTaken">>, <<{"unready"}, "ErrOfferGone">>>>,
          [ErrForbidden |-> 403, ErrNotFound |-> 404, ErrOfferGone |-> 400, ErrRideTaken |-> 409], 200)

MatchingHandlerGetDriverOffer ==
  Query("GetDriverOffer", "user", FALSE, <<Forbidden, <<{"absent", "unready"}, "ErrNotFound">>>>,
        [ErrForbidden |-> 403, ErrNotFound |-> 404])

(* auth-service *)

\* A password or an address domain.NewUser refuses is an error like any other.
AuthHandlerSignup ==
  Handler("Signup", "none", TRUE, TRUE, <<BadID, <<{"taken", "done"}, "ErrConflict">>>>,
          [ErrConflict |-> 409], 201)

AuthHandlerLogin ==
  Handler("Login", "none", TRUE, FALSE, << <<{"invalid", "absent"}, "ErrInvalidCredentials">> >>,
          [ErrInvalidCredentials |-> 401], 200)

AuthHandlerRefresh ==
  [Handler("Refresh", "none", TRUE, FALSE,
           << <<{"invalid", "absent", "unready"}, "ErrInvalidToken">> >>, [ErrInvalidToken |-> 401], 200)
     EXCEPT !.writes = FALSE]

\* No such token is fine.
AuthHandlerLogout ==
  [Handler("Logout", "user", TRUE, FALSE, <<BadID>>, NoErrors, 200) EXCEPT !.quiet = {"absent", "done"}]

UserHandlerGetList == Query("GetUserList", "none", TRUE, << >>, NoErrors)

UserHandlerMe == Query("GetUserByID", "user", FALSE, <<BadID, NotFound>>, None404)

Handlers ==
  { RideHandlerCreate, RideHandlerCancel, RideHandlerStart, RideHandlerComplete, RideHandlerGetList,
    RideHandlerGetByID, DriverHandlerCreate, DriverHandlerUpdate, DriverHandlerGetList,
    DriverHandlerGetByID, ShiftHandlerCreate, ShiftHandlerUpdate("Online"),
    ShiftHandlerUpdate("Ended"), ShiftHandlerGetList, ShiftHandlerGetByID, InvoiceHandlerGetByID,
    InvoiceHandlerGetByRideID, InvoiceHandlerGetList, PaymentMethodHandlerCreate,
    PaymentMethodHandlerList, PaymentMethodHandlerDelete, LedgerHandlerGetBalance,
    LocationHandlerIngestBatch(TRUE), LocationHandlerIngestBatch(FALSE),
    LocationHandlerNearbyDrivers, LocationHandlerGetCounterparty, LocationHandlerGetRideTrack,
    LocationHandlerListLivePositions, MatchingHandlerAcceptRide, MatchingHandlerGetDriverOffer,
    AuthHandlerSignup, AuthHandlerLogin, AuthHandlerRefresh, AuthHandlerLogout,
    UserHandlerGetList, UserHandlerMe }

\* They may have their effect each time: CreateRide has no request id, a login is a session,
\* a position may not keep its own ping out.
Repeatable == {"CreateRide", "Login", "IngestPings"}

---------------------------------------------------------------------------
VARIABLES handler,   \* the handler asked
          input,      \* header, body ("bad": does not decode; "partial": a field is missing), mine, invalid
          target,    \* "absent", "ready", "unready", "taken" by another's doing, "done" by this caller's
          got,     \* the status the caller has got; 0: none yet, or it was lost
          tries,
          effects,   \* ghost: how often the command has had its effect
          changed,   \* ghost: ... in the last try
          fault      \* ghost: the store or a later step failed in the last try

apiVars == <<handler, input, target, got, tries, effects, changed, fault>>

Mentioned(h) == (UNION {h.checks[i][1] : i \in DOMAIN h.checks}) \union h.quiet

ApiInit ==
  /\ handler \in Handlers
  /\ input \in [header : BOOLEAN, body : {"bad", "partial", "good"}, mine : BOOLEAN, invalid : BOOLEAN]
  /\ target \in {"ready"} \union (Mentioned(handler) \intersect {"absent", "unready", "taken"})
  /\ got = 0
  /\ tries = 0
  /\ effects = 0
  /\ changed = FALSE
  /\ fault = FALSE

\* RequireUserID and RequireClientID; then the body; then its fields.
Rejected ==
  \/ handler.header \in {"user", "client"} /\ ~input.header
  \/ handler.body /\ input.body = "bad"
  \/ handler.fields /\ input.body \in {"bad", "partial"}

Facts ==
  {target} \union (IF input.invalid THEN {"invalid"} ELSE {})
           \union (IF ~input.mine \/ (handler.header = "asked" /\ ~input.header)
                   THEN {"stranger"} ELSE {})

\* The first check that fails.
Outcome ==
  LET failing == {i \in DOMAIN handler.checks : handler.checks[i][1] \intersect Facts # {}} IN
  IF failing = {} THEN "ok" ELSE handler.checks[Min(failing)][2]

Status(err) ==
  IF err = "ok" THEN handler.success
  ELSE IF err \in DOMAIN handler.errors THEN handler.errors[err] ELSE handler.fault

Awaited == got = 0 \/ got >= 500

\* The answer reaches the caller or is lost on the way.
Answer(status) ==
  /\ Awaited
  /\ tries < MaxTries
  /\ tries' = tries + 1
  /\ got' \in {0, status}
  /\ UNCHANGED <<handler, input>>

Reject ==
  /\ Rejected
  /\ Answer(400)
  /\ changed' = FALSE
  /\ fault' = FALSE
  /\ UNCHANGED <<target, effects>>

Effect ==
  /\ handler.writes
  /\ Outcome = "ok"
  /\ target \notin handler.quiet

HasEffect(happens) ==
  /\ changed' = happens
  /\ effects' = IF happens THEN effects + 1 ELSE effects
  /\ target' = IF happens THEN "done" ELSE target

Serve ==
  /\ ~Rejected
  /\ Answer(Status(Outcome))
  /\ HasEffect(Effect)
  /\ fault' = FALSE

\* The store fails, or the handler panics and Recover answers.
Fails ==
  /\ ~Rejected
  /\ Answer(Status("error"))
  /\ HasEffect(FALSE)
  /\ fault' = TRUE

\* The effect is stored and the commit's answer is lost, or a step after it fails.
FailsLate ==
  /\ ~Rejected
  /\ Effect
  /\ Answer(Status("error"))
  /\ HasEffect(TRUE)
  /\ fault' = TRUE

\* Login logs that the refresh token could not be stored and answers all the same.
LoginUnstored ==
  /\ handler.name = "Login"
  /\ ~Rejected
  /\ Outcome = "ok"
  /\ Answer(handler.success)
  /\ HasEffect(FALSE)
  /\ fault' = TRUE

\* Somebody else gets at the target between two tries.
Meanwhile ==
  /\ handler.writes
  /\ Awaited
  /\ target = "ready"
  /\ target' \in Mentioned(handler) \intersect {"unready", "taken"}
  /\ UNCHANGED <<handler, input, got, tries, effects, changed, fault>>

ApiNext == Reject \/ Serve \/ Fails \/ FailsLate \/ LoginUnstored \/ Meanwhile

---------------------------------------------------------------------------
\* What an answer tells the caller, retries included.  A 2xx: the command has had its effect, or
\* found nothing to do, and only for whom the target belongs to (Login may not have stored its
\* session).  A 4xx: this try changed nothing, and an earlier one did only if its answer was
\* lost or a 5xx, which no command that takes a repetition for a success makes look like a
\* failure; driver-service is the exception, whose 400 may hide a change.  A 5xx: something
\* failed, or a value the handler does not check.  However often it is sent, only CreateRide,
\* Login and IngestPings have their effect twice.
AnswersHonest ==
  /\ effects > 1 => handler.name \in Repeatable
  /\ got \in 200..299 =>
       /\ ~Rejected
       /\ "stranger" \in Mentioned(handler) => "stranger" \notin Facts
       /\ handler.writes /\ handler.name # "Login" => target # "ready"
  /\ got \in 400..499 =>
       /\ changed => handler.fault = 400
       /\ effects > 0 => \/ handler.fault = 400
                         \/ tries > 1 /\ target = "done" /\ "done" \notin handler.quiet
       /\ fault => handler.fault = 400
  /\ got >= 500 => fault \/ input.invalid
=============================================================================
