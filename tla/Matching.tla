------------------------------ MODULE Matching ------------------------------
(***************************************************************************)
(* matching-service: offers of a requested ride are broadcast to online    *)
(* drivers, one of them claims it, a retry worker broadcasts again when    *)
(* the offers lapse, and a cancellation takes everything back.             *)
(*                                                                         *)
(* All state is in Redis and there are no transactions: one command is one *)
(* step, and HTTP requests, two Kafka consumers and the retry workers of   *)
(* several instances interleave between any two of them.  Consecutive      *)
(* reads of a handler are one step.  A handler that fails and one that     *)
(* crashes stop at the same places and leave the same keys behind.         *)
(*                                                                         *)
(* accepted_by and offered_drivers live for an hour, which no handler,     *)
(* offer or retry round of a ride does: their expiry is left out.          *)
(***************************************************************************)
EXTENDS Integers, FiniteSets

CONSTANTS
  Rides,
  Drivers,
  None,           \* no ride, no driver
  Sweepers,       \* MatchRetryWorkers, one per instance
  Consumer,       \* the ride.requested consumer
  BroadcastSize,
  MaxAttempts,
  MaxFaults       \* bound on crashes, failed commands and duplicated messages

ASSUME MatchingAssumption ==
  /\ None \notin Rides \cup Drivers
  /\ Consumer \notin Sweepers
  /\ BroadcastSize \in Nat \ {0} /\ MaxAttempts \in Nat \ {0} /\ MaxFaults \in Nat

VARIABLES
  status,     \* ride:{id} status; "none" when the hash does not exist
  driver,     \* ride:{id} driverId
  claim,      \* ride:{id}:accepted_by
  cancelled,  \* rides with ride:{id}:cancelled set
  pending,    \* pending_ride:{id}: the attempt (0: no key), and whether its deadline passed
  offered,    \* ride:{id}:offered_drivers
  offer,      \* driver:{id}:current_offer
  online,     \* drivers:online
  requested,  \* rides ride-service has published ride.requested for
  withdrawn,  \* rides ride-service has published ride.cancelled for
  requests,   \* ride.requested messages whose offset is not committed
  cancels,    \* ride.cancelled messages whose offset is not committed
  round,      \* BroadcastOffers in flight, per caller and ride
  accepting,  \* AcceptRide in flight: its next command, per ride and driver
  cancelling, \* CancelRide in flight: its next command, per ride
  announced,  \* drivers named in a published ride.accepted, per ride
  gaveUp,     \* rides a ride.matching_failed was published for
  made,       \* history: the attempts that were broadcast and armed, per ride
  abandoned,  \* history: the rides MarkFailed has run for
  faults

rideVars  == <<status, driver, claim, cancelled, pending, offered>>
driverVars == <<offer, online>>
topicVars == <<requested, withdrawn, requests, cancels, announced, gaveUp>>
history == <<made, abandoned>>
vars == <<rideVars, driverVars, topicVars, round, accepting, cancelling, history, faults>>

Broadcasters == Sweepers \cup {Consumer}

RideStatus == {"none", "searching", "matched", "failed", "cancelled"}
RoundPc    == {"idle", "listed", "read", "offer", "fail", "announce", "drop"}
AcceptPc   == {"idle", "claim", "match", "unpend", "clear", "offline", "publish"}
CancelPc   == {"idle", "unpend", "look", "restore", "mark"}
Round      == [pc : RoundPc, attempt : 0..(MaxAttempts + 1), targets : SUBSET Drivers,
               failed : BOOLEAN]

TypeOK ==
  /\ status \in [Rides -> RideStatus]
  /\ driver \in [Rides -> Drivers \cup {None}]
  /\ claim \in [Rides -> Drivers \cup {None}]
  /\ cancelled \subseteq Rides
  /\ pending \in [Rides -> [attempt : 0..MaxAttempts, due : BOOLEAN]]
  /\ offered \in [Rides -> SUBSET Drivers]
  /\ offer \in [Drivers -> Rides \cup {None}]
  /\ online \subseteq Drivers
  /\ requested \subseteq Rides /\ withdrawn \subseteq Rides
  /\ requests \subseteq Rides /\ cancels \subseteq Rides
  /\ round \in [Broadcasters -> [Rides -> Round]]
  /\ accepting \in [Rides -> [Drivers -> AcceptPc]]
  /\ cancelling \in [Rides -> CancelPc]
  /\ announced \in [Rides -> SUBSET Drivers]
  /\ gaveUp \subseteq Rides
  /\ made \in [Rides -> SUBSET (1..MaxAttempts)] /\ abandoned \subseteq Rides
  /\ faults \in Nat

NoPending == [attempt |-> 0, due |-> FALSE]
Idle == [pc |-> "idle", attempt |-> 0, targets |-> {}, failed |-> FALSE]

Init ==
  /\ status = [r \in Rides |-> "none"]
  /\ driver = [r \in Rides |-> None]
  /\ claim = [r \in Rides |-> None]
  /\ cancelled = {}
  /\ pending = [r \in Rides |-> NoPending]
  /\ offered = [r \in Rides |-> {}]
  /\ offer = [d \in Drivers |-> None]
  /\ online = {}
  /\ requested = {} /\ withdrawn = {} /\ requests = {} /\ cancels = {}
  /\ round = [k \in Broadcasters |-> [r \in Rides |-> Idle]]
  /\ accepting = [r \in Rides |-> [d \in Drivers |-> "idle"]]
  /\ cancelling = [r \in Rides |-> "idle"]
  /\ announced = [r \in Rides |-> {}]
  /\ gaveUp = {}
  /\ made = [r \in Rides |-> {}] /\ abandoned = {}
  /\ faults = 0

Fault == faults < MaxFaults /\ faults' = faults + 1

-----------------------------------------------------------------------------
(* Messages.                                                               *)

RequestRide(r) ==
  /\ r \notin requested
  /\ requested' = requested \cup {r} /\ requests' = requests \cup {r}
  /\ UNCHANGED <<rideVars, driverVars, withdrawn, cancels, announced, gaveUp, round,
                 accepting, cancelling, history, faults>>

\* Another topic: the cancellation may be consumed before the request.
WithdrawRide(r) ==
  /\ r \in requested \ withdrawn
  /\ withdrawn' = withdrawn \cup {r} /\ cancels' = cancels \cup {r}
  /\ UNCHANGED <<rideVars, driverVars, requested, requests, announced, gaveUp, round,
                 accepting, cancelling, history, faults>>

\* ride-service's outbox may publish a message more than once.
DuplicateMessage(r) ==
  /\ Fault
  /\ \/ /\ r \in requested \ requests
        /\ requests' = requests \cup {r} /\ UNCHANGED cancels
     \/ /\ r \in withdrawn \ cancels
        /\ cancels' = cancels \cup {r} /\ UNCHANGED requests
  /\ UNCHANGED <<rideVars, driverVars, requested, withdrawn, announced, gaveUp, round,
                 accepting, cancelling, history>>

\* shift.updated: only an Online driver is in the pool.
UpsertDriver(d) ==
  /\ \/ d \notin online /\ online' = online \cup {d}
     \/ d \in online /\ online' = online \ {d}
  /\ UNCHANGED <<rideVars, offer, topicVars, round, accepting, cancelling, history, faults>>

-----------------------------------------------------------------------------
(* BroadcastOffers, called by the consumer for attempt 1 and by the retry  *)
(* worker for the later ones.                                              *)

Pc(k, r) == round[k][r].pc
Goto(k, r, p) == round' = [round EXCEPT ![k][r].pc = p]

\* The handler returns: without an error the consumer commits the message, and
\* with one it handles it again.  A commit that is lost is a duplicate message.
Finish(k, r) ==
  /\ round' = [round EXCEPT ![k][r] = Idle]
  /\ requests' = IF k = Consumer /\ ~round[k][r].failed THEN requests \ {r} ELSE requests
  /\ UNCHANGED <<requested, withdrawn, cancels, announced, gaveUp>>

\* CreateRide: SaveRide sets the status whatever it was.
CreateRide(r) ==
  /\ r \in requests /\ Pc(Consumer, r) = "idle"
  /\ status' = [status EXCEPT ![r] = "searching"]
  /\ round' = [round EXCEPT ![Consumer][r] = [Idle EXCEPT !.pc = "read", !.attempt = 1]]
  /\ UNCHANGED <<driver, claim, cancelled, pending, offered, driverVars, topicVars,
                 accepting, cancelling, history, faults>>

\* ListPending: the attempt and the deadline are a snapshot from here on.  Before
\* the deadline only a ride that is already accepted is not skipped.
ListPending(k, r) ==
  /\ k \in Sweepers /\ Pc(k, r) = "idle"
  /\ pending[r].attempt > 0
  /\ pending[r].due \/ claim[r] # None
  /\ round' = [round EXCEPT ![k][r].pc = "listed", ![k][r].attempt = pending[r].attempt + 1]
  /\ UNCHANGED <<rideVars, driverVars, topicVars, accepting, cancelling, history, faults>>

\* retryOne: a ride accepted in the meantime is not broadcast again.
RetryOne(k, r) ==
  /\ Pc(k, r) = "listed"
  /\ Goto(k, r, IF claim[r] # None THEN "drop" ELSE "read")
  /\ UNCHANGED <<rideVars, driverVars, topicVars, accepting, cancelling, history, faults>>

\* Mutant: the last attempt is given up instead of made.
ExhaustedEarly(n) == n >= MaxAttempts
Exhausted(n) == n > MaxAttempts

\* Candidates not yet offered the ride, without a live offer and below the rate
\* limit.  Which of the online drivers the radius, the ranking and the limits
\* leave is any set of them.
IsTargets(r, T) ==
  /\ T \subseteq online /\ Cardinality(T) <= BroadcastSize
  /\ \A d \in T : d \notin offered[r] /\ offer[d] = None

BroadcastOffers(k, r) ==
  /\ Pc(k, r) = "read"
  /\ \/ status[r] # "searching" /\ Goto(k, r, "drop")
     \/ status[r] = "searching" /\ Exhausted(round[k][r].attempt) /\ Goto(k, r, "fail")
     \/ /\ status[r] = "searching" /\ ~Exhausted(round[k][r].attempt)
        /\ \E T \in SUBSET Drivers :
             /\ IsTargets(r, T)
             /\ round' = [round EXCEPT ![k][r].pc = "offer", ![k][r].targets = T]
  /\ UNCHANGED <<rideVars, driverVars, topicVars, accepting, cancelling, history, faults>>

\* SET NX of the driver's current_offer, SADD and INCR of the rate counter.  An
\* error of any of them is collected while the other targets are tried.
TryOffer(k, r, d) ==
  LET sent  == [offer EXCEPT ![d] = IF @ = None THEN r ELSE @]
      noted == [offered EXCEPT ![r] = IF offer[d] = None THEN @ \cup {d} ELSE @]
      done(err) == round' = [round EXCEPT ![k][r].targets = @ \ {d},
                                          ![k][r].failed = @ \/ err]
  IN /\ d \in round[k][r].targets
     /\ \/ /\ offer' = sent /\ offered' = noted
           /\ done(FALSE) /\ UNCHANGED faults
        \/ /\ Fault /\ done(TRUE)
           /\ \/ UNCHANGED <<offer, offered>>
              \/ offer' = sent /\ offered' \in {offered, noted}
     /\ UNCHANGED <<status, driver, claim, cancelled, pending, online, topicVars,
                    accepting, cancelling, history>>

\* Armed "even when nobody was offered, and even when some offers failed".
\* Mutant: not armed when nobody was offered.
ArmedIfOffered(k, r) ==
  IF offered[r] = {} THEN NoPending ELSE [attempt |-> round[k][r].attempt, due |-> FALSE]
Armed(k, r) == [attempt |-> round[k][r].attempt, due |-> FALSE]

SetPending(k, r) ==
  /\ Pc(k, r) = "offer" /\ round[k][r].targets = {}
  /\ pending' = [pending EXCEPT ![r] = Armed(k, r)]
  /\ made' = [made EXCEPT ![r] = @ \cup {round[k][r].attempt}]
  /\ Finish(k, r)
  /\ UNCHANGED <<status, driver, claim, cancelled, offered, driverVars,
                 accepting, cancelling, abandoned, faults>>

\* HSET, whatever the status has become since it was read.
MarkFailed(k, r) ==
  /\ Pc(k, r) = "fail"
  /\ status' = [status EXCEPT ![r] = "failed"]
  /\ abandoned' = abandoned \cup {r}
  /\ Goto(k, r, "announce")
  /\ UNCHANGED <<driver, claim, cancelled, pending, offered, driverVars, topicVars,
                 accepting, cancelling, made, faults>>

\* Best effort: a failed publish is logged.
PublishMatchingFailed(k, r) ==
  /\ Pc(k, r) = "announce"
  /\ \/ gaveUp' = gaveUp \cup {r} /\ UNCHANGED faults
     \/ Fault /\ UNCHANGED gaveUp
  /\ Goto(k, r, "drop")
  /\ UNCHANGED <<rideVars, driverVars, requested, withdrawn, requests, cancels, announced,
                 accepting, cancelling, history>>

DropPending(k, r) ==
  /\ Pc(k, r) = "drop"
  /\ pending' = [pending EXCEPT ![r] = NoPending]
  /\ Finish(k, r)
  /\ UNCHANGED <<status, driver, claim, cancelled, offered, driverVars,
                 accepting, cancelling, history, faults>>

\* A failed command or a crash: the consumer's message is handled again, the
\* retry worker's ride is listed again.
AbortRound(k, r) ==
  /\ Pc(k, r) # "idle" /\ Fault
  /\ round' = [round EXCEPT ![k][r] = Idle]
  /\ UNCHANGED <<rideVars, driverVars, topicVars, accepting, cancelling, history>>

-----------------------------------------------------------------------------
(* AcceptRide.                                                             *)

AcceptAt(r, d, p) == accepting' = [accepting EXCEPT ![r][d] = p]

\* GetRide, IsCancelled, AcceptedBy and CurrentOffer: every other answer of theirs
\* ends the request with nothing changed.
AcceptRide(r, d) ==
  /\ accepting[r][d] = "idle"
  /\ status[r] # "none" /\ r \notin cancelled /\ claim[r] = None /\ offer[d] = r
  /\ AcceptAt(r, d, "claim")
  /\ UNCHANGED <<rideVars, driverVars, topicVars, round, cancelling, history, faults>>

\* SET accepted_by NX.
\* Mutant: a plain SET.
UnclaimedAlways(r) == TRUE
Unclaimed(r) == claim[r] = None

TryAccept(r, d) ==
  /\ accepting[r][d] = "claim"
  /\ claim' = IF Unclaimed(r) THEN [claim EXCEPT ![r] = d] ELSE claim
  /\ AcceptAt(r, d, IF Unclaimed(r) THEN "match" ELSE "idle")
  /\ UNCHANGED <<status, driver, cancelled, pending, offered, driverVars, topicVars,
                 round, cancelling, history, faults>>

\* The rating is read just before.
MarkMatched(r, d) ==
  /\ accepting[r][d] = "match"
  /\ status' = [status EXCEPT ![r] = "matched"]
  /\ driver' = [driver EXCEPT ![r] = d]
  /\ AcceptAt(r, d, "unpend")
  /\ UNCHANGED <<claim, cancelled, pending, offered, driverVars, topicVars,
                 round, cancelling, history, faults>>

AcceptDeletePending(r, d) ==
  /\ accepting[r][d] = "unpend"
  /\ pending' = [pending EXCEPT ![r] = NoPending]
  /\ AcceptAt(r, d, "clear")
  /\ UNCHANGED <<status, driver, claim, cancelled, offered, driverVars, topicVars,
                 round, cancelling, history, faults>>

\* DEL, whichever ride the key names by now.
ClearCurrentOffer(r, d) ==
  /\ accepting[r][d] = "clear"
  /\ offer' = [offer EXCEPT ![d] = None]
  /\ AcceptAt(r, d, "offline")
  /\ UNCHANGED <<rideVars, online, topicVars, round, cancelling, history, faults>>

RemoveOnline(r, d) ==
  /\ accepting[r][d] = "offline"
  /\ online' = online \ {d}
  /\ AcceptAt(r, d, "publish")
  /\ UNCHANGED <<rideVars, offer, topicVars, round, cancelling, history, faults>>

PublishAccepted(r, d) ==
  /\ accepting[r][d] = "publish"
  /\ announced' = [announced EXCEPT ![r] = @ \cup {d}]
  /\ AcceptAt(r, d, "idle")
  /\ UNCHANGED <<rideVars, driverVars, requested, withdrawn, requests, cancels, gaveUp,
                 round, cancelling, history, faults>>

\* A failed command or publish, or a crash: whatever was done stays done.
AbortAccept(r, d) ==
  /\ accepting[r][d] # "idle" /\ Fault
  /\ AcceptAt(r, d, "idle")
  /\ UNCHANGED <<rideVars, driverVars, topicVars, round, cancelling, history>>

-----------------------------------------------------------------------------
(* CancelRide.                                                             *)

CancelAt(r, p) == cancelling' = [cancelling EXCEPT ![r] = p]

SetCancelled(r) ==
  /\ r \in cancels /\ cancelling[r] = "idle"
  /\ cancelled' = cancelled \cup {r}
  /\ CancelAt(r, "unpend")
  /\ UNCHANGED <<status, driver, claim, pending, offered, driverVars, topicVars, round,
                 accepting, history, faults>>

CancelDeletePending(r) ==
  /\ cancelling[r] = "unpend"
  /\ pending' = [pending EXCEPT ![r] = NoPending]
  /\ CancelAt(r, "look")
  /\ UNCHANGED <<status, driver, claim, cancelled, offered, driverVars, topicVars, round,
                 accepting, history, faults>>

\* AcceptedBy, and GetRide for the cached rating.
CancelLook(r) ==
  /\ cancelling[r] = "look"
  /\ CancelAt(r, IF claim[r] # None THEN "restore" ELSE "mark")
  /\ UNCHANGED <<rideVars, driverVars, topicVars, round, accepting, history, faults>>

\* AddOnline, unless the cached rating could not be read.
CancelRestore(r) ==
  /\ cancelling[r] = "restore"
  /\ \/ online' = online \cup {claim[r]} /\ UNCHANGED faults
     \/ Fault /\ UNCHANGED online
  /\ CancelAt(r, "mark")
  /\ UNCHANGED <<rideVars, offer, topicVars, round, accepting, history>>

MarkCancelled(r) ==
  /\ cancelling[r] = "mark"
  /\ status' = [status EXCEPT ![r] = "cancelled"]
  /\ cancels' = cancels \ {r}
  /\ CancelAt(r, "idle")
  /\ UNCHANGED <<driver, claim, cancelled, pending, offered, driverVars, requested, withdrawn,
                 requests, announced, gaveUp, round, accepting, history, faults>>

AbortCancel(r) ==
  /\ cancelling[r] # "idle" /\ Fault
  /\ CancelAt(r, "idle")
  /\ UNCHANGED <<rideVars, driverVars, topicVars, round, accepting, history>>

-----------------------------------------------------------------------------
(* Time.                                                                   *)

OfferExpires(d) ==
  /\ offer[d] # None
  /\ offer' = [offer EXCEPT ![d] = None]
  /\ UNCHANGED <<rideVars, online, topicVars, round, accepting, cancelling, history, faults>>

\* The deadline is armed after the round's offers with the same 30 s, so it passes
\* after them; only a concurrent round's offers can still be alive.
DeadlinePasses(r) ==
  /\ pending[r].attempt > 0 /\ ~pending[r].due
  /\ \/ \A d \in Drivers : offer[d] # r
     \/ \E k \in Broadcasters : Pc(k, r) = "offer"
  /\ pending' = [pending EXCEPT ![r].due = TRUE]
  /\ UNCHANGED <<status, driver, claim, cancelled, offered, driverVars, topicVars, round,
                 accepting, cancelling, history, faults>>

-----------------------------------------------------------------------------
RoundStep(k, r) ==
  \/ RetryOne(k, r) \/ BroadcastOffers(k, r)
  \/ \E d \in Drivers : TryOffer(k, r, d)
  \/ SetPending(k, r) \/ MarkFailed(k, r) \/ PublishMatchingFailed(k, r) \/ DropPending(k, r)

AcceptStep(r, d) ==
  \/ TryAccept(r, d) \/ MarkMatched(r, d) \/ AcceptDeletePending(r, d)
  \/ ClearCurrentOffer(r, d) \/ RemoveOnline(r, d) \/ PublishAccepted(r, d)

CancelStep(r) ==
  \/ SetCancelled(r) \/ CancelDeletePending(r) \/ CancelLook(r) \/ CancelRestore(r)
  \/ MarkCancelled(r)

Next ==
  \/ \E r \in Rides :
       \/ RequestRide(r) \/ WithdrawRide(r) \/ DuplicateMessage(r)
       \/ CreateRide(r)
       \/ \E k \in Broadcasters : ListPending(k, r) \/ RoundStep(k, r) \/ AbortRound(k, r)
       \/ \E d \in Drivers : AcceptRide(r, d) \/ AcceptStep(r, d) \/ AbortAccept(r, d)
       \/ CancelStep(r) \/ AbortCancel(r)
       \/ DeadlinePasses(r)
  \/ \E d \in Drivers : UpsertDriver(d) \/ OfferExpires(d)

Spec == Init /\ [][Next]_vars

\* Consumers and tickers keep running and time passes; clients and drivers are
\* under no obligation.
Fairness ==
  /\ \A r \in Rides :
       /\ WF_vars(CreateRide(r)) /\ WF_vars(DeadlinePasses(r))
       /\ WF_vars(CancelStep(r))
       /\ \A k \in Broadcasters : WF_vars(ListPending(k, r)) /\ WF_vars(RoundStep(k, r))
  /\ \A d \in Drivers : WF_vars(OfferExpires(d))

FairSpec == Spec /\ Fairness

-----------------------------------------------------------------------------
AfterClaim == {"match", "unpend", "clear", "offline", "publish"}

\* "only the first successful SET wins": every driver that is told, recorded or
\* announced as the ride's driver is the one that holds the claim.
OneWinner ==
  \A r \in Rides :
    announced[r] \cup {d \in Drivers : accepting[r][d] \in AfterClaim \/ driver[r] = d}
      \subseteq {claim[r]}

\* A ride fails only when each of the five rounds was made, whoever of the consumer
\* and the retry workers made it and however often they started over.
FailsAfterAllRounds ==
  \A r \in Rides : status[r] = "failed" => made[r] = 1..MaxAttempts

\* "an un-armed ride is never re-swept and stalls silently" (broadcast_offers.go): a
\* ride that is searching and that nobody has claimed, cancelled or given up is
\* armed, or its request is still to be handled.
NeverUnarmed ==
  \A r \in Rides :
    status[r] = "searching" /\ claim[r] = None /\ r \notin cancelled /\ r \notin abandoned
      => pending[r].attempt > 0 \/ r \in requests

\* Every requested ride is in the end claimed by a driver, given up or cancelled.
EventuallySettled ==
  \A r \in Rides : r \in requested ~> claim[r] # None \/ r \in abandoned \/ r \in cancelled

\* "Blocks any in-flight AcceptRide racing this cancellation, regardless of whether
\* the ride was still searching or already matched" (cancel_ride.go).
CancelWins ==
  \A r \in Rides : r \in cancelled /\ r \notin cancels => status[r] # "matched"

\* "Matched drivers leave the pool" (accept_ride.go): a driver is never in the
\* middle of winning two rides.
OneRideAtATime ==
  \A d \in Drivers : \A r1, r2 \in Rides :
    accepting[r1][d] \in AfterClaim /\ accepting[r2][d] \in AfterClaim => r1 = r2
=============================================================================
