--------------------------- MODULE MatchingProofs ---------------------------
(***************************************************************************)
(* What matching-service keeps for every number of rides, drivers and      *)
(* instances, every broadcast size and number of attempts, and any number  *)
(* of crashes, failed commands and duplicated messages.                    *)
(***************************************************************************)
EXTENDS Matching, TLAPS

\* Somebody has claimed, given up or cancelled the ride.
Settled(r) == claim[r] # None \/ r \in abandoned \/ r \in cancelled

\* What the keys of a ride say of each other.
RideInv(r) ==
  /\ announced[r] \subseteq {claim[r]}
  /\ \A d \in Drivers : accepting[r][d] \in AfterClaim \/ driver[r] = d => claim[r] = d
  /\ cancelling[r] # "idle" => r \in cancelled
  /\ cancelling[r] = "restore" => claim[r] # None
  /\ status[r] = "matched" => claim[r] # None
  /\ status[r] = "cancelled" => r \in cancelled
  /\ status[r] = "failed" => r \in abandoned /\ made[r] = 1..MaxAttempts
  /\ pending[r].attempt > 0 => status[r] # "none"
  /\ 1..pending[r].attempt \subseteq made[r]

\* What a BroadcastOffers in flight knows of its ride, however stale: the rounds
\* before its own were made, and a decision to drop the ride was never wrong.
RoundInv(k, r) ==
  /\ Pc(k, r) # "idle" => status[r] # "none"
  /\ Pc(k, r) # "idle" /\ k = Consumer => r \in requests
  /\ Pc(k, r) \in {"listed", "read", "offer"} =>
       round[k][r].attempt > 0 /\ 1..(round[k][r].attempt - 1) \subseteq made[r]
  /\ Pc(k, r) = "offer" => round[k][r].attempt <= MaxAttempts
  /\ Pc(k, r) = "fail" => made[r] = 1..MaxAttempts
  /\ Pc(k, r) = "announce" => r \in abandoned
  /\ Pc(k, r) = "drop" => Settled(r)

\* NeverUnarmed and FailsAfterAllRounds are not inductive: both need what the
\* rounds in flight hold.
MatchingInv ==
  /\ TypeOK
  /\ \A r \in Rides : RideInv(r)
  /\ \A k \in Broadcasters, r \in Rides : RoundInv(k, r)
  /\ NeverUnarmed

-----------------------------------------------------------------------------
\* Nothing is in Redis and nothing in flight.
LEMMA MatchingInitially == Init => MatchingInv
<1> SUFFICES ASSUME Init PROVE MatchingInv
  OBVIOUS
<1> USE MatchingAssumption DEF Init
<1>1. TypeOK
  BY DEF TypeOK, Idle, NoPending, Round, RoundPc, RideStatus, AcceptPc, CancelPc
<1>2. ASSUME NEW r \in Rides PROVE RideInv(r)
  BY DEF RideInv, AfterClaim, NoPending
<1>3. ASSUME NEW k \in Broadcasters, NEW r \in Rides PROVE RoundInv(k, r)
  BY DEF RoundInv, Pc, Idle
<1>4. NeverUnarmed
  BY DEF NeverUnarmed
<1> QED
  BY <1>1, <1>2, <1>3, <1>4 DEF MatchingInv

-----------------------------------------------------------------------------
(* The record of a round in flight.                                        *)

\* A step of one caller for one ride leaves every other round alone.
LEMMA RoundUpdate ==
  ASSUME TypeOK, NEW k \in Broadcasters, NEW r \in Rides, NEW v \in Round,
         round' = [round EXCEPT ![k][r] = v]
  PROVE  /\ round' \in [Broadcasters -> [Rides -> Round]]
         /\ \A j \in Broadcasters, q \in Rides :
              round'[j][q] = IF j = k /\ q = r THEN v ELSE round[j][q]
BY DEF TypeOK

\* Goto changes the program counter and nothing else.
LEMMA GotoUpdate ==
  ASSUME TypeOK, NEW k \in Broadcasters, NEW r \in Rides, NEW p \in RoundPc, Goto(k, r, p)
  PROVE  /\ [round[k][r] EXCEPT !.pc = p] \in Round
         /\ round' = [round EXCEPT ![k][r] = [round[k][r] EXCEPT !.pc = p]]
<1>1. round[k][r] \in Round
  BY DEF TypeOK
<1>2. [round[k][r] EXCEPT !.pc = p] \in Round
  BY <1>1 DEF Round
<1>3. round' = [round EXCEPT ![k][r] = [round[k][r] EXCEPT !.pc = p]]
  BY DEF Goto
<1> QED
  BY <1>2, <1>3

\* The type of what Goto leaves behind.
LEMMA GotoType ==
  ASSUME TypeOK, NEW k \in Broadcasters, NEW r \in Rides, NEW p \in RoundPc, Goto(k, r, p)
  PROVE  round' \in [Broadcasters -> [Rides -> Round]]
<1> DEFINE v == [round[k][r] EXCEPT !.pc = p]
<1>1. v \in Round /\ round' = [round EXCEPT ![k][r] = v]
  BY GotoUpdate
<1> HIDE DEF v
<1> QED
  BY <1>1, RoundUpdate

\* ListPending stays below one attempt more than there are.
LEMMA ListPendingType ==
  ASSUME TypeOK, NEW k \in Broadcasters, NEW r \in Rides, ListPending(k, r)
  PROVE  round' \in [Broadcasters -> [Rides -> Round]]
<1> DEFINE v == [round[k][r] EXCEPT !.pc = "listed", !.attempt = pending[r].attempt + 1]
<1>1. round[k][r] \in Round
  BY DEF TypeOK
<1>2. pending[r].attempt + 1 \in 0..(MaxAttempts + 1) /\ "listed" \in RoundPc
  BY MatchingAssumption DEF TypeOK, RoundPc
<1>3. v \in Round
  BY <1>1, <1>2 DEF Round
<1>4. round' = [round EXCEPT ![k][r] = v]
  BY DEF ListPending
<1> QED
  BY <1>3, <1>4, RoundUpdate

\* CreateRide starts the first round.
LEMMA CreateRideType ==
  ASSUME TypeOK, NEW r \in Rides, CreateRide(r)
  PROVE  round' \in [Broadcasters -> [Rides -> Round]]
<1> DEFINE v == [Idle EXCEPT !.pc = "read", !.attempt = 1]
<1>1. v \in Round
  <2>1. Idle \in Round
    BY MatchingAssumption DEF Idle, Round, RoundPc
  <2>2. 1 \in 0..(MaxAttempts + 1) /\ "read" \in RoundPc
    BY MatchingAssumption DEF RoundPc
  <2> QED
    BY <2>1, <2>2 DEF Round
<1>2. round' = [round EXCEPT ![Consumer][r] = v]
  BY DEF CreateRide
<1>3. Consumer \in Broadcasters
  BY DEF Broadcasters
<1> QED
  BY <1>1, <1>2, <1>3, RoundUpdate

\* A broadcast that goes on has its targets and an attempt that is allowed.
LEMMA BroadcastUpdate ==
  ASSUME TypeOK, NEW k \in Broadcasters, NEW r \in Rides, BroadcastOffers(k, r)
  PROVE  \/ status[r] # "searching" /\ Goto(k, r, "drop")
         \/ status[r] = "searching" /\ round[k][r].attempt > MaxAttempts /\ Goto(k, r, "fail")
         \/ /\ ~(round[k][r].attempt > MaxAttempts)
            /\ \E T \in SUBSET Drivers :
                 LET v == [round[k][r] EXCEPT !.pc = "offer", !.targets = T]
                 IN  v \in Round /\ round' = [round EXCEPT ![k][r] = v]
<1> SUFFICES ASSUME ~Exhausted(round[k][r].attempt), NEW T \in SUBSET Drivers,
                    round' = [round EXCEPT ![k][r].pc = "offer", ![k][r].targets = T]
             PROVE  LET v == [round[k][r] EXCEPT !.pc = "offer", !.targets = T]
                    IN  v \in Round /\ round' = [round EXCEPT ![k][r] = v]
  BY DEF BroadcastOffers, Exhausted
<1>1. round[k][r] \in Round
  BY DEF TypeOK
<1>2. [round[k][r] EXCEPT !.pc = "offer", !.targets = T] \in Round
  BY <1>1 DEF Round, RoundPc
<1>3. round' = [round EXCEPT ![k][r] = [round[k][r] EXCEPT !.pc = "offer", !.targets = T]]
  OBVIOUS
<1> QED
  BY <1>2

\* An offer takes its target off the list and may record an error.
LEMMA TryOfferUpdate ==
  ASSUME TypeOK, NEW k \in Broadcasters, NEW r \in Rides, NEW d \in Drivers, TryOffer(k, r, d)
  PROVE  \E v \in Round : /\ round' = [round EXCEPT ![k][r] = v]
                          /\ v.pc = round[k][r].pc /\ v.attempt = round[k][r].attempt
<1>1. PICK e \in BOOLEAN :
        round' = [round EXCEPT ![k][r].targets = @ \ {d}, ![k][r].failed = @ \/ e]
  BY DEF TryOffer
<1> DEFINE v == [round[k][r] EXCEPT !.targets = @ \ {d}, !.failed = @ \/ e]
<1>2. round[k][r] \in Round
  BY DEF TypeOK
<1>3. v \in Round
  BY <1>2 DEF Round
<1>4. round' = [round EXCEPT ![k][r] = v]
  BY <1>1
<1>5. v.pc = round[k][r].pc /\ v.attempt = round[k][r].attempt
  OBVIOUS
<1> QED
  BY <1>3, <1>4, <1>5

-----------------------------------------------------------------------------
(* One lemma per action.                                                   *)

LEMMA RequestRideKeeps ==
  ASSUME MatchingInv, NEW r \in Rides, RequestRide(r) PROVE MatchingInv'
<1>1. TypeOK'
  BY DEF MatchingInv, RequestRide, rideVars, driverVars, history, TypeOK
<1>2. ASSUME NEW q \in Rides PROVE RideInv(q)'
  BY DEF MatchingInv, RequestRide, rideVars, history, RideInv
<1>3. ASSUME NEW j \in Broadcasters, NEW q \in Rides PROVE RoundInv(j, q)'
  BY DEF MatchingInv, RequestRide, rideVars, history, Pc, RoundInv, Settled
<1>4. NeverUnarmed'
  BY DEF MatchingInv, RequestRide, rideVars, history, NeverUnarmed
<1> QED
  BY <1>1, <1>2, <1>3, <1>4 DEF MatchingInv

LEMMA WithdrawRideKeeps ==
  ASSUME MatchingInv, NEW r \in Rides, WithdrawRide(r) PROVE MatchingInv'
<1>1. TypeOK'
  BY DEF MatchingInv, WithdrawRide, rideVars, driverVars, history, TypeOK
<1>2. ASSUME NEW q \in Rides PROVE RideInv(q)'
  BY DEF MatchingInv, WithdrawRide, rideVars, history, RideInv
<1>3. ASSUME NEW j \in Broadcasters, NEW q \in Rides PROVE RoundInv(j, q)'
  BY DEF MatchingInv, WithdrawRide, rideVars, history, Pc, RoundInv, Settled
<1>4. NeverUnarmed'
  BY DEF MatchingInv, WithdrawRide, rideVars, history, NeverUnarmed
<1> QED
  BY <1>1, <1>2, <1>3, <1>4 DEF MatchingInv

LEMMA DuplicateMessageKeeps ==
  ASSUME MatchingInv, NEW r \in Rides, DuplicateMessage(r) PROVE MatchingInv'
<1>1. TypeOK'
  BY DEF MatchingInv, DuplicateMessage, rideVars, driverVars, history, Fault, TypeOK
<1>2. ASSUME NEW q \in Rides PROVE RideInv(q)'
  BY DEF MatchingInv, DuplicateMessage, rideVars, history, RideInv
<1>3. ASSUME NEW j \in Broadcasters, NEW q \in Rides PROVE RoundInv(j, q)'
  BY DEF MatchingInv, DuplicateMessage, rideVars, history, Pc, RoundInv, Settled
<1>4. NeverUnarmed'
  BY DEF MatchingInv, DuplicateMessage, rideVars, history, NeverUnarmed
<1> QED
  BY <1>1, <1>2, <1>3, <1>4 DEF MatchingInv

LEMMA UpsertDriverKeeps ==
  ASSUME MatchingInv, NEW d \in Drivers, UpsertDriver(d) PROVE MatchingInv'
<1>1. TypeOK'
  BY DEF MatchingInv, UpsertDriver, rideVars, topicVars, history, TypeOK
<1>2. ASSUME NEW q \in Rides PROVE RideInv(q)'
  BY DEF MatchingInv, UpsertDriver, rideVars, topicVars, history, RideInv
<1>3. ASSUME NEW j \in Broadcasters, NEW q \in Rides PROVE RoundInv(j, q)'
  BY DEF MatchingInv, UpsertDriver, rideVars, topicVars, history, Pc, RoundInv, Settled
<1>4. NeverUnarmed'
  BY DEF MatchingInv, UpsertDriver, rideVars, topicVars, history, NeverUnarmed
<1> QED
  BY <1>1, <1>2, <1>3, <1>4 DEF MatchingInv

LEMMA CreateRideKeeps ==
  ASSUME MatchingInv, NEW r \in Rides, CreateRide(r) PROVE MatchingInv'
<1>1. TypeOK'
  <2>1. round' \in [Broadcasters -> [Rides -> Round]]
    BY CreateRideType DEF MatchingInv
  <2> QED
    BY <2>1 DEF MatchingInv, CreateRide, driverVars, topicVars, history, TypeOK, RideStatus
<1>2. ASSUME NEW q \in Rides PROVE RideInv(q)'
  BY DEF MatchingInv, CreateRide, topicVars, history, RideInv
<1>3. ASSUME NEW j \in Broadcasters, NEW q \in Rides PROVE RoundInv(j, q)'
  BY DEF MatchingInv, CreateRide, topicVars, history, Pc, TypeOK, RoundInv, Settled
<1>4. NeverUnarmed'
  BY DEF MatchingInv, CreateRide, topicVars, history, NeverUnarmed
<1> QED
  BY <1>1, <1>2, <1>3, <1>4 DEF MatchingInv

LEMMA ListPendingKeeps ==
  ASSUME MatchingInv, NEW k \in Broadcasters, NEW r \in Rides, ListPending(k, r) PROVE MatchingInv'
<1>1. TypeOK'
  <2>1. round' \in [Broadcasters -> [Rides -> Round]]
    BY ListPendingType DEF MatchingInv
  <2> QED
    BY <2>1 DEF MatchingInv, ListPending, rideVars, driverVars, topicVars, history, TypeOK
<1>2. ASSUME NEW q \in Rides PROVE RideInv(q)'
  BY DEF MatchingInv, ListPending, rideVars, topicVars, history, RideInv
<1>3. ASSUME NEW j \in Broadcasters, NEW q \in Rides PROVE RoundInv(j, q)'
  BY MatchingAssumption DEF MatchingInv, ListPending, rideVars, topicVars, history, Pc, TypeOK,
     RideInv, RoundInv, Settled, Broadcasters
<1>4. NeverUnarmed'
  BY DEF MatchingInv, ListPending, rideVars, topicVars, history, NeverUnarmed
<1> QED
  BY <1>1, <1>2, <1>3, <1>4 DEF MatchingInv

LEMMA RetryOneKeeps ==
  ASSUME MatchingInv, NEW k \in Broadcasters, NEW r \in Rides, RetryOne(k, r) PROVE MatchingInv'
<1>1. TypeOK'
  <2>1. \A p \in {"drop", "read"} : p \in RoundPc
    BY DEF RoundPc
  <2>2. round' \in [Broadcasters -> [Rides -> Round]]
    BY <2>1, GotoType DEF MatchingInv, RetryOne
  <2> QED
    BY <2>2 DEF MatchingInv, RetryOne, rideVars, driverVars, topicVars, history, TypeOK
<1>2. ASSUME NEW q \in Rides PROVE RideInv(q)'
  BY DEF MatchingInv, RetryOne, rideVars, topicVars, history, RideInv
<1>3. ASSUME NEW j \in Broadcasters, NEW q \in Rides PROVE RoundInv(j, q)'
  BY DEF MatchingInv, RetryOne, rideVars, topicVars, history, Goto, Pc, RoundInv, Settled
<1>4. NeverUnarmed'
  BY DEF MatchingInv, RetryOne, rideVars, topicVars, history, NeverUnarmed
<1> QED
  BY <1>1, <1>2, <1>3, <1>4 DEF MatchingInv

LEMMA BroadcastOffersKeeps ==
  ASSUME MatchingInv, NEW k \in Broadcasters, NEW r \in Rides, BroadcastOffers(k, r) PROVE MatchingInv'
<1>1. TypeOK'
  <2>1. round' \in [Broadcasters -> [Rides -> Round]]
    <3>1. "drop" \in RoundPc /\ "fail" \in RoundPc
      BY DEF RoundPc
    <3>2. CASE Goto(k, r, "drop") \/ Goto(k, r, "fail")
      BY <3>1, <3>2, GotoType DEF MatchingInv
    <3>3. CASE \E v \in Round : round' = [round EXCEPT ![k][r] = v]
      BY <3>3, RoundUpdate DEF MatchingInv
    <3> QED
      BY <3>2, <3>3, BroadcastUpdate DEF MatchingInv
  <2> QED
    BY <2>1 DEF MatchingInv, BroadcastOffers, rideVars, driverVars, topicVars, history, TypeOK
<1>2. ASSUME NEW q \in Rides PROVE RideInv(q)'
  BY DEF MatchingInv, BroadcastOffers, rideVars, topicVars, history, RideInv
<1>3. ASSUME NEW j \in Broadcasters, NEW q \in Rides PROVE RoundInv(j, q)'
  <2>1. CASE status[r] # "searching" /\ Goto(k, r, "drop")
    BY <2>1 DEF MatchingInv, BroadcastOffers, Goto, Pc, rideVars, topicVars, history, TypeOK,
       RideStatus, RideInv, RoundInv, Settled
  <2>2. CASE round[k][r].attempt > MaxAttempts /\ Goto(k, r, "fail")
    <3>1. round[k][r].attempt \in 0..(MaxAttempts + 1) /\ made[r] \subseteq 1..MaxAttempts
      BY DEF MatchingInv, TypeOK, Round
    <3>2. round[k][r].attempt = MaxAttempts + 1
      BY <2>2, <3>1, MatchingAssumption
    <3>3. 1..MaxAttempts \subseteq made[r]
      BY <3>2, MatchingAssumption DEF MatchingInv, BroadcastOffers, RoundInv
    <3>4. made[r] = 1..MaxAttempts
      BY <3>1, <3>3
    <3>5. round'[j][q] = IF j = k /\ q = r THEN [round[k][r] EXCEPT !.pc = "fail"] ELSE round[j][q]
      BY <2>2 DEF MatchingInv, TypeOK, Goto
    <3>6. CASE j = k /\ q = r
      <4>1. Pc(j, q)' = "fail"
        BY <2>2, <3>6 DEF MatchingInv, TypeOK, Goto, Pc
      <4> QED
        BY <3>4, <3>6, <4>1 DEF MatchingInv, BroadcastOffers, rideVars, topicVars, history, RoundInv
    <3>7. CASE ~(j = k /\ q = r)
      <4>1. round'[j][q] = round[j][q]
        BY <3>5, <3>7
      <4> QED
        BY <4>1 DEF MatchingInv, BroadcastOffers, Pc, rideVars, topicVars, history, RoundInv,
           Settled
    <3> QED
      BY <3>6, <3>7
  <2>3. ASSUME ~(round[k][r].attempt > MaxAttempts), NEW T \in SUBSET Drivers,
               [round[k][r] EXCEPT !.pc = "offer", !.targets = T] \in Round,
               round' = [round EXCEPT ![k][r] = [round[k][r] EXCEPT !.pc = "offer", !.targets = T]]
        PROVE  RoundInv(j, q)'
    <3> DEFINE v == [round[k][r] EXCEPT !.pc = "offer", !.targets = T]
    <3>1. round'[j][q] = IF j = k /\ q = r THEN v ELSE round[j][q]
      BY <2>3, RoundUpdate DEF MatchingInv
    <3>2. v.pc = "offer" /\ v.attempt = round[k][r].attempt /\ round[k][r].attempt \in 0..(MaxAttempts + 1)
      BY DEF MatchingInv, TypeOK, Round
    <3> QED
      BY <2>3, <3>2, MatchingAssumption DEF MatchingInv, BroadcastOffers, Pc, RoundInv, Settled,
         rideVars, topicVars, history
  <2> QED
    BY <2>1, <2>2, <2>3, BroadcastUpdate DEF MatchingInv
<1>4. NeverUnarmed'
  BY DEF MatchingInv, BroadcastOffers, rideVars, topicVars, history, NeverUnarmed
<1> QED
  BY <1>1, <1>2, <1>3, <1>4 DEF MatchingInv

LEMMA TryOfferKeeps ==
  ASSUME MatchingInv, NEW k \in Broadcasters, NEW r \in Rides, NEW d \in Drivers, TryOffer(k, r, d) PROVE MatchingInv'
<1>1. TypeOK'
  <2>1. round' \in [Broadcasters -> [Rides -> Round]]
    BY TryOfferUpdate, RoundUpdate DEF MatchingInv
  <2>2. offer' \in [Drivers -> Rides \cup {None}] /\ offered' \in [Rides -> SUBSET Drivers]
    <3>1. /\ offer' = offer \/ offer' = [offer EXCEPT ![d] = IF @ = None THEN r ELSE @]
          /\ \/ offered' = offered
             \/ offered' = [offered EXCEPT ![r] = IF offer[d] = None THEN @ \cup {d} ELSE @]
      BY DEF TryOffer
    <3>2. offer \in [Drivers -> Rides \cup {None}] /\ offered \in [Rides -> SUBSET Drivers]
      BY DEF MatchingInv, TypeOK
    <3>3. offer' \in [Drivers -> Rides \cup {None}]
      BY <3>1, <3>2
    <3>4. offered' \in [Rides -> SUBSET Drivers]
      BY <3>1, <3>2
    <3> QED
      BY <3>3, <3>4
  <2>3. faults' \in Nat
    BY DEF MatchingInv, TryOffer, TypeOK, Fault
  <2> QED
    BY <2>1, <2>2, <2>3 DEF MatchingInv, TryOffer, topicVars, history, TypeOK
<1>2. ASSUME NEW q \in Rides PROVE RideInv(q)'
  BY DEF MatchingInv, TryOffer, topicVars, history, RideInv
<1>3. ASSUME NEW j \in Broadcasters, NEW q \in Rides PROVE RoundInv(j, q)'
  <2>1. PICK v \in Round : /\ round' = [round EXCEPT ![k][r] = v]
                           /\ v.pc = round[k][r].pc /\ v.attempt = round[k][r].attempt
    BY TryOfferUpdate DEF MatchingInv
  <2>2. Pc(j, q)' = Pc(j, q) /\ round'[j][q].attempt = round[j][q].attempt
    BY <2>1 DEF Pc
  <2> QED
    BY <2>2 DEF MatchingInv, RoundInv, Settled, TryOffer, topicVars, history
<1>4. NeverUnarmed'
  BY DEF MatchingInv, TryOffer, topicVars, history, NeverUnarmed
<1> QED
  BY <1>1, <1>2, <1>3, <1>4 DEF MatchingInv

LEMMA SetPendingKeeps ==
  ASSUME MatchingInv, NEW k \in Broadcasters, NEW r \in Rides, SetPending(k, r) PROVE MatchingInv'
<1>1. TypeOK'
  BY MatchingAssumption DEF MatchingInv, SetPending, driverVars, Finish, Idle, Armed, TypeOK,
     Round, RoundPc, RoundInv
<1>2. ASSUME NEW q \in Rides PROVE RideInv(q)'
  <2>1. round[k][r].attempt > 0 /\ round[k][r].attempt <= MaxAttempts
        /\ 1..(round[k][r].attempt - 1) \subseteq made[r] /\ round[k][r].attempt \in Nat
    BY DEF MatchingInv, SetPending, RoundInv, TypeOK, Round
  <2>2. made'[q] = (IF q = r THEN made[r] \cup {round[k][r].attempt} ELSE made[q]) /\ made[q] \subseteq 1..MaxAttempts
    BY DEF MatchingInv, TypeOK, SetPending
  <2>3. pending'[q] = IF q = r THEN Armed(k, r) ELSE pending[q]
    BY DEF MatchingInv, TypeOK, SetPending
  <2>4. 1..pending'[q].attempt \subseteq made'[q]
    BY <2>1, <2>2, <2>3 DEF MatchingInv, RideInv, Armed
  <2>5. status[q] = "failed" => made'[q] = 1..MaxAttempts
    <3>1. round[k][r].attempt \in 1..MaxAttempts
      BY <2>1
    <3>2. status[q] = "failed" => made[q] = 1..MaxAttempts
      BY DEF MatchingInv, RideInv
    <3> QED
      BY <2>2, <3>1, <3>2
  <2>6. pending'[q].attempt > 0 => status[q] # "none"
    BY DEF MatchingInv, RideInv, RoundInv, SetPending
  <2> QED
    BY <2>4, <2>5, <2>6 DEF MatchingInv, RideInv, SetPending, Finish
<1>3. ASSUME NEW j \in Broadcasters, NEW q \in Rides PROVE RoundInv(j, q)'
  <2>1. round'[j][q] = IF j = k /\ q = r THEN Idle ELSE round[j][q]
    BY DEF MatchingInv, TypeOK, SetPending, Finish
  <2>2. made[q] \subseteq made'[q] /\ made'[q] \subseteq 1..MaxAttempts
    BY <1>1 DEF TypeOK, SetPending
  <2>3. CASE j = k /\ q = r
    BY <2>1, <2>3 DEF RoundInv, Pc, Idle
  <2>4. CASE ~(j = k /\ q = r)
    <3>1. Pc(j, q)' = Pc(j, q) /\ round'[j][q].attempt = round[j][q].attempt
      BY <2>1, <2>4 DEF Pc
    <3>2. Pc(j, q) # "idle" /\ j = Consumer => q \in requests'
      BY <2>4 DEF MatchingInv, RoundInv, SetPending, Finish
    <3> QED
      BY <2>2, <3>1, <3>2 DEF MatchingInv, RoundInv, Settled, SetPending
  <2> QED
    BY <2>3, <2>4
<1>4. NeverUnarmed'
  BY DEF MatchingInv, SetPending, Finish, Armed, TypeOK, NeverUnarmed, RoundInv
<1> QED
  BY <1>1, <1>2, <1>3, <1>4 DEF MatchingInv

LEMMA MarkFailedKeeps ==
  ASSUME MatchingInv, NEW k \in Broadcasters, NEW r \in Rides, MarkFailed(k, r) PROVE MatchingInv'
<1>1. TypeOK'
  <2>1. \A p \in {"announce"} : p \in RoundPc
    BY DEF RoundPc
  <2>2. round' \in [Broadcasters -> [Rides -> Round]]
    BY <2>1, GotoType DEF MatchingInv, MarkFailed
  <2> QED
    BY <2>2 DEF MatchingInv, MarkFailed, driverVars, topicVars, TypeOK, RideStatus
<1>2. ASSUME NEW q \in Rides PROVE RideInv(q)'
  BY DEF MatchingInv, MarkFailed, topicVars, RideInv, RoundInv
<1>3. ASSUME NEW j \in Broadcasters, NEW q \in Rides PROVE RoundInv(j, q)'
  BY DEF MatchingInv, MarkFailed, topicVars, Goto, Pc, RoundInv, Settled
<1>4. NeverUnarmed'
  BY DEF MatchingInv, MarkFailed, topicVars, NeverUnarmed
<1> QED
  BY <1>1, <1>2, <1>3, <1>4 DEF MatchingInv

LEMMA PublishMatchingFailedKeeps ==
  ASSUME MatchingInv, NEW k \in Broadcasters, NEW r \in Rides, PublishMatchingFailed(k, r) PROVE MatchingInv'
<1>1. TypeOK'
  <2>1. \A p \in {"drop"} : p \in RoundPc
    BY DEF RoundPc
  <2>2. round' \in [Broadcasters -> [Rides -> Round]]
    BY <2>1, GotoType DEF MatchingInv, PublishMatchingFailed
  <2> QED
    BY <2>2 DEF MatchingInv, PublishMatchingFailed, Fault, rideVars, driverVars, history, TypeOK
<1>2. ASSUME NEW q \in Rides PROVE RideInv(q)'
  BY DEF MatchingInv, PublishMatchingFailed, rideVars, history, RideInv
<1>3. ASSUME NEW j \in Broadcasters, NEW q \in Rides PROVE RoundInv(j, q)'
  BY DEF MatchingInv, PublishMatchingFailed, rideVars, history, Goto, Pc, RoundInv, Settled
<1>4. NeverUnarmed'
  BY DEF MatchingInv, PublishMatchingFailed, rideVars, history, NeverUnarmed
<1> QED
  BY <1>1, <1>2, <1>3, <1>4 DEF MatchingInv

LEMMA DropPendingKeeps ==
  ASSUME MatchingInv, NEW k \in Broadcasters, NEW r \in Rides, DropPending(k, r) PROVE MatchingInv'
<1>1. TypeOK'
  BY MatchingAssumption DEF MatchingInv, DropPending, driverVars, history, Finish, Idle,
     NoPending, TypeOK, Round, RoundPc
<1>2. ASSUME NEW q \in Rides PROVE RideInv(q)'
  BY DEF MatchingInv, DropPending, driverVars, history, Finish, NoPending, RideInv
<1>3. ASSUME NEW j \in Broadcasters, NEW q \in Rides PROVE RoundInv(j, q)'
  BY DEF MatchingInv, DropPending, history, Finish, Pc, Idle, TypeOK, RoundInv, Settled
<1>4. NeverUnarmed'
  BY DEF MatchingInv, DropPending, history, Finish, NeverUnarmed, RoundInv, Settled
<1> QED
  BY <1>1, <1>2, <1>3, <1>4 DEF MatchingInv

LEMMA AbortRoundKeeps ==
  ASSUME MatchingInv, NEW k \in Broadcasters, NEW r \in Rides, AbortRound(k, r) PROVE MatchingInv'
<1>1. TypeOK'
  BY MatchingAssumption DEF MatchingInv, AbortRound, rideVars, driverVars, topicVars, history,
     Fault, Idle, TypeOK, Round, RoundPc
<1>2. ASSUME NEW q \in Rides PROVE RideInv(q)'
  BY DEF MatchingInv, AbortRound, rideVars, topicVars, history, RideInv
<1>3. ASSUME NEW j \in Broadcasters, NEW q \in Rides PROVE RoundInv(j, q)'
  BY DEF MatchingInv, AbortRound, rideVars, topicVars, history, Pc, Idle, RoundInv, Settled
<1>4. NeverUnarmed'
  BY DEF MatchingInv, AbortRound, rideVars, topicVars, history, NeverUnarmed
<1> QED
  BY <1>1, <1>2, <1>3, <1>4 DEF MatchingInv

LEMMA AcceptRideKeeps ==
  ASSUME MatchingInv, NEW r \in Rides, NEW d \in Drivers, AcceptRide(r, d) PROVE MatchingInv'
<1>1. TypeOK'
  BY DEF MatchingInv, AcceptRide, rideVars, driverVars, topicVars, history, AcceptAt, TypeOK,
     AcceptPc
<1>2. ASSUME NEW q \in Rides PROVE RideInv(q)'
  BY DEF MatchingInv, AcceptRide, rideVars, topicVars, history, AcceptAt, RideInv, AfterClaim
<1>3. ASSUME NEW j \in Broadcasters, NEW q \in Rides PROVE RoundInv(j, q)'
  BY DEF MatchingInv, AcceptRide, rideVars, topicVars, history, Pc, RoundInv, Settled
<1>4. NeverUnarmed'
  BY DEF MatchingInv, AcceptRide, rideVars, topicVars, history, NeverUnarmed
<1> QED
  BY <1>1, <1>2, <1>3, <1>4 DEF MatchingInv

LEMMA TryAcceptKeeps ==
  ASSUME MatchingInv, NEW r \in Rides, NEW d \in Drivers, TryAccept(r, d) PROVE MatchingInv'
<1>1. TypeOK'
  BY DEF MatchingInv, TryAccept, driverVars, topicVars, history, AcceptAt, TypeOK, AcceptPc
<1>2. ASSUME NEW q \in Rides PROVE RideInv(q)'
  BY MatchingAssumption DEF MatchingInv, TryAccept, topicVars, history, AcceptAt, Unclaimed,
     TypeOK, RideInv, AfterClaim
<1>3. ASSUME NEW j \in Broadcasters, NEW q \in Rides PROVE RoundInv(j, q)'
  BY DEF MatchingInv, TryAccept, topicVars, history, Pc, Unclaimed, RoundInv, Settled
<1>4. NeverUnarmed'
  BY MatchingAssumption DEF MatchingInv, TryAccept, topicVars, history, NeverUnarmed
<1> QED
  BY <1>1, <1>2, <1>3, <1>4 DEF MatchingInv

LEMMA MarkMatchedKeeps ==
  ASSUME MatchingInv, NEW r \in Rides, NEW d \in Drivers, MarkMatched(r, d) PROVE MatchingInv'
<1>1. TypeOK'
  BY DEF MatchingInv, MarkMatched, driverVars, topicVars, history, AcceptAt, TypeOK, RideStatus,
     AcceptPc
<1>2. ASSUME NEW q \in Rides PROVE RideInv(q)'
  BY MatchingAssumption DEF MatchingInv, MarkMatched, topicVars, history, AcceptAt, RideInv,
     AfterClaim
<1>3. ASSUME NEW j \in Broadcasters, NEW q \in Rides PROVE RoundInv(j, q)'
  BY DEF MatchingInv, MarkMatched, topicVars, history, Pc, RoundInv, Settled
<1>4. NeverUnarmed'
  BY DEF MatchingInv, MarkMatched, topicVars, history, NeverUnarmed
<1> QED
  BY <1>1, <1>2, <1>3, <1>4 DEF MatchingInv

LEMMA AcceptDeletePendingKeeps ==
  ASSUME MatchingInv, NEW r \in Rides, NEW d \in Drivers, AcceptDeletePending(r, d) PROVE MatchingInv'
<1>1. TypeOK'
  BY MatchingAssumption DEF MatchingInv, AcceptDeletePending, driverVars, topicVars, history,
     AcceptAt, NoPending, TypeOK, AcceptPc
<1>2. ASSUME NEW q \in Rides PROVE RideInv(q)'
  BY DEF MatchingInv, AcceptDeletePending, topicVars, history, AcceptAt, NoPending, RideInv,
     AfterClaim
<1>3. ASSUME NEW j \in Broadcasters, NEW q \in Rides PROVE RoundInv(j, q)'
  BY DEF MatchingInv, AcceptDeletePending, topicVars, history, Pc, RoundInv, Settled
<1>4. NeverUnarmed'
  BY MatchingAssumption DEF MatchingInv, AcceptDeletePending, topicVars, history, NeverUnarmed,
     RideInv, AfterClaim
<1> QED
  BY <1>1, <1>2, <1>3, <1>4 DEF MatchingInv

LEMMA ClearCurrentOfferKeeps ==
  ASSUME MatchingInv, NEW r \in Rides, NEW d \in Drivers, ClearCurrentOffer(r, d) PROVE MatchingInv'
<1>1. TypeOK'
  BY DEF MatchingInv, ClearCurrentOffer, rideVars, topicVars, history, AcceptAt, TypeOK, AcceptPc
<1>2. ASSUME NEW q \in Rides PROVE RideInv(q)'
  BY DEF MatchingInv, ClearCurrentOffer, rideVars, topicVars, history, AcceptAt, RideInv, AfterClaim
<1>3. ASSUME NEW j \in Broadcasters, NEW q \in Rides PROVE RoundInv(j, q)'
  BY DEF MatchingInv, ClearCurrentOffer, rideVars, topicVars, history, Pc, RoundInv, Settled
<1>4. NeverUnarmed'
  BY DEF MatchingInv, ClearCurrentOffer, rideVars, topicVars, history, NeverUnarmed
<1> QED
  BY <1>1, <1>2, <1>3, <1>4 DEF MatchingInv

LEMMA RemoveOnlineKeeps ==
  ASSUME MatchingInv, NEW r \in Rides, NEW d \in Drivers, RemoveOnline(r, d) PROVE MatchingInv'
<1>1. TypeOK'
  BY DEF MatchingInv, RemoveOnline, rideVars, topicVars, history, AcceptAt, TypeOK, AcceptPc
<1>2. ASSUME NEW q \in Rides PROVE RideInv(q)'
  BY DEF MatchingInv, RemoveOnline, rideVars, topicVars, history, AcceptAt, RideInv, AfterClaim
<1>3. ASSUME NEW j \in Broadcasters, NEW q \in Rides PROVE RoundInv(j, q)'
  BY DEF MatchingInv, RemoveOnline, rideVars, topicVars, history, Pc, RoundInv, Settled
<1>4. NeverUnarmed'
  BY DEF MatchingInv, RemoveOnline, rideVars, topicVars, history, NeverUnarmed
<1> QED
  BY <1>1, <1>2, <1>3, <1>4 DEF MatchingInv

LEMMA PublishAcceptedKeeps ==
  ASSUME MatchingInv, NEW r \in Rides, NEW d \in Drivers, PublishAccepted(r, d) PROVE MatchingInv'
<1>1. TypeOK'
  BY DEF MatchingInv, PublishAccepted, rideVars, driverVars, history, AcceptAt, TypeOK, AcceptPc
<1>2. ASSUME NEW q \in Rides PROVE RideInv(q)'
  BY DEF MatchingInv, PublishAccepted, rideVars, history, AcceptAt, RideInv, AfterClaim
<1>3. ASSUME NEW j \in Broadcasters, NEW q \in Rides PROVE RoundInv(j, q)'
  BY DEF MatchingInv, PublishAccepted, rideVars, history, Pc, RoundInv, Settled
<1>4. NeverUnarmed'
  BY DEF MatchingInv, PublishAccepted, rideVars, history, NeverUnarmed
<1> QED
  BY <1>1, <1>2, <1>3, <1>4 DEF MatchingInv

LEMMA AbortAcceptKeeps ==
  ASSUME MatchingInv, NEW r \in Rides, NEW d \in Drivers, AbortAccept(r, d) PROVE MatchingInv'
<1>1. TypeOK'
  BY DEF MatchingInv, AbortAccept, rideVars, driverVars, topicVars, history, Fault, AcceptAt,
     TypeOK, AcceptPc
<1>2. ASSUME NEW q \in Rides PROVE RideInv(q)'
  BY DEF MatchingInv, AbortAccept, rideVars, topicVars, history, AcceptAt, RideInv, AfterClaim
<1>3. ASSUME NEW j \in Broadcasters, NEW q \in Rides PROVE RoundInv(j, q)'
  BY DEF MatchingInv, AbortAccept, rideVars, topicVars, history, Pc, RoundInv, Settled
<1>4. NeverUnarmed'
  BY DEF MatchingInv, AbortAccept, rideVars, topicVars, history, NeverUnarmed
<1> QED
  BY <1>1, <1>2, <1>3, <1>4 DEF MatchingInv

LEMMA SetCancelledKeeps ==
  ASSUME MatchingInv, NEW r \in Rides, SetCancelled(r) PROVE MatchingInv'
<1>1. TypeOK'
  BY DEF MatchingInv, SetCancelled, driverVars, topicVars, history, CancelAt, TypeOK, CancelPc
<1>2. ASSUME NEW q \in Rides PROVE RideInv(q)'
  BY DEF MatchingInv, SetCancelled, topicVars, history, CancelAt, RideInv
<1>3. ASSUME NEW j \in Broadcasters, NEW q \in Rides PROVE RoundInv(j, q)'
  BY DEF MatchingInv, SetCancelled, topicVars, history, Pc, RoundInv, Settled
<1>4. NeverUnarmed'
  BY DEF MatchingInv, SetCancelled, topicVars, history, NeverUnarmed
<1> QED
  BY <1>1, <1>2, <1>3, <1>4 DEF MatchingInv

LEMMA CancelDeletePendingKeeps ==
  ASSUME MatchingInv, NEW r \in Rides, CancelDeletePending(r) PROVE MatchingInv'
<1>1. TypeOK'
  BY MatchingAssumption DEF MatchingInv, CancelDeletePending, driverVars, topicVars, history,
     CancelAt, NoPending, TypeOK, CancelPc
<1>2. ASSUME NEW q \in Rides PROVE RideInv(q)'
  BY DEF MatchingInv, CancelDeletePending, topicVars, history, CancelAt, NoPending, RideInv
<1>3. ASSUME NEW j \in Broadcasters, NEW q \in Rides PROVE RoundInv(j, q)'
  BY DEF MatchingInv, CancelDeletePending, topicVars, history, Pc, RoundInv, Settled
<1>4. NeverUnarmed'
  BY DEF MatchingInv, CancelDeletePending, topicVars, history, NeverUnarmed, RideInv
<1> QED
  BY <1>1, <1>2, <1>3, <1>4 DEF MatchingInv

LEMMA CancelLookKeeps ==
  ASSUME MatchingInv, NEW r \in Rides, CancelLook(r) PROVE MatchingInv'
<1>1. TypeOK'
  BY DEF MatchingInv, CancelLook, rideVars, driverVars, topicVars, history, CancelAt, TypeOK,
     CancelPc
<1>2. ASSUME NEW q \in Rides PROVE RideInv(q)'
  BY DEF MatchingInv, CancelLook, rideVars, topicVars, history, CancelAt, RideInv
<1>3. ASSUME NEW j \in Broadcasters, NEW q \in Rides PROVE RoundInv(j, q)'
  BY DEF MatchingInv, CancelLook, rideVars, topicVars, history, Pc, RoundInv, Settled
<1>4. NeverUnarmed'
  BY DEF MatchingInv, CancelLook, rideVars, topicVars, history, NeverUnarmed
<1> QED
  BY <1>1, <1>2, <1>3, <1>4 DEF MatchingInv

LEMMA CancelRestoreKeeps ==
  ASSUME MatchingInv, NEW r \in Rides, CancelRestore(r) PROVE MatchingInv'
<1>1. TypeOK'
  BY DEF MatchingInv, CancelRestore, rideVars, topicVars, history, Fault, CancelAt, TypeOK,
     CancelPc, RideInv
<1>2. ASSUME NEW q \in Rides PROVE RideInv(q)'
  BY DEF MatchingInv, CancelRestore, rideVars, topicVars, history, CancelAt, RideInv
<1>3. ASSUME NEW j \in Broadcasters, NEW q \in Rides PROVE RoundInv(j, q)'
  BY DEF MatchingInv, CancelRestore, rideVars, topicVars, history, Pc, RoundInv, Settled
<1>4. NeverUnarmed'
  BY DEF MatchingInv, CancelRestore, rideVars, topicVars, history, NeverUnarmed
<1> QED
  BY <1>1, <1>2, <1>3, <1>4 DEF MatchingInv

LEMMA MarkCancelledKeeps ==
  ASSUME MatchingInv, NEW r \in Rides, MarkCancelled(r) PROVE MatchingInv'
<1>1. TypeOK'
  BY DEF MatchingInv, MarkCancelled, driverVars, history, CancelAt, TypeOK, RideStatus, CancelPc
<1>2. ASSUME NEW q \in Rides PROVE RideInv(q)'
  BY DEF MatchingInv, MarkCancelled, history, CancelAt, RideInv
<1>3. ASSUME NEW j \in Broadcasters, NEW q \in Rides PROVE RoundInv(j, q)'
  BY DEF MatchingInv, MarkCancelled, history, Pc, RoundInv, Settled
<1>4. NeverUnarmed'
  BY DEF MatchingInv, MarkCancelled, history, NeverUnarmed
<1> QED
  BY <1>1, <1>2, <1>3, <1>4 DEF MatchingInv

LEMMA AbortCancelKeeps ==
  ASSUME MatchingInv, NEW r \in Rides, AbortCancel(r) PROVE MatchingInv'
<1>1. TypeOK'
  BY DEF MatchingInv, AbortCancel, rideVars, driverVars, topicVars, history, Fault, CancelAt,
     TypeOK, CancelPc
<1>2. ASSUME NEW q \in Rides PROVE RideInv(q)'
  BY DEF MatchingInv, AbortCancel, rideVars, topicVars, history, CancelAt, RideInv
<1>3. ASSUME NEW j \in Broadcasters, NEW q \in Rides PROVE RoundInv(j, q)'
  BY DEF MatchingInv, AbortCancel, rideVars, topicVars, history, Pc, RoundInv, Settled
<1>4. NeverUnarmed'
  BY DEF MatchingInv, AbortCancel, rideVars, topicVars, history, NeverUnarmed
<1> QED
  BY <1>1, <1>2, <1>3, <1>4 DEF MatchingInv

LEMMA OfferExpiresKeeps ==
  ASSUME MatchingInv, NEW d \in Drivers, OfferExpires(d) PROVE MatchingInv'
<1>1. TypeOK'
  BY DEF MatchingInv, OfferExpires, rideVars, topicVars, history, TypeOK
<1>2. ASSUME NEW q \in Rides PROVE RideInv(q)'
  BY DEF MatchingInv, OfferExpires, rideVars, topicVars, history, RideInv
<1>3. ASSUME NEW j \in Broadcasters, NEW q \in Rides PROVE RoundInv(j, q)'
  BY DEF MatchingInv, OfferExpires, rideVars, topicVars, history, Pc, RoundInv, Settled
<1>4. NeverUnarmed'
  BY DEF MatchingInv, OfferExpires, rideVars, topicVars, history, NeverUnarmed
<1> QED
  BY <1>1, <1>2, <1>3, <1>4 DEF MatchingInv

LEMMA DeadlinePassesKeeps ==
  ASSUME MatchingInv, NEW r \in Rides, DeadlinePasses(r) PROVE MatchingInv'
<1>1. TypeOK'
  <2>1. pending \in [Rides -> [attempt : 0..MaxAttempts, due : BOOLEAN]]
    BY DEF MatchingInv, TypeOK
  <2>2. [pending[r] EXCEPT !.due = TRUE] \in [attempt : 0..MaxAttempts, due : BOOLEAN]
    BY <2>1
  <2>3. pending' \in [Rides -> [attempt : 0..MaxAttempts, due : BOOLEAN]]
    BY <2>1, <2>2 DEF DeadlinePasses
  <2> QED
    BY <2>3 DEF MatchingInv, DeadlinePasses, driverVars, topicVars, history, TypeOK
<1>2. ASSUME NEW q \in Rides PROVE RideInv(q)'
  <2>1. pending'[q].attempt = pending[q].attempt
    BY DEF MatchingInv, DeadlinePasses, TypeOK
  <2>2. UNCHANGED <<status, driver, claim, cancelled, announced, abandoned, made, accepting, cancelling>>
    BY DEF DeadlinePasses, topicVars, history
  <2>3. RideInv(q)
    BY DEF MatchingInv
  <2> QED
    BY <2>1, <2>2, <2>3 DEF RideInv
<1>3. ASSUME NEW j \in Broadcasters, NEW q \in Rides PROVE RoundInv(j, q)'
  <2>1. UNCHANGED <<round, status, requests, made, abandoned, claim, cancelled>>
    BY DEF DeadlinePasses, topicVars, history
  <2>2. RoundInv(j, q)
    BY DEF MatchingInv
  <2> QED
    BY <2>1, <2>2 DEF RoundInv, Pc, Settled
<1>4. NeverUnarmed'
  BY DEF MatchingInv, DeadlinePasses, topicVars, history, NeverUnarmed
<1> QED
  BY <1>1, <1>2, <1>3, <1>4 DEF MatchingInv

-----------------------------------------------------------------------------
\* Every step keeps the invariant.
LEMMA MatchingStep == MatchingInv /\ [Next]_vars => MatchingInv'
<1> SUFFICES ASSUME MatchingInv, [Next]_vars PROVE MatchingInv'
  OBVIOUS
<1>1. ASSUME NEW r \in Rides, RequestRide(r) PROVE MatchingInv'
  BY <1>1, RequestRideKeeps
<1>2. ASSUME NEW r \in Rides, WithdrawRide(r) PROVE MatchingInv'
  BY <1>2, WithdrawRideKeeps
<1>3. ASSUME NEW r \in Rides, DuplicateMessage(r) PROVE MatchingInv'
  BY <1>3, DuplicateMessageKeeps
<1>4. ASSUME NEW d \in Drivers, UpsertDriver(d) PROVE MatchingInv'
  BY <1>4, UpsertDriverKeeps
<1>5. ASSUME NEW r \in Rides, CreateRide(r) PROVE MatchingInv'
  BY <1>5, CreateRideKeeps
<1>6. ASSUME NEW k \in Broadcasters, NEW r \in Rides, ListPending(k, r) PROVE MatchingInv'
  BY <1>6, ListPendingKeeps
<1>7. ASSUME NEW k \in Broadcasters, NEW r \in Rides, RetryOne(k, r) PROVE MatchingInv'
  BY <1>7, RetryOneKeeps
<1>8. ASSUME NEW k \in Broadcasters, NEW r \in Rides, BroadcastOffers(k, r) PROVE MatchingInv'
  BY <1>8, BroadcastOffersKeeps
<1>9. ASSUME NEW k \in Broadcasters, NEW r \in Rides, NEW d \in Drivers, TryOffer(k, r, d) PROVE MatchingInv'
  BY <1>9, TryOfferKeeps
<1>10. ASSUME NEW k \in Broadcasters, NEW r \in Rides, SetPending(k, r) PROVE MatchingInv'
  BY <1>10, SetPendingKeeps
<1>11. ASSUME NEW k \in Broadcasters, NEW r \in Rides, MarkFailed(k, r) PROVE MatchingInv'
  BY <1>11, MarkFailedKeeps
<1>12. ASSUME NEW k \in Broadcasters, NEW r \in Rides, PublishMatchingFailed(k, r) PROVE MatchingInv'
  BY <1>12, PublishMatchingFailedKeeps
<1>13. ASSUME NEW k \in Broadcasters, NEW r \in Rides, DropPending(k, r) PROVE MatchingInv'
  BY <1>13, DropPendingKeeps
<1>14. ASSUME NEW k \in Broadcasters, NEW r \in Rides, AbortRound(k, r) PROVE MatchingInv'
  BY <1>14, AbortRoundKeeps
<1>15. ASSUME NEW r \in Rides, NEW d \in Drivers, AcceptRide(r, d) PROVE MatchingInv'
  BY <1>15, AcceptRideKeeps
<1>16. ASSUME NEW r \in Rides, NEW d \in Drivers, TryAccept(r, d) PROVE MatchingInv'
  BY <1>16, TryAcceptKeeps
<1>17. ASSUME NEW r \in Rides, NEW d \in Drivers, MarkMatched(r, d) PROVE MatchingInv'
  BY <1>17, MarkMatchedKeeps
<1>18. ASSUME NEW r \in Rides, NEW d \in Drivers, AcceptDeletePending(r, d) PROVE MatchingInv'
  BY <1>18, AcceptDeletePendingKeeps
<1>19. ASSUME NEW r \in Rides, NEW d \in Drivers, ClearCurrentOffer(r, d) PROVE MatchingInv'
  BY <1>19, ClearCurrentOfferKeeps
<1>20. ASSUME NEW r \in Rides, NEW d \in Drivers, RemoveOnline(r, d) PROVE MatchingInv'
  BY <1>20, RemoveOnlineKeeps
<1>21. ASSUME NEW r \in Rides, NEW d \in Drivers, PublishAccepted(r, d) PROVE MatchingInv'
  BY <1>21, PublishAcceptedKeeps
<1>22. ASSUME NEW r \in Rides, NEW d \in Drivers, AbortAccept(r, d) PROVE MatchingInv'
  BY <1>22, AbortAcceptKeeps
<1>23. ASSUME NEW r \in Rides, SetCancelled(r) PROVE MatchingInv'
  BY <1>23, SetCancelledKeeps
<1>24. ASSUME NEW r \in Rides, CancelDeletePending(r) PROVE MatchingInv'
  BY <1>24, CancelDeletePendingKeeps
<1>25. ASSUME NEW r \in Rides, CancelLook(r) PROVE MatchingInv'
  BY <1>25, CancelLookKeeps
<1>26. ASSUME NEW r \in Rides, CancelRestore(r) PROVE MatchingInv'
  BY <1>26, CancelRestoreKeeps
<1>27. ASSUME NEW r \in Rides, MarkCancelled(r) PROVE MatchingInv'
  BY <1>27, MarkCancelledKeeps
<1>28. ASSUME NEW r \in Rides, AbortCancel(r) PROVE MatchingInv'
  BY <1>28, AbortCancelKeeps
<1>29. ASSUME NEW d \in Drivers, OfferExpires(d) PROVE MatchingInv'
  BY <1>29, OfferExpiresKeeps
<1>30. ASSUME NEW r \in Rides, DeadlinePasses(r) PROVE MatchingInv'
  BY <1>30, DeadlinePassesKeeps
<1>31. CASE UNCHANGED vars
  BY <1>31 DEF vars, rideVars, driverVars, topicVars, history, MatchingInv, TypeOK, RideInv,
     RoundInv, NeverUnarmed, Settled, Pc
<1> QED
  BY <1>1, <1>2, <1>3, <1>4, <1>5, <1>6, <1>7, <1>8, <1>9, <1>10, <1>11, <1>12, <1>13, <1>14,
     <1>15, <1>16, <1>17, <1>18, <1>19, <1>20, <1>21, <1>22, <1>23, <1>24, <1>25, <1>26, <1>27,
     <1>28, <1>29, <1>30, <1>31 DEF Next, RoundStep, AcceptStep, CancelStep

\* The inductive invariant holds of every behaviour of matching-service.
LEMMA MatchingInvariant == Spec => []MatchingInv
BY MatchingInitially, MatchingStep, PTL DEF Spec

\* Every key of Redis, every message and every handler in flight has its type.
THEOREM MatchingTypes == Spec => []TypeOK
<1>1. MatchingInv => TypeOK
  BY DEF MatchingInv
<1> QED
  BY <1>1, MatchingInvariant, PTL

\* SET NX decides: whichever drivers accept, and wherever their requests fail, only the
\* one that holds the claim is told, recorded or announced as the driver of the ride.
THEOREM OneWinnerAlways == Spec => []OneWinner
<1>1. MatchingInv => OneWinner
  BY DEF MatchingInv, RideInv, OneWinner
<1> QED
  BY <1>1, MatchingInvariant, PTL

\* However many consumers' redeliveries and retry workers race, a ride is failed only
\* after each of its MaxAttempts rounds was broadcast and armed.
THEOREM FailsAfterAllRoundsAlways == Spec => []FailsAfterAllRounds
<1>1. MatchingInv => FailsAfterAllRounds
  BY DEF MatchingInv, RideInv, FailsAfterAllRounds
<1> QED
  BY <1>1, MatchingInvariant, PTL

\* No crash and no late delete leaves a searching ride without its pending_ride key,
\* unless its request will be handled again.
THEOREM NeverUnarmedAlways == Spec => []NeverUnarmed
<1>1. MatchingInv => NeverUnarmed
  BY DEF MatchingInv
<1> QED
  BY <1>1, MatchingInvariant, PTL

=============================================================================
