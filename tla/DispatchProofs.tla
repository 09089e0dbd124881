--------------------------- MODULE DispatchProofs ---------------------------
(***************************************************************************)
(* What ride-service and driver-service keep for every number of rides,    *)
(* drivers, shifts and repeated messages, in every order of delivery.      *)
(***************************************************************************)
EXTENDS Dispatch, FiniteSetTheorems, TLAPS

\* A ride.accepted names a driver.
AcceptNamesDriver == \A m \in sent : m.topic = "ride.accepted" => m.driver \in Drivers

\* driver_id is set by the match and by nothing else.
DriverFollowsStatus ==
  \A r \in Rides :
    /\ ride[r].status \in {"none", "Requested", "Failed"} => ride[r].driver = None
    /\ ride[r].status \in {"Matched", "InProgress", "Completed"} => ride[r].driver # None

\* A started ride is in progress until it is completed.
StartedIsUnderWay ==
  \A m \in sent : m.topic = "ride.started" => ride[m.ride].status \in {"InProgress", "Completed"}

\* Billing is paid only for rides that are over and had a driver.
PaidIsOver ==
  \A m \in sent : m.topic = "payment.completed" =>
    ride[m.ride].status \in {"Completed", "Cancelled"} /\ ride[m.ride].driver # None

\* EventsAgree with the sets of messages spelled out.
Agree ==
  \A r \in Rides :
    /\ ride[r].status \in {"Completed", "Cancelled"} <=>
         \E m \in sent : m.ride = r /\ m.topic \in {"ride.completed", "ride.cancelled"}
    /\ \A m \in sent : (m.ride = r /\ m.topic \in {"ride.completed", "ride.cancelled"}) =>
         /\ m.driver = ride[r].driver
         /\ ride[r].status = IF m.topic = "ride.completed" THEN "Completed" ELSE "Cancelled"

\* EventsAgree alone is not inductive: that a late ride.accepted cannot touch a
\* ride that is over needs where driver_id and the other messages come from.
RideInv ==
  /\ sent \subseteq Message
  /\ RideType
  /\ AcceptNamesDriver
  /\ DriverFollowsStatus
  /\ StartedIsUnderWay
  /\ PaidIsOver
  /\ BilledIsOver
  /\ Agree

-----------------------------------------------------------------------------
\* What it means to be one of the messages that end a ride.
LEMMA EndsAre ==
  \A r, m : m \in EndMessages(r) <=>
    m \in sent /\ m.ride = r /\ m.topic \in {"ride.completed", "ride.cancelled"}
BY DEF EndMessages, About, Sent

\* A message of the model has its three fields.
LEMMA MsgFields ==
  ASSUME NEW t \in Topic, NEW r \in Rides, NEW d \in Drivers \cup {None}
  PROVE  /\ Msg(t, r, d) \in Message
         /\ Msg(t, r, d).topic = t /\ Msg(t, r, d).ride = r /\ Msg(t, r, d).driver = d
BY DEF Msg, Message

\* Agree and EventsAgree say the same of a ride.
LEMMA AgreeIsEventsAgree ==
  ASSUME sent \subseteq Message, StartedIsUnderWay
  PROVE  Agree <=> EventsAgree
<1>1. ASSUME Agree PROVE EventsAgree
  <2> SUFFICES ASSUME NEW r \in Rides
               PROVE  /\ \A m, n \in EndMessages(r) : m = n
                      /\ ride[r].status \in {"Completed", "Cancelled"} <=> EndMessages(r) # {}
                      /\ \A m \in EndMessages(r) :
                           /\ m.driver = ride[r].driver
                           /\ ride[r].status = IF m.topic = "ride.completed" THEN "Completed" ELSE "Cancelled"
                           /\ m.topic = "ride.cancelled" => About(r, Sent("ride.started")) = {}
    BY DEF EventsAgree
  <2>1. \A m \in EndMessages(r) :
          /\ m.driver = ride[r].driver
          /\ ride[r].status = IF m.topic = "ride.completed" THEN "Completed" ELSE "Cancelled"
    BY <1>1, EndsAre DEF Agree
  <2>2. ASSUME NEW m \in EndMessages(r), NEW n \in EndMessages(r) PROVE m = n
    <3>1. m.topic = n.topic /\ m.driver = n.driver /\ m.ride = n.ride
      BY <2>1, EndsAre
    <3>2. m \in Message /\ n \in Message
      BY EndsAre
    <3> QED
      BY <3>1, <3>2 DEF Message
  <2>3. ride[r].status \in {"Completed", "Cancelled"} <=> EndMessages(r) # {}
    <3>1. EndMessages(r) # {} <=> \E m \in sent : m.ride = r /\ m.topic \in {"ride.completed", "ride.cancelled"}
      BY EndsAre
    <3> QED
      BY <1>1, <3>1 DEF Agree
  <2>4. ASSUME NEW m \in EndMessages(r), m.topic = "ride.cancelled" PROVE About(r, Sent("ride.started")) = {}
    BY <2>1, <2>4 DEF StartedIsUnderWay, About, Sent
  <2> QED
    BY <2>1, <2>2, <2>3, <2>4
<1>2. ASSUME EventsAgree PROVE Agree
  <2> SUFFICES ASSUME NEW r \in Rides
               PROVE  /\ ride[r].status \in {"Completed", "Cancelled"} <=>
                           \E m \in sent : m.ride = r /\ m.topic \in {"ride.completed", "ride.cancelled"}
                      /\ \A m \in sent : (m.ride = r /\ m.topic \in {"ride.completed", "ride.cancelled"}) =>
                           /\ m.driver = ride[r].driver
                           /\ ride[r].status = IF m.topic = "ride.completed" THEN "Completed" ELSE "Cancelled"
    BY DEF Agree
  <2>1. EndMessages(r) # {} <=> \E m \in sent : m.ride = r /\ m.topic \in {"ride.completed", "ride.cancelled"}
    BY EndsAre
  <2> QED
    BY <1>2, <2>1, EndsAre DEF EventsAgree
<1> QED
  BY <1>1, <1>2

-----------------------------------------------------------------------------
\* What a step does to the rows of ride.ride and to the topics.
NoRideEffect == UNCHANGED <<sent, ride>>

\* A command moves one ride from one status to another and says so.
Command(r, from, to, topic, d) ==
  /\ ride[r].status \in from
  /\ ride' = [ride EXCEPT ![r].status = to]
  /\ sent' = sent \cup {Msg(topic, r, d)}

CommandEffect ==
  \E r \in Rides :
    \/ Command(r, {"none"}, "Requested", "ride.requested", None)
    \/ Command(r, {"Requested", "Matched", "Failed"}, "Cancelled", "ride.cancelled", ride[r].driver)
    \/ \E d \in Drivers :
         /\ ride[r].driver = d
         /\ \/ Command(r, {"Matched"}, "InProgress", "ride.started", d)
            \/ Command(r, {"InProgress"}, "Completed", "ride.completed", d)

EventEffect ==
  /\ UNCHANGED sent
  /\ \E m \in sent :
       \/ m.topic = "ride.accepted" /\ MarkRideMatched(m)
       \/ FailRide(m)
       \/ m.topic = "payment.completed" /\ MarkRideBilled(m)

EnvironmentEffect ==
  /\ UNCHANGED ride
  /\ \E r \in Rides :
       \/ \E d \in Drivers : sent' = sent \cup {Msg("ride.accepted", r, d)}
       \/ sent' = sent \cup {Msg("ride.matching_failed", r, None)}
       \/ /\ \E m \in sent : /\ m.ride = r /\ m.driver # None
                            /\ m.topic \in {"ride.completed", "ride.cancelled"}
          /\ sent' = sent \cup {Msg("payment.completed", r, None)}

\* Every step has one of these effects on rides and topics.
LEMMA NextRideEffect ==
  ASSUME RideInv, [Next]_vars
  PROVE  NoRideEffect \/ CommandEffect \/ EventEffect \/ EnvironmentEffect
<1> USE DEF topicVars, Receive, Send
<1>1. CASE RideNext
  <2>1. ASSUME NEW r \in Rides, CreateRide(r) PROVE CommandEffect
    BY <2>1 DEF CreateRide, SetStatus, CommandEffect, Command
  <2>2. ASSUME NEW r \in Rides, CancelRide(r) PROVE CommandEffect
    <3>1. ride[r].status \in {"Requested", "Matched", "Failed"}
      BY <2>2 DEF CancelRide, Cancellable, RideInv, RideType, RideStatus
    <3> QED
      BY <2>2, <3>1 DEF CancelRide, SetStatus, CommandEffect, Command
  <2>3. ASSUME NEW r \in Rides, NEW d \in Drivers, StartRide(r, d) \/ CompleteRide(r, d) PROVE CommandEffect
    BY <2>3 DEF StartRide, CompleteRide, SetStatus, CommandEffect, Command
  <2>4. CASE RideAcceptedConsumer
    BY <2>4 DEF RideAcceptedConsumer, EventEffect
  <2>5. CASE RideMatchingFailedConsumer
    BY <2>5 DEF RideMatchingFailedConsumer, EventEffect
  <2>6. CASE PaymentCompletedConsumer
    BY <2>6 DEF PaymentCompletedConsumer, EventEffect
  <2> QED
    BY <1>1, <2>1, <2>2, <2>3, <2>4, <2>5, <2>6 DEF RideNext
<1>2. CASE DriverNext /\ UNCHANGED ride
  <2>1. ASSUME NEW d \in Drivers, CreateDriver(d) \/ RequestShift(d) \/ InsertShift(d) PROVE UNCHANGED sent
    BY <2>1 DEF CreateDriver, RequestShift, InsertShift
  <2>2. ASSUME NEW s \in Shifts, StartShift(s) \/ EndShift(s) \/ CommitEndShift(s) \/ AbortEndShift(s)
        PROVE  UNCHANGED sent
    BY <2>2 DEF StartShift, EndShift, CommitEndShift, AbortEndShift
  <2>3. ASSUME DriverRideAcceptedConsumer \/ RideCancelledConsumer \/ RideCompletedConsumer
        PROVE  UNCHANGED sent
    BY <2>3 DEF DriverRideAcceptedConsumer, RideCancelledConsumer, RideCompletedConsumer
  <2> QED
    BY <1>2, <2>1, <2>2, <2>3 DEF DriverNext, NoRideEffect
<1>3. CASE Environment /\ UNCHANGED <<ride, driverVars>>
  <2>1. ASSUME NEW r \in Rides, NEW d \in Drivers, MatchingAccepts(r, d), UNCHANGED ride
        PROVE  EnvironmentEffect
    BY <2>1 DEF MatchingAccepts, EnvironmentEffect
  <2>2. ASSUME NEW r \in Rides, MatchingGivesUp(r), UNCHANGED ride PROVE EnvironmentEffect
    BY <2>2 DEF MatchingGivesUp, EnvironmentEffect
  <2>3. ASSUME NEW r \in Rides, BillingPaid(r), UNCHANGED ride PROVE EnvironmentEffect
    <3>1. \E m \in sent : m.ride = r /\ m.driver # None /\ m.topic \in {"ride.completed", "ride.cancelled"}
      BY <2>3 DEF BillingPaid, About, Sent
    <3> QED
      BY <2>3, <3>1 DEF BillingPaid, EnvironmentEffect
  <2> QED
    BY <1>3, <2>1, <2>2, <2>3 DEF Environment
<1>4. CASE UNCHANGED vars
  BY <1>4 DEF vars, NoRideEffect
<1> QED
  BY <1>1, <1>2, <1>3, <1>4 DEF Next

\* Writing the status of one row leaves its other columns and all other rows alone.
LEMMA RowWrite ==
  ASSUME RideType, NEW r \in Rides, NEW to \in RideStatus,
         ride' = [ride EXCEPT ![r].status = to]
  PROVE  /\ RideType'
         /\ ride'[r].status = to
         /\ ride'[r].driver = ride[r].driver
         /\ ride'[r].billed = ride[r].billed
         /\ \A q \in Rides : q # r => ride'[q] = ride[q]
BY DEF RideType

\* A command keeps the rows and the messages in step.
LEMMA CommandStep ==
  ASSUME RideInv, CommandEffect
  PROVE  RideInv'
<1>1. PICK r \in Rides, from \in SUBSET RideStatus, to \in RideStatus, t \in Topic,
           d \in Drivers \cup {None} :
        /\ Command(r, from, to, t, d)
        /\ \/ from = {"none"} /\ to = "Requested" /\ t = "ride.requested"
           \/ /\ from = {"Requested", "Matched", "Failed"} /\ to = "Cancelled"
              /\ t = "ride.cancelled" /\ d = ride[r].driver
           \/ from = {"Matched"} /\ to = "InProgress" /\ t = "ride.started" /\ d = ride[r].driver
           \/ from = {"InProgress"} /\ to = "Completed" /\ t = "ride.completed" /\ d = ride[r].driver
  <2>1. PICK r \in Rides :
          \/ Command(r, {"none"}, "Requested", "ride.requested", None)
          \/ Command(r, {"Requested", "Matched", "Failed"}, "Cancelled", "ride.cancelled", ride[r].driver)
          \/ \E d \in Drivers :
               /\ ride[r].driver = d
               /\ \/ Command(r, {"Matched"}, "InProgress", "ride.started", d)
                  \/ Command(r, {"InProgress"}, "Completed", "ride.completed", d)
    BY DEF CommandEffect
  <2>2. ride[r].driver \in Drivers \cup {None}
    BY DEF RideInv, RideType
  <2> QED
    BY <2>1, <2>2 DEF RideStatus, Topic
<1> DEFINE m == Msg(t, r, d)
<1>2. /\ m \in Message
      /\ m.topic = t /\ m.ride = r /\ m.driver = d
  BY MsgFields
<1>3. /\ RideType'
      /\ ride'[r].status = to
      /\ ride'[r].driver = ride[r].driver
      /\ ride'[r].billed = ride[r].billed
      /\ \A q \in Rides : q # r => ride'[q] = ride[q]
  BY <1>1, RowWrite DEF Command, RideInv
<1>4. ride[r].status \in from /\ sent' = sent \cup {m}
  BY <1>1 DEF Command
<1> HIDE DEF m
<1>5. (sent \subseteq Message)' /\ \A n \in sent' : n.ride \in Rides
  BY <1>2, <1>4 DEF RideInv, Message
<1>6. AcceptNamesDriver'
  BY <1>1, <1>2, <1>4 DEF RideInv, AcceptNamesDriver
<1>7. DriverFollowsStatus'
  BY <1>1, <1>3, <1>4 DEF RideInv, DriverFollowsStatus
<1>8. StartedIsUnderWay'
  BY <1>1, <1>2, <1>3, <1>4, <1>5 DEF RideInv, StartedIsUnderWay
<1>9. PaidIsOver'
  BY <1>1, <1>2, <1>3, <1>4, <1>5 DEF RideInv, PaidIsOver
<1>10. BilledIsOver'
  BY <1>1, <1>3, <1>4 DEF RideInv, BilledIsOver
<1>11. Agree'
  <2> SUFFICES ASSUME NEW q \in Rides
               PROVE  /\ ride'[q].status \in {"Completed", "Cancelled"} <=>
                           \E n \in sent' : n.ride = q /\ n.topic \in {"ride.completed", "ride.cancelled"}
                      /\ \A n \in sent' : (n.ride = q /\ n.topic \in {"ride.completed", "ride.cancelled"}) =>
                           /\ n.driver = ride'[q].driver
                           /\ ride'[q].status = IF n.topic = "ride.completed" THEN "Completed" ELSE "Cancelled"
    BY DEF Agree
  <2>1. CASE q # r
    BY <2>1, <1>2, <1>3, <1>4 DEF RideInv, Agree
  <2>2. CASE q = r
    <3>1. \A n \in sent : ~(n.ride = r /\ n.topic \in {"ride.completed", "ride.cancelled"})
      BY <1>1, <1>4 DEF RideInv, Agree
    <3> QED
      BY <2>2, <3>1, <1>1, <1>2, <1>3, <1>4
  <2> QED
    BY <2>1, <2>2
<1> QED
  BY <1>3, <1>5, <1>6, <1>7, <1>8, <1>9, <1>10, <1>11 DEF RideInv

\* A ride that is not over before and after a step has no message that it is.
LEMMA OpenRowStep ==
  ASSUME Agree, UNCHANGED sent, NEW r \in Rides,
         ride[r].status \notin {"Completed", "Cancelled"},
         ride'[r].status \notin {"Completed", "Cancelled"},
         \A q \in Rides : q # r => ride'[q] = ride[q]
  PROVE  Agree'
<1>1. \A m \in sent : ~(m.ride = r /\ m.topic \in {"ride.completed", "ride.cancelled"})
  BY DEF Agree
<1> SUFFICES ASSUME NEW q \in Rides
             PROVE  /\ ride'[q].status \in {"Completed", "Cancelled"} <=>
                         \E m \in sent : m.ride = q /\ m.topic \in {"ride.completed", "ride.cancelled"}
                    /\ \A m \in sent : (m.ride = q /\ m.topic \in {"ride.completed", "ride.cancelled"}) =>
                         /\ m.driver = ride'[q].driver
                         /\ ride'[q].status = IF m.topic = "ride.completed" THEN "Completed" ELSE "Cancelled"
  BY DEF Agree
<1>2. CASE q = r
  BY <1>1, <1>2
<1>3. CASE q # r
  BY <1>3 DEF Agree
<1> QED
  BY <1>2, <1>3

\* A late or repeated event keeps them in step as well.
LEMMA EventStep ==
  ASSUME RideInv, EventEffect
  PROVE  RideInv'
<1>1. PICK m \in sent :
        \/ m.topic = "ride.accepted" /\ MarkRideMatched(m)
        \/ FailRide(m)
        \/ m.topic = "payment.completed" /\ MarkRideBilled(m)
  BY DEF EventEffect
<1>2. sent' = sent /\ m.ride \in Rides /\ \A n \in sent : n.ride \in Rides
  BY DEF EventEffect, RideInv, Message
<1>3. CASE UNCHANGED ride
  BY <1>2, <1>3 DEF RideInv, RideType, AcceptNamesDriver, DriverFollowsStatus, StartedIsUnderWay,
                    PaidIsOver, BilledIsOver, Agree
<1>4. CASE m.topic = "ride.accepted" /\ MarkRideMatched(m) /\ ~UNCHANGED ride
  <2>1. /\ ride[m.ride].status = "Requested" /\ m.driver \in Drivers
        /\ ride' = [ride EXCEPT ![m.ride].status = "Matched", ![m.ride].driver = m.driver]
    BY <1>4 DEF MarkRideMatched, Unmatched, RideInv, AcceptNamesDriver
  <2>2. /\ RideType'
        /\ ride'[m.ride].status = "Matched"
        /\ ride'[m.ride].driver = m.driver
        /\ ride'[m.ride].billed = ride[m.ride].billed
        /\ \A q \in Rides : q # m.ride => ride'[q] = ride[q]
    BY <1>2, <2>1 DEF RideInv, RideType, RideStatus
  <2>3. DriverFollowsStatus'
    <3> SUFFICES ASSUME NEW q \in Rides
                 PROVE  /\ ride'[q].status \in {"none", "Requested", "Failed"} => ride'[q].driver = None
                        /\ ride'[q].status \in {"Matched", "InProgress", "Completed"} =>
                             ride'[q].driver # None
      BY DEF DriverFollowsStatus
    <3>1. CASE q = m.ride
      BY <2>1, <2>2, <3>1, TopicsAssumption
    <3>2. CASE q # m.ride
      BY <2>2, <3>2 DEF RideInv, DriverFollowsStatus
    <3> QED
      BY <3>1, <3>2
  <2>4. \A n \in sent : n.topic \in {"ride.started", "payment.completed"} => n.ride # m.ride
    BY <2>1 DEF RideInv, StartedIsUnderWay, PaidIsOver
  <2>5. StartedIsUnderWay'
    BY <1>2, <2>2, <2>4 DEF RideInv, StartedIsUnderWay
  <2>6. PaidIsOver'
    BY <1>2, <2>2, <2>4 DEF RideInv, PaidIsOver
  <2>7. BilledIsOver'
    BY <1>2, <2>1, <2>2 DEF RideInv, BilledIsOver
  <2>8. Agree'
    BY <1>2, <2>1, <2>2, OpenRowStep DEF RideInv
  <2> QED
    BY <1>2, <2>2, <2>3, <2>5, <2>6, <2>7, <2>8 DEF RideInv, AcceptNamesDriver
<1>5. CASE FailRide(m) /\ ~UNCHANGED ride
  <2>1. ride[m.ride].status = "Requested" /\ ride' = [ride EXCEPT ![m.ride].status = "Failed"]
    BY <1>5 DEF FailRide, Unmatched
  <2>2. /\ RideType'
        /\ ride'[m.ride].status = "Failed"
        /\ ride'[m.ride].driver = ride[m.ride].driver
        /\ ride'[m.ride].billed = ride[m.ride].billed
        /\ \A q \in Rides : q # m.ride => ride'[q] = ride[q]
    BY <1>2, <2>1, RowWrite DEF RideInv, RideStatus
  <2>3. DriverFollowsStatus'
    BY <1>2, <2>1, <2>2 DEF RideInv, DriverFollowsStatus
  <2>4. StartedIsUnderWay' /\ PaidIsOver' /\ BilledIsOver'
    BY <1>2, <2>1, <2>2 DEF RideInv, StartedIsUnderWay, PaidIsOver, BilledIsOver
  <2>5. Agree'
    BY <1>2, <2>1, <2>2, OpenRowStep DEF RideInv
  <2> QED
    BY <1>2, <2>2, <2>3, <2>4, <2>5 DEF RideInv, AcceptNamesDriver
<1>6. CASE m.topic = "payment.completed" /\ MarkRideBilled(m)
  <2>1. /\ RideType'
        /\ \A q \in Rides : ride'[q].status = ride[q].status /\ ride'[q].driver = ride[q].driver
        /\ \A q \in Rides : q # m.ride => ride'[q] = ride[q]
    BY <1>2, <1>6 DEF MarkRideBilled, RideInv, RideType
  <2>2. DriverFollowsStatus'
    BY <2>1 DEF RideInv, DriverFollowsStatus
  <2>3. StartedIsUnderWay' /\ PaidIsOver'
    BY <1>2, <2>1 DEF RideInv, StartedIsUnderWay, PaidIsOver
  <2>4. BilledIsOver'
    BY <1>2, <1>6, <2>1 DEF RideInv, PaidIsOver, BilledIsOver
  <2>5. Agree'
    BY <1>2, <2>1 DEF RideInv, Agree
  <2> QED
    BY <1>2, <2>1, <2>2, <2>3, <2>4, <2>5 DEF RideInv, AcceptNamesDriver
<1> QED
  BY <1>1, <1>3, <1>4, <1>5, <1>6

\* So does what matching- and billing-service publish.
LEMMA EnvironmentStep ==
  ASSUME RideInv, EnvironmentEffect
  PROVE  RideInv'
<1>1. PICK r \in Rides :
        \/ \E d \in Drivers : sent' = sent \cup {Msg("ride.accepted", r, d)}
        \/ sent' = sent \cup {Msg("ride.matching_failed", r, None)}
        \/ /\ \E m \in sent : /\ m.ride = r /\ m.driver # None
                             /\ m.topic \in {"ride.completed", "ride.cancelled"}
           /\ sent' = sent \cup {Msg("payment.completed", r, None)}
  BY DEF EnvironmentEffect
<1>2. PICK m \in Message :
        /\ sent' = sent \cup {m} /\ m.ride = r
        /\ \/ m.topic = "ride.accepted" /\ m.driver \in Drivers
           \/ m.topic = "ride.matching_failed"
           \/ /\ m.topic = "payment.completed"
              /\ \E n \in sent : /\ n.ride = r /\ n.driver # None
                               /\ n.topic \in {"ride.completed", "ride.cancelled"}
  <2>1. "ride.accepted" \in Topic /\ "ride.matching_failed" \in Topic /\ "payment.completed" \in Topic
    BY DEF Topic
  <2>2. CASE \E d \in Drivers : sent' = sent \cup {Msg("ride.accepted", r, d)}
    BY <2>1, <2>2, MsgFields
  <2>3. CASE sent' = sent \cup {Msg("ride.matching_failed", r, None)}
    BY <2>1, <2>3, MsgFields
  <2>4. CASE /\ \E n \in sent : /\ n.ride = r /\ n.driver # None
                              /\ n.topic \in {"ride.completed", "ride.cancelled"}
             /\ sent' = sent \cup {Msg("payment.completed", r, None)}
    BY <2>1, <2>4, MsgFields
  <2> QED
    BY <1>1, <2>2, <2>3, <2>4
<1>3. UNCHANGED ride
  BY DEF EnvironmentEffect
<1>4. RideType' /\ DriverFollowsStatus' /\ BilledIsOver'
  BY <1>3 DEF RideInv, RideType, DriverFollowsStatus, BilledIsOver
<1>5. (sent \subseteq Message)' /\ AcceptNamesDriver' /\ StartedIsUnderWay'
  BY <1>2, <1>3 DEF RideInv, AcceptNamesDriver, StartedIsUnderWay
<1>6. PaidIsOver'
  BY <1>2, <1>3 DEF RideInv, PaidIsOver, Agree
<1>7. Agree'
  BY <1>2, <1>3 DEF RideInv, Agree
<1> QED
  BY <1>4, <1>5, <1>6, <1>7 DEF RideInv

-----------------------------------------------------------------------------
\* No ride and no message exists at first.
LEMMA RideInitial == Init => RideInv
BY DEF Init, RideInit, RideInv, RideType, RideStatus, AcceptNamesDriver, DriverFollowsStatus,
       StartedIsUnderWay, PaidIsOver, BilledIsOver, Agree

\* Every step preserves RideInv.
LEMMA RideStep == RideInv /\ [Next]_vars => RideInv'
<1> SUFFICES ASSUME RideInv, [Next]_vars PROVE RideInv'
  OBVIOUS
<1>1. CASE NoRideEffect
  BY <1>1 DEF NoRideEffect, RideInv, RideType, AcceptNamesDriver, DriverFollowsStatus,
              StartedIsUnderWay, PaidIsOver, BilledIsOver, Agree
<1> QED
  BY <1>1, NextRideEffect, CommandStep, EventStep, EnvironmentStep

\* The inductive invariant holds in every reachable state.
THEOREM RideInvariance == Spec => []RideInv
  BY RideInitial, RideStep, PTL DEF Spec

\* A ride ends once, and its row stays what its message said, whatever is late
\* or repeated.
THEOREM EventsAlwaysAgree == Spec => []EventsAgree
<1>1. RideInv => EventsAgree
  BY AgreeIsEventsAgree DEF RideInv
<1> QED
  BY <1>1, RideInvariance, PTL

\* Only rides that are over and had a driver are billed.
THEOREM OnlyOverIsBilled == Spec => []BilledIsOver
<1>1. RideInv => BilledIsOver
  BY DEF RideInv
<1> QED
  BY <1>1, RideInvariance, PTL

-----------------------------------------------------------------------------
\* The driver's side: types, the link between status and serves, and the shifts.
OnRideServes == \A d \in Drivers : status[d] = "OnRide" <=> serves[d] # None

DriverInv ==
  /\ handled \in [Groups -> SUBSET Message]
  /\ faults \in 0..MaxFaults
  /\ DriverType
  /\ OnRideServes
  /\ ShiftsBounded

\* The shifts of a driver are finitely many.
LEMMA ActiveFinite ==
  ASSUME NEW d
  PROVE  IsFiniteSet(ActiveShifts(d)) /\ Cardinality(ActiveShifts(d)) \in Nat
<1>1. ActiveShifts(d) \subseteq Shifts
  BY DEF ActiveShifts
<1> QED
  BY <1>1, DriverServiceAssumption, FS_Subset, FS_CardinalityType

\* A message that is received is handled by its group, once more if by a fault.
LEMMA ReceiveType ==
  ASSUME RideInv, DriverInv, NEW g \in Groups, NEW m \in sent, Receive(g, m)
  PROVE  handled' \in [Groups -> SUBSET Message] /\ faults' \in 0..MaxFaults
<1>1. m \in Message
  BY DEF RideInv
<1>2. CASE FirstTime(g, m)
  BY <1>1, <1>2 DEF FirstTime, DriverInv
<1>3. CASE Again(g, m)
  BY <1>3, TopicsAssumption DEF Again, Fault, DriverInv
<1> QED
  BY <1>2, <1>3 DEF Receive

\* Steps that leave shifts and requests alone keep their bound.
LEMMA ShiftsUnchanged ==
  ASSUME ShiftsBounded, UNCHANGED <<shift, creating>>
  PROVE  ShiftsBounded'
BY DEF ShiftsBounded, ActiveShifts

\* The guarded update and its history keep status and serves in step.
LEMMA ReleaseStep ==
  ASSUME DriverType, OnRideServes, NEW d \in Drivers, Release(d)
  PROVE  /\ status' \in [Drivers -> {"none", "Offline", "Online", "OnRide"}]
         /\ serves' \in [Drivers -> Rides \cup {None}]
         /\ OnRideServes'
BY DEF DriverType, OnRideServes, Release, UpdateDriverStatus, Flips

\* Creating drivers and shifts.
LEMMA CreateStep ==
  ASSUME DriverInv, NEW d \in Drivers, CreateDriver(d) \/ RequestShift(d) \/ InsertShift(d)
  PROVE  DriverInv'
<1> USE DEF topicVars, shiftVars
<1>1. CASE CreateDriver(d)
  <2>1. ShiftsBounded'
    BY <1>1, ShiftsUnchanged DEF CreateDriver, DriverInv
  <2> QED
    BY <1>1, <2>1 DEF CreateDriver, DriverInv, DriverType, OnRideServes
<1>2. CASE RequestShift(d)
  <2>1. ShiftsBounded'
    <3> SUFFICES ASSUME NEW e \in Drivers
                 PROVE  Cardinality(ActiveShifts(e)') + creating'[e] <= MaxRequests
      BY DEF ShiftsBounded
    <3>1. ActiveShifts(e)' = ActiveShifts(e)
      BY <1>2 DEF RequestShift, ActiveShifts
    <3>2. CASE e # d
      BY <1>2, <3>1, <3>2 DEF RequestShift, DriverInv, ShiftsBounded, DriverType
    <3>3. CASE e = d
      <4>1. Cardinality(ActiveShifts(e)) = 0
        BY <1>2, <3>3, FS_EmptySet DEF RequestShift, HasActiveShift
      <4> QED
        BY <1>2, <3>1, <3>3, <4>1, DriverServiceAssumption DEF RequestShift, DriverInv, DriverType
    <3> QED
      BY <3>2, <3>3
  <2>2. creating' \in [Drivers -> 0..MaxRequests]
    BY <1>2, DriverServiceAssumption DEF RequestShift, DriverInv, DriverType
  <2> QED
    BY <1>2, <2>1, <2>2 DEF RequestShift, DriverInv, DriverType, OnRideServes
<1>3. CASE InsertShift(d)
  <2>1. creating' \in [Drivers -> 0..MaxRequests]
    BY <1>3, DriverServiceAssumption DEF InsertShift, DriverInv, DriverType
  <2>2. faults' \in 0..MaxFaults
    BY <1>3, TopicsAssumption DEF InsertShift, Fault, DriverInv
  <2>3. shift' \in [Shifts -> [driver : Drivers \cup {None}, ended : BOOLEAN]]
    BY <1>3 DEF InsertShift, DriverInv, DriverType
  <2>4. ShiftsBounded'
    <3>1. CASE UNCHANGED shift
      <4> SUFFICES ASSUME NEW e \in Drivers
                   PROVE  Cardinality(ActiveShifts(e)') + creating'[e] <= MaxRequests
        BY DEF ShiftsBounded
      <4>1. ActiveShifts(e)' = ActiveShifts(e)
        BY <3>1 DEF ActiveShifts
      <4>2. creating'[e] <= creating[e] /\ creating'[e] \in Nat /\ creating[e] \in Nat
        BY <1>3, <2>1 DEF InsertShift, DriverInv, DriverType
      <4> QED
        BY <4>1, <4>2, ActiveFinite, DriverServiceAssumption DEF DriverInv, ShiftsBounded
    <3>2. ASSUME NEW s \in Shifts, shift[s].driver = None, shift' = [shift EXCEPT ![s].driver = d]
          PROVE  ShiftsBounded'
      <4> SUFFICES ASSUME NEW e \in Drivers
                   PROVE  Cardinality(ActiveShifts(e)') + creating'[e] <= MaxRequests
        BY DEF ShiftsBounded
      <4>1. CASE e # d
        <5>1. ActiveShifts(e)' = ActiveShifts(e)
          BY <3>2, <4>1, TopicsAssumption DEF ActiveShifts, DriverInv, DriverType
        <5> QED
          BY <1>3, <4>1, <5>1 DEF InsertShift, DriverInv, DriverType, ShiftsBounded
      <4>2. CASE e = d
        <5>1. ActiveShifts(e)' \subseteq ActiveShifts(e) \cup {s}
          BY <3>2, <4>2 DEF ActiveShifts, DriverInv, DriverType
        <5>2. IsFiniteSet(ActiveShifts(e) \cup {s}) /\ Cardinality(ActiveShifts(e) \cup {s}) <= Cardinality(ActiveShifts(e)) + 1
          <6>1. IsFiniteSet(ActiveShifts(e)) /\ Cardinality(ActiveShifts(e)) \in Nat
            BY ActiveFinite
          <6>2. /\ IsFiniteSet(ActiveShifts(e) \cup {s})
                /\ Cardinality(ActiveShifts(e) \cup {s}) =
                     IF s \in ActiveShifts(e) THEN Cardinality(ActiveShifts(e)) ELSE Cardinality(ActiveShifts(e)) + 1
            BY <6>1, FS_AddElement
          <6> QED
            BY <6>1, <6>2
        <5>3. IsFiniteSet(ActiveShifts(e)') /\ Cardinality(ActiveShifts(e)') <= Cardinality(ActiveShifts(e) \cup {s})
          BY <5>1, <5>2, FS_Subset
        <5>4. /\ Cardinality(ActiveShifts(e)') \in Nat /\ Cardinality(ActiveShifts(e) \cup {s}) \in Nat
              /\ Cardinality(ActiveShifts(e)) \in Nat
          BY <5>2, <5>3, ActiveFinite, FS_CardinalityType
        <5>5. creating'[e] = creating[e] - 1 /\ creating[e] \in Nat
          BY <1>3, <4>2 DEF InsertShift, DriverInv, DriverType
        <5> QED
          BY <5>2, <5>3, <5>4, <5>5, DriverServiceAssumption DEF DriverInv, ShiftsBounded
      <4> QED
        BY <4>1, <4>2
    <3> QED
      BY <1>3, <3>1, <3>2 DEF InsertShift
  <2> QED
    BY <1>3, <2>1, <2>2, <2>3, <2>4 DEF InsertShift, DriverInv, DriverType, OnRideServes
<1> QED
  BY <1>1, <1>2, <1>3

\* Starting and ending shifts.
LEMMA ShiftStep ==
  ASSUME DriverInv, NEW s \in Shifts,
         StartShift(s) \/ EndShift(s) \/ CommitEndShift(s) \/ AbortEndShift(s)
  PROVE  DriverInv'
<1> USE DEF topicVars, shiftVars
<1>1. CASE StartShift(s)
  <2>1. ShiftsBounded'
    BY <1>1, ShiftsUnchanged DEF StartShift, DriverInv
  <2>2. announced' \in [Shifts -> SUBSET {"Online", "Ended"}]
    BY <1>1 DEF StartShift, DriverInv, DriverType
  <2>3. status' \in [Drivers -> {"none", "Offline", "Online", "OnRide"}] /\ OnRideServes'
    BY <1>1 DEF StartShift, UpdateDriverStatus, DriverInv, DriverType, OnRideServes
  <2> QED
    BY <1>1, <2>1, <2>2, <2>3 DEF StartShift, DriverInv, DriverType
<1>2. CASE EndShift(s)
  <2>1. shift' \in [Shifts -> [driver : Drivers \cup {None}, ended : BOOLEAN]] /\ ending' \subseteq Shifts
    BY <1>2 DEF EndShift, DriverInv, DriverType
  <2>2. ShiftsBounded'
    <3> SUFFICES ASSUME NEW e \in Drivers
                 PROVE  Cardinality(ActiveShifts(e)') + creating'[e] <= MaxRequests
      BY DEF ShiftsBounded
    <3>1. ActiveShifts(e)' \subseteq ActiveShifts(e)
      BY <1>2 DEF EndShift, ActiveShifts, DriverInv, DriverType
    <3>2. IsFiniteSet(ActiveShifts(e)') /\ Cardinality(ActiveShifts(e)') <= Cardinality(ActiveShifts(e))
      BY <3>1, ActiveFinite, FS_Subset
    <3>3. Cardinality(ActiveShifts(e)') \in Nat /\ Cardinality(ActiveShifts(e)) \in Nat
      BY <3>2, ActiveFinite, FS_CardinalityType
    <3>4. creating'[e] = creating[e] /\ creating[e] \in Nat
      BY <1>2 DEF EndShift, DriverInv, DriverType
    <3> QED
      BY <3>2, <3>3, <3>4, DriverServiceAssumption DEF DriverInv, ShiftsBounded
  <2> QED
    BY <1>2, <2>1, <2>2 DEF EndShift, DriverInv, DriverType, OnRideServes
<1>3. CASE CommitEndShift(s)
  <2>1. ShiftsBounded'
    BY <1>3, ShiftsUnchanged DEF CommitEndShift, DriverInv
  <2>2. announced' \in [Shifts -> SUBSET {"Online", "Ended"}]
    BY <1>3 DEF CommitEndShift, DriverInv, DriverType
  <2>3. status' \in [Drivers -> {"none", "Offline", "Online", "OnRide"}] /\ OnRideServes'
    BY <1>3 DEF CommitEndShift, UpdateDriverStatus, DriverInv, DriverType, OnRideServes
  <2> QED
    BY <1>3, <2>1, <2>2, <2>3 DEF CommitEndShift, DriverInv, DriverType
<1>4. CASE AbortEndShift(s)
  <2>1. ShiftsBounded'
    BY <1>4, ShiftsUnchanged DEF AbortEndShift, DriverInv
  <2>2. faults' \in 0..MaxFaults
    BY <1>4, TopicsAssumption DEF AbortEndShift, Fault, DriverInv
  <2> QED
    BY <1>4, <2>1, <2>2 DEF AbortEndShift, DriverInv, DriverType, OnRideServes
<1> QED
  BY <1>1, <1>2, <1>3, <1>4

\* The events of a ride.  That a ride.completed names a driver comes from RideInv.
LEMMA RideEventStep ==
  ASSUME RideInv, DriverInv,
         DriverRideAcceptedConsumer \/ RideCancelledConsumer \/ RideCompletedConsumer
  PROVE  DriverInv'
<1> USE DEF shiftVars
<1>1. CASE DriverRideAcceptedConsumer
  <2>1. PICK m \in sent : m.topic = "ride.accepted" /\ Receive("driver", m) /\ ProcessRideAccepted(m)
    BY <1>1 DEF DriverRideAcceptedConsumer
  <2>2. m.driver \in Drivers /\ m.ride \in Rides
    BY <2>1 DEF RideInv, AcceptNamesDriver, Message
  <2>3. handled' \in [Groups -> SUBSET Message] /\ faults' \in 0..MaxFaults
    BY <2>1, ReceiveType DEF Groups
  <2>4. ShiftsBounded'
    BY <2>1, ShiftsUnchanged DEF ProcessRideAccepted, DriverInv
  <2>5. /\ status' \in [Drivers -> {"none", "Offline", "Online", "OnRide"}]
        /\ serves' \in [Drivers -> Rides \cup {None}]
        /\ OnRideServes'
    BY <2>1, <2>2, TopicsAssumption
       DEF ProcessRideAccepted, UpdateDriverStatus, Flips, DriverInv, DriverType, OnRideServes
  <2> QED
    BY <2>1, <2>3, <2>4, <2>5 DEF ProcessRideAccepted, DriverInv, DriverType
<1>2. CASE RideCancelledConsumer
  <2>1. PICK m \in sent : m.topic = "ride.cancelled" /\ Receive("driver", m) /\ ProcessRideCancelled(m)
    BY <1>2 DEF RideCancelledConsumer
  <2>2. m.driver \in Drivers \cup {None}
    BY DEF RideInv, Message
  <2>3. handled' \in [Groups -> SUBSET Message] /\ faults' \in 0..MaxFaults
    BY <2>1, ReceiveType DEF Groups
  <2>4. ShiftsBounded'
    BY <2>1, ShiftsUnchanged DEF ProcessRideCancelled, DriverInv
  <2>5. /\ status' \in [Drivers -> {"none", "Offline", "Online", "OnRide"}]
        /\ serves' \in [Drivers -> Rides \cup {None}]
        /\ OnRideServes'
    <3>1. CASE m.driver = None
      BY <2>1, <3>1 DEF ProcessRideCancelled, DriverInv, DriverType, OnRideServes
    <3>2. CASE m.driver # None
      BY <2>1, <2>2, <3>2, ReleaseStep DEF ProcessRideCancelled, DriverInv
    <3> QED
      BY <3>1, <3>2
  <2> QED
    BY <2>1, <2>3, <2>4, <2>5 DEF ProcessRideCancelled, DriverInv, DriverType
<1>3. CASE RideCompletedConsumer
  <2>1. PICK m \in sent : m.topic = "ride.completed" /\ Receive("driver", m) /\ ProcessRideCompleted(m)
    BY <1>3 DEF RideCompletedConsumer
  <2>2. m.driver \in Drivers
    <3>1. m.driver \in Drivers \cup {None} /\ m.ride \in Rides
      BY DEF RideInv, Message
    <3>2. ride[m.ride].status = "Completed" /\ m.driver = ride[m.ride].driver
      BY <2>1, <3>1 DEF RideInv, Agree
    <3> QED
      BY <3>1, <3>2 DEF RideInv, DriverFollowsStatus
  <2>3. handled' \in [Groups -> SUBSET Message] /\ faults' \in 0..MaxFaults
    BY <2>1, ReceiveType DEF Groups
  <2>4. ShiftsBounded'
    BY <2>1, ShiftsUnchanged DEF ProcessRideCompleted, DriverInv
  <2>5. /\ status' \in [Drivers -> {"none", "Offline", "Online", "OnRide"}]
        /\ serves' \in [Drivers -> Rides \cup {None}]
        /\ OnRideServes'
    BY <2>1, <2>2, ReleaseStep DEF ProcessRideCompleted, DriverInv
  <2>6. counted' \in [Drivers -> Nat] /\ recounted' \in [Drivers -> Nat]
    BY <2>1, <2>2 DEF ProcessRideCompleted, DriverInv, DriverType
  <2> QED
    BY <2>1, <2>3, <2>4, <2>5, <2>6 DEF ProcessRideCompleted, DriverInv, DriverType
<1> QED
  BY <1>1, <1>2, <1>3

\* No driver and no shift exists at first.
LEMMA DriverInitial == Init => DriverInv
<1> SUFFICES ASSUME Init PROVE DriverInv
  OBVIOUS
<1>1. \A d \in Drivers : Cardinality(ActiveShifts(d)) = 0
  <2> SUFFICES ASSUME NEW d \in Drivers PROVE ActiveShifts(d) = {}
    BY FS_EmptySet
  <2> QED
    BY TopicsAssumption DEF Init, DriverInit, ActiveShifts
<1>2. ShiftsBounded
  BY <1>1, DriverServiceAssumption DEF ShiftsBounded, Init, DriverInit
<1>3. DriverType /\ OnRideServes
  BY DriverServiceAssumption DEF Init, DriverInit, DriverType, OnRideServes
<1> QED
  BY <1>2, <1>3, TopicsAssumption DEF Init, DriverInv

\* Every step preserves DriverInv, given RideInv.
LEMMA DriverStep == RideInv /\ DriverInv /\ [Next]_vars => DriverInv'
<1> SUFFICES ASSUME RideInv, DriverInv, [Next]_vars PROVE DriverInv'
  OBVIOUS
<1>1. ASSUME UNCHANGED driverVars, handled' \in [Groups -> SUBSET Message], faults' \in 0..MaxFaults
      PROVE  DriverInv'
  <2>1. ShiftsBounded'
    BY <1>1, ShiftsUnchanged DEF driverVars, DriverInv
  <2> QED
    BY <1>1, <2>1 DEF driverVars, DriverInv, DriverType, OnRideServes
<1>2. CASE RideNext /\ UNCHANGED driverVars
  <2>1. CASE RideAcceptedConsumer \/ RideMatchingFailedConsumer \/ PaymentCompletedConsumer
    <3>1. PICK m \in sent : Receive("ride", m)
      BY <2>1 DEF RideAcceptedConsumer, RideMatchingFailedConsumer, PaymentCompletedConsumer
    <3>2. handled' \in [Groups -> SUBSET Message] /\ faults' \in 0..MaxFaults
      BY <3>1, ReceiveType DEF Groups
    <3> QED
      BY <1>1, <1>2, <3>2
  <2>2. CASE UNCHANGED <<handled, faults>>
    BY <1>1, <1>2, <2>2 DEF DriverInv
  <2> QED
    BY <1>2, <2>1, <2>2 DEF RideNext, CreateRide, CancelRide, StartRide, CompleteRide, Send
<1>3. CASE DriverNext /\ UNCHANGED ride
  BY <1>3, CreateStep, ShiftStep, RideEventStep DEF DriverNext
<1>4. CASE Environment /\ UNCHANGED <<ride, driverVars>>
  <2>1. UNCHANGED <<handled, faults>>
    BY <1>4 DEF Environment, MatchingAccepts, MatchingGivesUp, BillingPaid, Send
  <2> QED
    BY <1>1, <1>4, <2>1 DEF DriverInv
<1>5. CASE UNCHANGED vars
  BY <1>1, <1>5 DEF vars, topicVars, DriverInv
<1> QED
  BY <1>2, <1>3, <1>4, <1>5 DEF Next

\* Both inductive invariants hold in every reachable state.
THEOREM DispatchInvariance == Spec => [](RideInv /\ DriverInv)
<1>1. Init => RideInv /\ DriverInv
  BY RideInitial, DriverInitial
<1>2. (RideInv /\ DriverInv) /\ [Next]_vars => (RideInv /\ DriverInv)'
  BY RideStep, DriverStep
<1> QED
  BY <1>1, <1>2, PTL DEF Spec

\* Every variable keeps its type, and OnRide and the ride served go together.
THEOREM DispatchTypeCorrect == Spec => []TypeOK
<1>1. RideInv /\ DriverInv => TypeOK
  BY DEF RideInv, DriverInv, OnRideServes, TypeOK
<1> QED
  BY <1>1, DispatchInvariance, PTL

\* A driver has at most as many active shifts as requests that overlapped.
THEOREM ShiftsStayBounded == Spec => []ShiftsBounded
<1>1. RideInv /\ DriverInv => ShiftsBounded
  BY DEF DriverInv
<1> QED
  BY <1>1, DispatchInvariance, PTL

-----------------------------------------------------------------------------
(* total_rides_completed, against the messages the driver group handled.   *)

CompletedFor(d) == {m \in handled["driver"] : m.topic = "ride.completed" /\ m.driver = d}

CountInv ==
  /\ IsFiniteSet(sent) /\ handled["driver"] \subseteq sent
  /\ \A d \in Drivers : counted[d] <= Cardinality(CompletedFor(d)) + recounted[d]

\* What is sent and handled only grows, a message is sent before it is handled, and only a
\* ride.completed counts.
LEMMA MessagesGrow ==
  ASSUME RideInv, DriverInv, CountInv, [Next]_vars
  PROVE  /\ IsFiniteSet(sent') /\ handled'["driver"] \subseteq sent'
         /\ handled["driver"] \subseteq handled'["driver"]
         /\ RideCompletedConsumer \/ UNCHANGED <<counted, recounted>>
<1>0. handled \in [Groups -> SUBSET Message] /\ "driver" \in Groups /\ "ride" \in Groups
  BY DEF DriverInv, Groups
<1>1. ASSUME NEW m, Send(m)
      PROVE  /\ IsFiniteSet(sent') /\ handled'["driver"] \subseteq sent'
             /\ handled["driver"] \subseteq handled'["driver"]
  <2>1. sent' = sent \cup {m} /\ handled' = handled
    BY <1>1 DEF Send
  <2> QED
    BY <2>1, FS_AddElement DEF CountInv
<1>2. ASSUME NEW g \in Groups, NEW m \in sent, Receive(g, m)
      PROVE  /\ IsFiniteSet(sent') /\ handled'["driver"] \subseteq sent'
             /\ handled["driver"] \subseteq handled'["driver"]
  BY <1>0, <1>2 DEF Receive, FirstTime, Again, CountInv
<1>3. ASSUME UNCHANGED <<sent, handled>>
      PROVE  /\ IsFiniteSet(sent') /\ handled'["driver"] \subseteq sent'
             /\ handled["driver"] \subseteq handled'["driver"]
  BY <1>3 DEF CountInv
<1>4. CASE RideNext /\ UNCHANGED driverVars
  <2>1. \/ \E m : Send(m)
        \/ \E m \in sent : Receive("ride", m)
    BY <1>4 DEF RideNext, CreateRide, CancelRide, StartRide, CompleteRide, RideAcceptedConsumer,
                RideMatchingFailedConsumer, PaymentCompletedConsumer
  <2> QED
    BY <1>0, <1>1, <1>2, <1>4, <2>1 DEF driverVars
<1>5. CASE DriverNext
  <2>1. CASE DriverRideAcceptedConsumer \/ RideCancelledConsumer \/ RideCompletedConsumer
    <3>1. \E m \in sent : Receive("driver", m)
      BY <2>1 DEF DriverRideAcceptedConsumer, RideCancelledConsumer, RideCompletedConsumer
    <3>2. RideCompletedConsumer \/ UNCHANGED <<counted, recounted>>
      BY <2>1 DEF DriverRideAcceptedConsumer, RideCancelledConsumer, ProcessRideAccepted,
         ProcessRideCancelled
    <3> QED
      BY <1>0, <1>2, <3>1, <3>2
  <2>2. ASSUME NEW d \in Drivers, CreateDriver(d) \/ RequestShift(d) \/ InsertShift(d)
        PROVE  UNCHANGED <<sent, handled, counted, recounted>>
    BY <2>2 DEF CreateDriver, RequestShift, InsertShift, topicVars
  <2>3. ASSUME NEW s \in Shifts, StartShift(s) \/ EndShift(s) \/ CommitEndShift(s) \/ AbortEndShift(s)
        PROVE  UNCHANGED <<sent, handled, counted, recounted>>
    BY <2>3 DEF StartShift, EndShift, CommitEndShift, AbortEndShift, topicVars
  <2> QED
    BY <1>3, <1>5, <2>1, <2>2, <2>3 DEF DriverNext
<1>6. CASE Environment /\ UNCHANGED <<ride, driverVars>>
  <2>1. \E m : Send(m)
    BY <1>6 DEF Environment, MatchingAccepts, MatchingGivesUp, BillingPaid
  <2> QED
    BY <1>1, <1>6, <2>1 DEF driverVars
<1>7. CASE UNCHANGED vars
  BY <1>3, <1>7 DEF vars, topicVars, driverVars
<1> QED
  BY <1>4, <1>5, <1>6, <1>7 DEF Next

\* The increment is tied to the flip: a first delivery adds its message, a repeated one is recounted.
LEMMA CountStep == RideInv /\ DriverInv /\ CountInv /\ [Next]_vars => CountInv'
<1> SUFFICES ASSUME RideInv, DriverInv, CountInv, [Next]_vars PROVE CountInv'
  OBVIOUS
<1>1. /\ IsFiniteSet(sent') /\ handled'["driver"] \subseteq sent'
      /\ handled["driver"] \subseteq handled'["driver"]
      /\ RideCompletedConsumer \/ UNCHANGED <<counted, recounted>>
  BY MessagesGrow
<1>2. IsFiniteSet(handled'["driver"])
  BY <1>1, FS_Subset
<1>3. ASSUME NEW d \in Drivers
      PROVE  /\ CompletedFor(d) \subseteq CompletedFor(d)' /\ IsFiniteSet(CompletedFor(d)')
             /\ Cardinality(CompletedFor(d)) \in Nat /\ Cardinality(CompletedFor(d)') \in Nat
             /\ Cardinality(CompletedFor(d)) <= Cardinality(CompletedFor(d)')
             /\ counted[d] \in Nat /\ recounted[d] \in Nat
             /\ counted[d] <= Cardinality(CompletedFor(d)) + recounted[d]
  <2>1. CompletedFor(d) \subseteq CompletedFor(d)' /\ CompletedFor(d)' \subseteq handled'["driver"]
    BY <1>1 DEF CompletedFor
  <2>2. IsFiniteSet(CompletedFor(d)')
    BY <1>2, <2>1, FS_Subset
  <2>3. IsFiniteSet(CompletedFor(d)) /\ Cardinality(CompletedFor(d)) <= Cardinality(CompletedFor(d)')
    BY <2>1, <2>2, FS_Subset
  <2> QED
    BY <2>1, <2>2, <2>3, FS_CardinalityType DEF CountInv, DriverInv, DriverType
<1>4. CASE UNCHANGED <<counted, recounted>>
  <2>1. ASSUME NEW d \in Drivers PROVE counted'[d] <= Cardinality(CompletedFor(d)') + recounted'[d]
    BY <1>3, <1>4
  <2> QED
    BY <1>1, <2>1 DEF CountInv
<1>5. CASE RideCompletedConsumer
  <2>1. PICK m \in sent : m.topic = "ride.completed" /\ Receive("driver", m) /\ ProcessRideCompleted(m)
    BY <1>5 DEF RideCompletedConsumer
  <2>2. counted \in [Drivers -> Nat] /\ recounted \in [Drivers -> Nat]
        /\ handled \in [Groups -> SUBSET Message] /\ "driver" \in Groups
    BY DEF DriverInv, DriverType, Groups
  <2>3. ASSUME NEW d \in Drivers PROVE counted'[d] <= Cardinality(CompletedFor(d)') + recounted'[d]
    <3>1. CASE d # m.driver \/ ~Flips(m.driver, "OnRide")
      <4>1. counted'[d] = counted[d] /\ recounted'[d] = recounted[d]
        BY <2>1, <2>2, <3>1 DEF ProcessRideCompleted, Counts
      <4> QED
        BY <1>3, <4>1
    <3>2. CASE d = m.driver /\ Flips(m.driver, "OnRide") /\ m \in handled["driver"]
      <4>1. counted'[d] = counted[d] + 1 /\ recounted'[d] = recounted[d] + 1
        BY <2>1, <2>2, <3>2 DEF ProcessRideCompleted, Counts
      <4> QED
        BY <1>3, <4>1
    <3>3. CASE d = m.driver /\ Flips(m.driver, "OnRide") /\ m \notin handled["driver"]
      <4>1. counted'[d] = counted[d] + 1 /\ recounted'[d] = recounted[d]
        BY <2>1, <2>2, <3>3 DEF ProcessRideCompleted, Counts
      <4>2. handled'["driver"] = handled["driver"] \cup {m}
        BY <2>1, <2>2, <3>3 DEF Receive, FirstTime, Again
      <4>3. CompletedFor(d)' = CompletedFor(d) \cup {m} /\ m \notin CompletedFor(d)
        BY <2>1, <3>3, <4>2 DEF CompletedFor
      <4>4. Cardinality(CompletedFor(d)') = Cardinality(CompletedFor(d)) + 1
        <5>1. IsFiniteSet(CompletedFor(d))
          BY <1>3, FS_Subset
        <5> QED
          BY <4>3, <5>1, FS_AddElement
      <4> QED
        BY <1>3, <4>1, <4>4
    <3> QED
      BY <3>1, <3>2, <3>3
  <2> QED
    BY <1>1, <2>3 DEF CountInv
<1> QED
  BY <1>1, <1>4, <1>5

\* total_rides_completed never exceeds the rides completed by the driver, but for repeated
\* ride.completed messages that find the driver on another ride.
THEOREM CountedOnceAlways == Spec => []CountedOnce
<1>1. Init => CountInv
  <2> SUFFICES ASSUME Init PROVE CountInv
    OBVIOUS
  <2>1. \A d \in Drivers : Cardinality(CompletedFor(d)) = 0 /\ counted[d] = 0 /\ recounted[d] = 0
    <3>1. \A d \in Drivers : CompletedFor(d) = {}
      BY DEF Init, CompletedFor, Groups
    <3> QED
      BY <3>1, FS_EmptySet DEF Init, DriverInit
  <2> QED
    BY <2>1, FS_EmptySet DEF Init, CountInv, Groups
<1>2. RideInv /\ DriverInv /\ CountInv => CountedOnce
  <2> SUFFICES ASSUME DriverInv, CountInv, NEW d \in Drivers
               PROVE  counted[d] <= Cardinality({m \in Sent("ride.completed") : m.driver = d}) + recounted[d]
    BY DEF CountedOnce
  <2>1. CompletedFor(d) \subseteq {m \in Sent("ride.completed") : m.driver = d}
    BY DEF CompletedFor, Sent, CountInv
  <2>2. IsFiniteSet({m \in Sent("ride.completed") : m.driver = d})
    <3>1. {m \in Sent("ride.completed") : m.driver = d} \subseteq sent
      BY DEF Sent
    <3> QED
      BY <3>1, FS_Subset DEF CountInv
  <2>3. /\ Cardinality(CompletedFor(d)) <= Cardinality({m \in Sent("ride.completed") : m.driver = d})
        /\ Cardinality(CompletedFor(d)) \in Nat
        /\ Cardinality({m \in Sent("ride.completed") : m.driver = d}) \in Nat
    BY <2>1, <2>2, FS_Subset, FS_CardinalityType
  <2>4. /\ counted[d] \in Nat /\ recounted[d] \in Nat
        /\ counted[d] <= Cardinality(CompletedFor(d)) + recounted[d]
    BY DEF CountInv, DriverInv, DriverType
  <2> QED
    BY <2>3, <2>4
<1> QED
  BY <1>1, <1>2, CountStep, DispatchInvariance, PTL DEF Spec
=============================================================================
