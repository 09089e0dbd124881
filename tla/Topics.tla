------------------------------- MODULE Topics -------------------------------
(***************************************************************************)
(* The Kafka topics between ride-service and driver-service, as their      *)
(* consumers meet them.  A row of an outbox table is taken to reach its    *)
(* topic, once or more (module Outbox says when it does not), the          *)
(* publisher spreads messages over partitions without a key and the topics *)
(* are independent, so a message may overtake any other; a consumer        *)
(* handles it until the handler succeeds, and again when the offset was    *)
(* not committed or a second copy was published.                           *)
(***************************************************************************)
EXTENDS Integers, FiniteSets

CONSTANTS
  Rides,
  Drivers,
  None,       \* the driver of a message about a ride nobody was assigned to
  MaxFaults   \* bound on repeated messages and failed statements

ASSUME TopicsAssumption == None \notin Rides \cup Drivers /\ MaxFaults \in Nat

VARIABLES
  sent,       \* messages committed to an outbox or published
  handled,    \* messages a consumer group has handled
  faults

topicVars == <<sent, handled, faults>>

Topic == {"ride.requested", "ride.accepted", "ride.matching_failed", "ride.started",
          "ride.completed", "ride.cancelled", "payment.completed"}

Message == [topic : Topic, ride : Rides, driver : Drivers \cup {None}]

Msg(topic, r, d) == [topic |-> topic, ride |-> r, driver |-> d]

\* The topics each consumer group of this model reads.
Subscribed == [ride   |-> {"ride.accepted", "ride.matching_failed", "payment.completed"},
               driver |-> {"ride.accepted", "ride.completed", "ride.cancelled"}]

Groups == {"ride", "driver"}

Fault == faults < MaxFaults /\ faults' = faults + 1

Send(m) == sent' = sent \cup {m} /\ UNCHANGED <<handled, faults>>

Unhandled(g) == {m \in sent : m.topic \in Subscribed[g]} \ handled[g]

\* The first time a handler succeeds for m.
FirstTime(g, m) ==
  /\ m \in Unhandled(g)
  /\ handled' = [handled EXCEPT ![g] = @ \cup {m}]
  /\ UNCHANGED faults

\* The handler succeeded before, and runs for m once more.
Again(g, m) ==
  /\ m \in handled[g]
  /\ Fault
  /\ UNCHANGED handled

Receive(g, m) == (FirstTime(g, m) \/ Again(g, m)) /\ UNCHANGED sent

=============================================================================
