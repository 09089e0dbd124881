----------------------------- MODULE MCServices -----------------------------
(***************************************************************************)
(* The machines that share no state with one another, one per behaviour:   *)
(* which of them runs is chosen at the start, the others stand still in    *)
(* one initial state.                                                      *)
(***************************************************************************)
EXTENDS Track, Sessions, Process, Listing, Discovery, Wallet, Api, Dispatch

VARIABLE machine

servicesVars == <<machine, trackVars, sessionVars, processVars, listingVars, discoveryVars,
                  walletVars, apiVars, vars>>

---------------------------------------------------------------------------
(* Instances *)

MCPingConfig == [maxAccuracy |-> 1, maxSpeed |-> 2, maxFutureSkew |-> 1, maxPastSkew |-> 2]
MCPings ==
  [at : {Coordinate(0, 0)}, ts : 0..3, accuracy : {0}]
    \union [at : {Coordinate(0, 3)}, ts : {1, 3}, accuracy : {0}]
    \union {[at |-> Coordinate(0, 0), ts |-> 1, accuracy |-> 2],
            [at |-> Coordinate(90000001, 0), ts |-> 1, accuracy |-> 0]}
MCTracks == UNION {[1..n -> [lat : {0, 14, 137}, lon : {-26, 8}]] : n \in 1..4}

MCPageSizes == {<< >>, <<0>>, <<2>>}

MCScenes ==
  {s \in [1..3 -> [dist : 1..3, rating : {0, 3, 5}, fresh : BOOLEAN, held : BOOLEAN]] :
     /\ s[1].dist = 1 /\ s[2].dist \in {s[1].dist, 2} /\ s[3].dist \in {s[2].dist, 3}
     /\ Cardinality({d \in 1..3 : ~s[d].fresh}) <= 1
     /\ Cardinality({d \in 1..3 : s[d].held}) <= 1}

---------------------------------------------------------------------------
Machines == {"ingest", "summary", "sessions", "process", "listing", "discovery", "wallet", "api",
             "dispatch"}

\* The one state in which a machine that does not run stands still.
ProcessRests == worker = [w \in WorkersOf("auth") |-> "running"]
ListingRests ==
  /\ resource = "user"
  /\ request = [pageSize |-> << >>, sortBy |-> Absent, sortDir |-> ""]
  /\ table = [i \in 1..StartRows |-> [at |-> i, val |-> 1]]
DiscoveryRests == scene = [d \in 1..3 |-> [dist |-> 1, rating |-> 5, fresh |-> TRUE, held |-> FALSE]]
ApiRests ==
  /\ handler = UserHandlerMe
  /\ input = [header |-> TRUE, body |-> "good", mine |-> TRUE, invalid |-> FALSE]
  /\ target = "ready"

ServicesInit ==
  /\ machine \in Machines
  /\ TrackInit
  /\ SessionsInit
  /\ (IF machine = "process" THEN TRUE ELSE ProcessRests) /\ ProcessInit
  /\ (IF machine = "listing" THEN TRUE ELSE ListingRests) /\ ListingInit
  /\ (IF machine = "discovery" THEN TRUE ELSE DiscoveryRests) /\ DiscoveryInit
  /\ WalletInit
  /\ (IF machine = "api" THEN TRUE ELSE ApiRests) /\ ApiInit
  /\ Init

RestBut(m) ==
  /\ machine = m
  /\ UNCHANGED machine
  /\ IF m \in {"ingest", "summary"} THEN TRUE ELSE UNCHANGED trackVars
  /\ IF m = "sessions" THEN TRUE ELSE UNCHANGED sessionVars
  /\ IF m = "process" THEN TRUE ELSE UNCHANGED processVars
  /\ IF m = "listing" THEN TRUE ELSE UNCHANGED listingVars
  /\ IF m = "discovery" THEN TRUE ELSE UNCHANGED discoveryVars
  /\ IF m = "wallet" THEN TRUE ELSE UNCHANGED walletVars
  /\ IF m = "api" THEN TRUE ELSE UNCHANGED apiVars
  /\ IF m = "dispatch" THEN TRUE ELSE UNCHANGED vars

ServicesNext ==
  \/ RestBut("ingest") /\ TrackNext
  \/ RestBut("summary") /\ drawn = NoDrawing /\ SummaryNext   \* one a behaviour
  \/ RestBut("sessions") /\ SessionsNext
  \/ RestBut("process") /\ ProcessNext
  \/ RestBut("listing") /\ ListingNext
  \/ RestBut("discovery") /\ DiscoveryNext
  \/ RestBut("wallet") /\ WalletNext
  \/ RestBut("api") /\ ApiNext
  \/ RestBut("dispatch") /\ Next

ServicesSpec == ServicesInit /\ [][ServicesNext]_servicesVars
=============================================================================
