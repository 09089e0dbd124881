----------------------------- MODULE Discovery -----------------------------
(***************************************************************************)
(* Whom a round of offers goes to: location-service's search by distance,  *)
(* matching-service's ranking, and the fallback by rating alone.           *)
(*                                                                         *)
(* A ride goes through its rounds with growing radius and pool.  In each,  *)
(* location-service answers or fails.  The drivers around the pickup are a *)
(* scene that stays as it is, so that what a round misses is its own doing *)
(* (Matching.tla has drivers come, go and accept meanwhile).  Scores are   *)
(* compared exactly; the code compares them as floats.                     *)
(***************************************************************************)
EXTENDS Integers, Sequences, FiniteSets, FiniteSetsExt, Functions

CONSTANTS MatchDrivers,        \* driver ids: integers, in the order Redis sorts members
          Scenes,              \* per driver: [dist, rating, fresh, held]
          BroadcastSize, PoolWidthPerAttempt, LocationOversampleFactor,
          BaseRadius, RadiusStep, MaxRadius,
          MaxRounds            \* MaxAttempts

ASSUME DiscoveryAssumption ==
  /\ MatchDrivers \subseteq Int /\ IsFiniteSet(MatchDrivers)
  /\ Scenes \subseteq [MatchDrivers -> [dist : Nat, rating : Nat, fresh : BOOLEAN, held : BOOLEAN]]
  /\ {BroadcastSize, LocationOversampleFactor} \subseteq Nat
  /\ PoolWidthPerAttempt \in Nat \ {0}   \* ZREVRANGE 0 -1 would be the whole set
  /\ {BaseRadius, RadiusStep, MaxRadius, MaxRounds} \subseteq Nat

VARIABLES scene,     \* dist from the pickup, rating in drivers:online (0: not there), fresh
                     \* (lastseen), held (has an offer of another ride, or is rate limited)
          attempt,   \* the last round made
          offered,   \* drivers the ride was offered to (OfferedDrivers)
          round      \* ghost: the last round, as it was decided

discoveryVars == <<scene, attempt, offered, round>>

NoRound == [geo |-> FALSE, before |-> {}, targets |-> << >>]

DiscoveryInit ==
  /\ scene \in Scenes
  /\ attempt = 0
  /\ offered = {}
  /\ round = NoRound

---------------------------------------------------------------------------
(* Sequences *)

Prefix(seq, n) == SubSeq(seq, 1, IF n < Len(seq) THEN n ELSE Len(seq))

\* The loop that keeps what is in S, in the order it comes.
Among(seq, S) ==
  LET upTo[n \in 0..Len(seq)] ==
        IF n = 0 THEN << >>
        ELSE IF seq[n] \in S THEN Append(upTo[n - 1], seq[n]) ELSE upTo[n - 1]
  IN upTo[Len(seq)]

\* The ways of writing the members of S one after the other, each ahead of all that follow.
Orderings(S, Ahead(_, _)) ==
  {q \in [1..Cardinality(S) -> S] : \A i, j \in DOMAIN q : i < j => Ahead(q[i], q[j])}

---------------------------------------------------------------------------
(* location-service *)

\* GEOSEARCH BYRADIUS ASC COUNT: nearest first, equal distances in any order.
GeoSearch(radius, limit) ==
  LET near == {d \in MatchDrivers : scene[d].dist <= radius} IN
  {Prefix(p, limit) : p \in Orderings(near, LAMBDA d, e : d # e /\ scene[d].dist <= scene[e].dist)}

\* Nearby: what has not been seen lately is dropped after the count was applied.
Nearby(radius, limit) ==
  {Among(p, {d \in MatchDrivers : scene[d].fresh}) : p \in GeoSearch(radius, limit)}

\* FindNearbyDrivers, asked over HTTP: a radius and a limit are positive or the answer is 400.
FindNearbyDrivers(radius, limit) == IF radius <= 0 \/ limit <= 0 THEN {} ELSE Nearby(radius, limit)

---------------------------------------------------------------------------
(* matching-service *)

RadiusForAttempt(n) ==
  LET r == BaseRadius + (n - 1) * RadiusStep IN IF r > MaxRadius THEN MaxRadius ELSE r

\* drivers:online: rating 0 means not online.
OnlineDrivers == {d \in MatchDrivers : scene[d].rating # 0}

\* TopOnlineDrivers: ZREVRANGE, by rating and then by member, highest first.
TopOnlineDrivers(limit) ==
  {Prefix(p, limit) : p \in Orderings(OnlineDrivers,
     LAMBDA d, e : \/ scene[d].rating > scene[e].rating
                   \/ scene[d].rating = scene[e].rating /\ d > e)}

\* OnlineRatings
Online(ids) == Among(ids, OnlineDrivers)

\* Twice the normalised value of n in low..high as a fraction over Span(low, high): a neutral
\* half when all are equal.
Span(low, high) == IF high > low THEN high - low ELSE 1
Norm(n, low, high) == IF high > low THEN 2 * (n - low) ELSE 1

\* Mutant of Score: far is good.
ScoreFarFirst(d, dists, ratings) ==
  LET dSpan == Span(Min(dists), Max(dists))
      rSpan == Span(Min(ratings), Max(ratings)) IN
  Norm(scene[d].dist, Min(dists), Max(dists)) * rSpan
    + Norm(scene[d].rating, Min(ratings), Max(ratings)) * dSpan

\* 0.5*normDistance + 0.5*normRating, over the product of the two spans.
Score(d, dists, ratings) ==
  LET dSpan == Span(Min(dists), Max(dists))
      rSpan == Span(Min(ratings), Max(ratings)) IN
  Norm(Min(dists) + Max(dists) - scene[d].dist, Min(dists), Max(dists)) * rSpan
    + Norm(scene[d].rating, Min(ratings), Max(ratings)) * dSpan

\* SliceStable: by the key, highest first, equal ones as they were.
StableByKey(ids, key) ==
  {[n \in DOMAIN p |-> ids[p[n]]] : p \in Orderings(DOMAIN ids,
     LAMBDA i, j : key[ids[i]] > key[ids[j]] \/ (key[ids[i]] = key[ids[j]] /\ i < j))}

RankCandidates(ids, hasDistance) ==
  LET dists == {scene[ids[i]].dist : i \in DOMAIN ids}
      ratings == {scene[ids[i]].rating : i \in DOMAIN ids} IN
  IF ~hasDistance \/ Len(ids) <= 1
    THEN StableByKey(ids, [d \in Range(ids) |-> scene[d].rating])
    ELSE StableByKey(ids, [d \in Range(ids) |-> Score(d, dists, ratings)])

\* tryLocationDiscovery, when location-service answers.
TryLocationDiscovery(n, limit) ==
  UNION {RankCandidates(Online(ids), TRUE) : ids \in FindNearbyDrivers(RadiusForAttempt(n), limit)}

\* selectCandidates: an answer with nobody in it is an answer, a failure is not.
SelectCandidates(n, geo) ==
  LET limit == n * PoolWidthPerAttempt IN
  IF geo THEN TryLocationDiscovery(n, limit * LocationOversampleFactor)
         ELSE UNION {RankCandidates(ids, FALSE) : ids \in TopOnlineDrivers(limit)}

\* HasCurrentOffers and OfferCounts
Excluded(ids) == {d \in {ids[i] : i \in DOMAIN ids} \ offered : scene[d].held}

SelectOfferTargets(ids, already, excluded, max) ==
  Prefix(Among(ids, MatchDrivers \ (already \cup excluded)), max)

\* One round of BroadcastOffers; TryOffer wins some of the targets.
BroadcastRound(geo) ==
  /\ attempt < MaxRounds
  /\ \E candidates \in SelectCandidates(attempt + 1, geo) :
       LET targets == SelectOfferTargets(candidates, offered, Excluded(candidates), BroadcastSize) IN
       /\ round' = [geo |-> geo, before |-> offered, targets |-> targets]
       /\ \E won \in SUBSET {targets[i] : i \in DOMAIN targets} : offered' = offered \cup won
  /\ attempt' = attempt + 1
  /\ UNCHANGED scene

DiscoveryNext == \E geo \in BOOLEAN : BroadcastRound(geo)

---------------------------------------------------------------------------
(* Properties *)

Targets == {round.targets[i] : i \in DOMAIN round.targets}

Reachable(d) == round.geo => scene[d].fresh /\ scene[d].dist <= RadiusForAttempt(attempt)

\* Drivers the last round could have chosen, had its pool been unlimited.
Eligible(d) == scene[d].rating # 0 /\ ~scene[d].held /\ d \notin round.before /\ Reachable(d)

\* d is a better choice than e in every respect the round looks at.
Better(d, e) ==
  IF round.geo THEN scene[d].dist < scene[e].dist /\ scene[d].rating >= scene[e].rating
               ELSE scene[d].rating > scene[e].rating

\* The drivers that take the places of the pool ahead of d, dead or alive.
Crowd(d) ==
  IF round.geo THEN {e \in MatchDrivers \ {d} : scene[e].dist <= scene[d].dist}
               ELSE {e \in MatchDrivers \ {d} : scene[e].rating >= scene[d].rating}

PoolLimit ==
  attempt * PoolWidthPerAttempt * (IF round.geo THEN LocationOversampleFactor ELSE 1)

\* A round (broadcast_offers.go:85) makes at most BroadcastSize offers, only to eligible
\* drivers, and passes nobody over for a worse one.  While offers are left an eligible driver
\* goes without only because as many nearer (or better rated) drivers as the pool has
\* places stood in the way, whether these could be chosen or not.
TargetsFair ==
  attempt > 0 =>
    /\ Cardinality(Targets) = Len(round.targets) /\ Len(round.targets) <= BroadcastSize
    /\ \A t \in Targets : Eligible(t)
    /\ \A d \in MatchDrivers \ Targets : Eligible(d) =>
         /\ \A t \in Targets : ~Better(d, t)
         /\ Len(round.targets) < BroadcastSize => Cardinality(Crowd(d)) >= PoolLimit

=============================================================================
