------------------------------- MODULE Track -------------------------------
(***************************************************************************)
(* The position of one driver in location-service's Redis hash, from       *)
(* request to request, and the summary drawn from a recorded track.        *)
(*                                                                         *)
(* A request carries a batch of pings in any order.  IngestPings reads the *)
(* position, checks the batch against it and stores the last ping it       *)
(* accepts, in separate calls to Redis: requests of one driver that        *)
(* overlap (an HTTP retry, a POST beside the WebSocket) read the same      *)
(* position, and the older of them may write last.  The hash keeps whole   *)
(* seconds only (position_codec.go).  A summary is built in one call.      *)
(***************************************************************************)
EXTENDS Geo

CONSTANTS PingConfig,    \* domain.PingConfig: the limits of RejectReason
          Pings,         \* the pings a device may send
          MaxBatch,      \* bound: pings of one request
          Uploads,       \* bound: requests of the driver in flight together
          FirstNow, MaxNow,  \* bound: the server clock runs from FirstNow to MaxNow
          Tracks,        \* the tracks a summary may be asked for
          Epsilons       \* the tolerances it may be configured with

ASSUME TrackAssumption ==
  /\ Pings \subseteq [at : [lat : Int, lon : Int], ts : Nat, accuracy : Int]
  /\ PingConfig \in [maxAccuracy : Nat, maxSpeed : Nat, maxFutureSkew : Nat, maxPastSkew : Nat]
  /\ Tracks \subseteq Seq([lat : Int, lon : Int]) /\ Epsilons \subseteq Nat

VARIABLES stored,     \* the driver's position as the hash holds it, or NoPosition
          uploading,  \* the requests in flight, and how far each has come
          now,        \* the server's clock, in ticks
          drawn,      \* the last summary asked for: track, tolerance, summary
          latest,      \* history: the device time of the stored ping, fraction included
          settled     \* history: what latest was when no request was last in flight

trackVars == <<stored, uploading, now, drawn, latest, settled>>

Idle == [phase |-> "idle", read |-> NoPosition, size |-> 0, accepted |-> << >>, rejected |-> 0]
NoDrawing == [track |-> << >>, epsilon |-> 0, summary |-> << >>]

TrackInit ==
  /\ stored = NoPosition
  /\ uploading = [u \in Uploads |-> Idle]
  /\ now = FirstNow
  /\ drawn = NoDrawing
  /\ latest = -1
  /\ settled = -1

---------------------------------------------------------------------------
(* IngestPings, call by call *)

\* Mutant of LastPosition: the hash is not looked at.
LastPositionNone == NoPosition

LastPosition == stored

\* The request is at Redis for the position it will compare with.
ReadLastPosition(u) ==
  /\ uploading[u].phase = "idle"
  /\ uploading' = [uploading EXCEPT ![u] = [Idle EXCEPT !.phase = "read", !.read = LastPosition]]
  /\ UNCHANGED <<stored, now, drawn, latest, settled>>

\* The loop over the sorted pings.
ValidatePings(u, batch) ==
  /\ uploading[u].phase = "read"
  /\ \E sorted \in ByDeviceTs(batch) :
       LET result == IngestPings(sorted, uploading[u].read, PingConfig, now) IN
       uploading' = [uploading EXCEPT ![u] =
         [phase |-> "checked", read |-> uploading[u].read, size |-> Len(batch),
          accepted |-> result.accepted, rejected |-> result.rejected]]
  /\ UNCHANGED <<stored, now, drawn, latest, settled>>

\* The request is over.
Answered(u) ==
  /\ uploading' = [uploading EXCEPT ![u] = Idle]
  /\ settled' = IF \A v \in Uploads \ {u} : uploading[v].phase = "idle" THEN latest' ELSE settled
  /\ UNCHANGED <<now, drawn>>

\* UpsertPosition of the last accepted ping, whatever the hash holds by now.
UpsertPosition(u) ==
  LET acc == uploading[u].accepted IN
  /\ uploading[u].phase = "checked"
  /\ IF acc = << >> THEN UNCHANGED <<stored, latest>>
                    ELSE stored' = Rehashed(Last(acc)) /\ latest' = Last(acc).ts
  /\ Answered(u)

\* Redis fails, or the instance goes down, before the position is written.  (An error after
\* the write is UpsertPosition: nothing here depends on the answer.)
UploadLost(u) ==
  /\ uploading[u].phase # "idle"
  /\ UNCHANGED <<stored, latest>>
  /\ Answered(u)

\* locationTTL after the last write the hash is gone.
PositionExpires ==
  /\ stored # NoPosition
  /\ stored' = NoPosition
  /\ latest' = -1
  /\ settled' = -1
  /\ UNCHANGED <<uploading, now, drawn>>

ClockTicks ==
  /\ now < MaxNow
  /\ now' = now + 1
  /\ UNCHANGED <<stored, uploading, drawn, latest, settled>>

\* BuildRideSummary reaches the fallback with the recorded positions of the ride; without
\* any it is ErrEmptyTrack.
DrawSummary(track, epsilon) ==
  /\ track # << >>
  /\ drawn' = [track |-> track, epsilon |-> epsilon, summary |-> BuildSummaryFallback(track, epsilon)]
  /\ UNCHANGED <<stored, uploading, now, latest, settled>>

Batches == UNION {[1..n -> Pings] : n \in 1..MaxBatch}

TrackNext ==
  \/ \E u \in Uploads : \/ ReadLastPosition(u)
                       \/ \E batch \in Batches : ValidatePings(u, batch)
                       \/ UpsertPosition(u)
                       \/ UploadLost(u)
  \/ PositionExpires
  \/ ClockTicks

SummaryNext == \E track \in Tracks, epsilon \in Epsilons : DrawSummary(track, epsilon)

---------------------------------------------------------------------------
(* Properties *)

\* Positions move forward in time and no faster than the limit.
Steady(acc) ==
  \A i \in 1..Len(acc) - 1 :
    /\ acc[i].ts < acc[i + 1].ts
    /\ Distance(acc[i].at, acc[i + 1].at) <= PingConfig.maxSpeed * (acc[i + 1].ts - acc[i].ts)

\* The accepted pings, after the position they were compared with if there was one.
Trail(position, acc) == IF position = NoPosition THEN acc ELSE <<position>> \o acc

\* Whatever the order in which a device sends its pings, and however its requests overlap
\* (ingest_pings.go): each ping of a request is either accepted or counted as rejected, and
\* the accepted ones are steady from the position the request read.  Nothing orders the
\* writes of requests that overlap ("last-write-wins, no Lua script", ping.go), so an older
\* one may put the position back, but only to the second it had when none of them had
\* begun: it never falls a second or more behind that.
IngestKeepsOrder ==
  /\ \A u \in Uploads :
       LET up == uploading[u] IN
       up.phase = "checked" =>
         /\ Len(up.accepted) + up.rejected = up.size
         /\ Steady(Trail(up.read, up.accepted))
  /\ latest > settled - TicksPerSecond

\* The kept points around a dropped one.
Before(kept, i) == CHOOSE j \in kept : j < i /\ \A k \in kept : k < i => k <= j
After(kept, i) == CHOOSE j \in kept : j > i /\ \A k \in kept : k > i => k >= j

\* The line a rider is latest (BuildSummaryFallback) is a subsequence of the recorded track,
\* from its first point to its last, each point off by its own rounding only; a point that
\* was dropped lies within epsilon of the line between the kept points around it.
SummaryFaithful ==
  drawn # NoDrawing =>
    LET t == drawn.track
        kept == Kept(t, drawn.epsilon)
        order == Ascending(kept)
    IN /\ DecodePolyline(drawn.summary.polyline)
            = [i \in DOMAIN order |-> Coordinate(Round1e5(t[order[i]].lat), Round1e5(t[order[i]].lon))]
       /\ {1, Len(t)} \subseteq kept
       /\ \A i \in DOMAIN t \ kept : ~Farther(t[i], t[Before(kept, i)], t[After(kept, i)], drawn.epsilon)

=============================================================================
