-------------------------------- MODULE Geo --------------------------------
(***************************************************************************)
(* The pure half of location-service: which pings are accepted, and how a  *)
(* track becomes the simplified, encoded line of a ride summary.           *)
(*                                                                         *)
(* Track.tla feeds these operators pings and tracks.                       *)
(*                                                                         *)
(* A coordinate is a pair of integers, in millionths of a degree.  A time  *)
(* is a number of ticks, TicksPerSecond to the second.  The tracks checked *)
(* are small enough for the flat projection the code uses itself.          *)
(***************************************************************************)
EXTENDS Integers, Sequences, FiniteSets, SequencesExt

Coordinate(lat, lon) == [lat |-> lat, lon |-> lon]

\* NewCoordinate
ValidCoordinate(c) == c.lat \in -90000000..90000000 /\ c.lon \in -180000000..180000000

\* The members of a finite set of numbers, in order.
Ascending(S) == [n \in 1..Cardinality(S) |-> CHOOSE j \in S : Cardinality({k \in S : k <= j}) = n]

Abs(n) == IF n < 0 THEN -n ELSE n

\* HaversineMeters along a meridian or a parallel at the equator, in coordinate units.
Distance(a, b) == Abs(a.lat - b.lat) + Abs(a.lon - b.lon)

---------------------------------------------------------------------------
(* Pings *)

TicksPerSecond == 2

NoPosition == [at |-> Coordinate(0, 0), ts |-> -1]

\* The first check that fails names the reason; cfg.maxSpeed is in units per tick.
RejectReason(raw, previous, cfg, now) ==
  IF ~ValidCoordinate(raw.at) THEN "invalid_coordinate"
  ELSE IF raw.accuracy < 0 \/ raw.accuracy > cfg.maxAccuracy THEN "poor_accuracy"
  ELSE IF raw.ts > now + cfg.maxFutureSkew THEN "clock_skew_future"
  ELSE IF raw.ts < now - cfg.maxPastSkew THEN "clock_skew_past"
  ELSE IF previous # NoPosition /\ raw.ts <= previous.ts THEN "stale_ordering"
  ELSE IF previous # NoPosition
          /\ Distance(previous.at, raw.at) > cfg.maxSpeed * (raw.ts - previous.ts) THEN "teleport"
  ELSE "none"

\* Mutant of IngestPing: every ping is compared with the stored position only.
IngestPingAgainstStored(result, raw, cfg, now) ==
  IF RejectReason(raw, result.stored, cfg, now) # "none"
    THEN [result EXCEPT !.rejected = @ + 1]
    ELSE [result EXCEPT !.accepted = @ \o <<[at |-> raw.at, ts |-> raw.ts]>>]

\* One round of the loop: what is accepted becomes what the next ping is compared with.
IngestPing(result, raw, cfg, now) ==
  IF RejectReason(raw, result.previous, cfg, now) # "none"
    THEN [result EXCEPT !.rejected = @ + 1]
    ELSE [result EXCEPT !.accepted = @ \o <<[at |-> raw.at, ts |-> raw.ts]>>,
                        !.previous = [at |-> raw.at, ts |-> raw.ts]]

\* sort.Slice by DeviceTs, which is not stable: pings of one time come in any order.
ByDeviceTs(batch) ==
  {[i \in DOMAIN batch |-> batch[p[i]]] : p \in {q \in [DOMAIN batch -> DOMAIN batch] :
     \A i, j \in DOMAIN batch : i < j => q[i] # q[j] /\ batch[q[i]].ts <= batch[q[j]].ts}}

\* IngestPings takes the sorted pings one by one.
IngestPings(sorted, stored, cfg, now) ==
  LET upTo[n \in 0..Len(sorted)] ==
        IF n = 0 THEN [stored |-> stored, previous |-> stored, accepted |-> << >>, rejected |-> 0]
        ELSE IngestPing(upTo[n - 1], sorted[n], cfg, now)
  IN upTo[Len(sorted)]

\* UpsertPosition and LastPosition: the hash keeps whole seconds.
Rehashed(pos) == [pos EXCEPT !.ts = (@ \div TicksPerSecond) * TicksPerSecond]

---------------------------------------------------------------------------
(* SimplifyRDP *)

\* perpendicularDistance, squared and times the squared length of the line a-b: equal
\* denominators cancel when points of one stretch are compared.
Offset(p, a, b) ==
  LET dx == b.lon - a.lon
      dy == b.lat - a.lat
      num == dy * p.lon - dx * p.lat + b.lon * a.lat - b.lat * a.lon IN
  IF dx = 0 /\ dy = 0
    THEN (p.lon - a.lon) * (p.lon - a.lon) + (p.lat - a.lat) * (p.lat - a.lat)
    ELSE num * num

LineLength(a, b) ==
  IF a = b THEN 1
  ELSE (b.lon - a.lon) * (b.lon - a.lon) + (b.lat - a.lat) * (b.lat - a.lat)

Farther(p, a, b, epsilon) == Offset(p, a, b) > epsilon * epsilon * LineLength(a, b)

\* The first of the points strictly between first and last that lie farthest away.
Farthest(track, first, last) ==
  LET off(i) == Offset(track[i], track[first], track[last])
      between == first + 1 .. last - 1 IN
  CHOOSE i \in between : /\ \A j \in between : off(j) <= off(i)
                         /\ \A j \in between : j < i => off(j) < off(i)

\* Mutant of RdpRange: the second half is left as it is.
RdpRangeFirstHalf(track, epsilon) ==
  LET n == Len(track)
      keep[s \in (1..n) \X (1..n)] ==
        IF s[2] <= s[1] + 1 THEN {}
        ELSE LET i == Farthest(track, s[1], s[2]) IN
             IF Farther(track[i], track[s[1]], track[s[2]], epsilon)
               THEN {i} \cup keep[<<s[1], i>>] ELSE {}
  IN keep[<<1, n>>]

\* The indices rdpRange marks, besides the two ends.
RdpRange(track, epsilon) ==
  LET n == Len(track)
      keep[s \in (1..n) \X (1..n)] ==
        IF s[2] <= s[1] + 1 THEN {}
        ELSE LET i == Farthest(track, s[1], s[2]) IN
             IF Farther(track[i], track[s[1]], track[s[2]], epsilon)
               THEN {i} \cup keep[<<s[1], i>>] \cup keep[<<i, s[2]>>] ELSE {}
  IN keep[<<1, n>>]

Kept(track, epsilon) ==
  IF Len(track) < 3 THEN DOMAIN track
  ELSE {1, Len(track)} \cup RdpRange(track, epsilon)

SimplifyRDP(track, epsilon) ==
  LET kept == Ascending(Kept(track, epsilon)) IN
  [i \in DOMAIN kept |-> track[kept[i]]]

---------------------------------------------------------------------------
(* The polyline format *)

\* Millionths to hundred-thousandths of a degree, halves away from zero.
Round1e5(v) == IF v >= 0 THEN (v + 5) \div 10 ELSE -((5 - v) \div 10)

\* Chunks of five bits, the lowest first; all but the last carry bit 0x20.
EncodeUnsigned(n) ==
  LET chunks[m \in 0..n] ==
        IF m >= 32 THEN <<32 + (m % 32) + 63>> \o chunks[m \div 32] ELSE <<m + 63>>
  IN chunks[n]

\* The sign moves to the lowest bit, and back.
Folded(n) == IF n < 0 THEN -2 * n - 1 ELSE 2 * n
Unfolded(u) == IF u % 2 = 1 THEN -((u + 1) \div 2) ELSE u \div 2

EncodeSigned(n) == EncodeUnsigned(Folded(n))

\* The differences between rounded coordinates, so that rounding does not add up.
Deltas(track) ==
  LET rounded(i) == IF i = 0 THEN <<0, 0>> ELSE <<Round1e5(track[i].lat), Round1e5(track[i].lon)>> IN
  [i \in DOMAIN track |-> <<rounded(i)[1] - rounded(i - 1)[1], rounded(i)[2] - rounded(i - 1)[2]>>]

Concat(seqs) ==
  LET upTo[n \in 0..Len(seqs)] == IF n = 0 THEN << >> ELSE upTo[n - 1] \o seqs[n]
  IN upTo[Len(seqs)]

EncodePolyline(track) ==
  LET deltas == Deltas(track) IN
  Concat([i \in DOMAIN track |-> EncodeSigned(deltas[i][1]) \o EncodeSigned(deltas[i][2])])

\* decodeSignedNumber of the chunks at positions first..last of code.
DecodeSigned(code, first, last) ==
  LET above[k \in first..last + 1] ==
        IF k > last THEN 0 ELSE ((code[k] - 63) % 32) + 32 * above[k + 1]
  IN Unfolded(above[first])

\* A chunk without bit 0x20 ends a number.
Ends(code) == {j \in DOMAIN code : code[j] - 63 < 32}
Number(code, ends, k) == DecodeSigned(code, IF k = 1 THEN 1 ELSE ends[k - 1] + 1, ends[k])

\* Latitudes and longitudes alternate and add up, from zero.
Walk(code, ends) ==
  LET at[n \in 0..Len(ends) \div 2] ==
        IF n = 0 THEN Coordinate(0, 0)
        ELSE Coordinate(at[n - 1].lat + Number(code, ends, 2 * n - 1),
                        at[n - 1].lon + Number(code, ends, 2 * n))
  IN at

DecodePolyline(code) ==
  LET ends == Ascending(Ends(code))
      at == Walk(code, ends)
  IN [n \in 1..Len(ends) \div 2 |-> at[n]]

---------------------------------------------------------------------------

TrackLength(track) ==
  LET upTo[n \in 1..Len(track)] ==
        IF n = 1 THEN 0 ELSE upTo[n - 1] + Distance(track[n - 1], track[n])
  IN upTo[Len(track)]

\* BuildSummaryFallback: the line is simplified, the distance is that of the raw track.
BuildSummaryFallback(track, epsilon) ==
  [start    |-> track[1],
   end      |-> track[Len(track)],
   polyline |-> EncodePolyline(SimplifyRDP(track, epsilon)),
   distance |-> TrackLength(track),
   points   |-> Len(track)]

============================================================================
