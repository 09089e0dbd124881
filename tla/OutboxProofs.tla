---------------------------- MODULE OutboxProofs ----------------------------
(***************************************************************************)
(* The outbox worker's guarantees for every number of rows and workers and *)
(* every batch size, timeout and lease that satisfy LeaseAssumption.       *)
(***************************************************************************)
EXTENDS Outbox, FiniteSetTheorems, WellFoundedInduction, TLAPS

\* The ticks a live worker may still need for its whole batch: the rest of the
\* call it is in, the statement that follows a publish, and two calls for each
\* row after this one.
Owed(w) ==
  left[w] + (IF phase[w] = "publish" THEN PublishTimeout ELSE 0)
    + 2 * PublishTimeout * (Cardinality(batch[w]) - 1)

\* A worker is idle when its batch is done.
BatchShape ==
  \A w \in Workers : IsFiniteSet(batch[w]) /\ (phase[w] = "idle" <=> batch[w] = {})

\* What is claimed is neither processed nor parked.
ClaimedIsOpen ==
  \A w \in Workers : \A m \in batch[w] : m \notin processed /\ retries[m] < MaxRetries

\* The key to exclusion: every lease outlasts the work its owner still has.
LeaseCovers ==
  \A w \in Workers : \A m \in batch[w] : lease[m] > Owed(w)

\* A row about to be marked processed was answered nil.
MarkWasAnswered ==
  \A w \in Workers : phase[w] = "mark" => published[Current(w)] > 0 \/ Current(w) \in unstored

\* The first copy of a message is accounted for by its row, or by the worker
\* about to record it; every other one by a fault.
Settled(m) == m \in processed \/ \E w \in Workers : phase[w] = "mark" /\ Current(w) = m

CopiesOwed ==
  \A m \in Messages : published[m] <= faults + (IF Settled(m) THEN 1 ELSE 0)

RetriesBounded == \A m \in Messages : retries[m] <= MaxRetries

OutboxInv ==
  /\ TypeOK
  /\ BatchShape
  /\ ClaimedIsOpen
  /\ LeaseCovers
  /\ ExclusiveClaim
  /\ RetriesBounded
  /\ MarkWasAnswered
  /\ LostOnlyUnacknowledged
  /\ CopiesOwed

-----------------------------------------------------------------------------
\* A set of numbers that is not empty has a least element.
LEMMA LeastExists ==
  ASSUME NEW S \in SUBSET Nat, S # {}
  PROVE  \E m \in S : \A k \in S : m <= k
<1> DEFINE R == {ss \in Nat \X Nat : ss[1] < ss[2]}
<1>1. IsWellFoundedOn(R, Nat)
  BY NatLessThanWellFounded DEF OpToRel
<1>2. \A k, m \in Nat : k < m => <<k, m>> \in R
  OBVIOUS
<1> HIDE DEF R
<1>3. PICK m \in S : \A k \in S : ~(<<k, m>> \in R)
  BY <1>1, WFMin
<1>4. \A k \in S : ~(k < m)
  BY <1>2, <1>3
<1> QED
  BY <1>3, <1>4

\* The row a busy worker is at belongs to its batch.
LEMMA CurrentInBatch ==
  ASSUME TypeOK, BatchShape, NEW w \in Workers, phase[w] # "idle"
  PROVE  Current(w) \in batch[w] /\ Current(w) \in Messages
<1>1. batch[w] \in SUBSET Nat /\ batch[w] # {} /\ batch[w] \subseteq Messages
  BY OutboxAssumption DEF TypeOK, BatchShape
<1>2. \E m \in batch[w] : \A k \in batch[w] : m <= k
  BY <1>1, LeastExists
<1> QED
  BY <1>1, <1>2 DEF Current

\* The arithmetic of a batch: one row's two calls fit in the share it gives up,
\* and a smaller batch owes no more than a larger one.
LEMMA ShareOfRow ==
  ASSUME NEW p \in Nat, NEW c \in Int
  PROVE  2 * p * (c - 1) = 2 * p + 2 * p * ((c - 1) - 1)
  OBVIOUS

LEMMA ProductNat ==
  ASSUME NEW p \in Nat, NEW c \in Nat
  PROVE  2 * p * c \in Nat
  OBVIOUS

LEMMA ProductMonotone ==
  ASSUME NEW p \in Nat, NEW c \in Nat, NEW d \in Nat, c <= d
  PROVE  2 * p * c <= 2 * p * d
<1>1. 2 * p * d = 2 * p * c + 2 * p * (d - c)
  OBVIOUS
<1>2. 2 * p * (d - c) \in Nat
  BY ProductNat
<1> QED
  BY <1>1, <1>2, ProductNat

\* A busy worker's batch is a non-empty finite set and its debt a number.
LEMMA BusyFacts ==
  ASSUME TypeOK, BatchShape, NEW w \in Workers, phase[w] # "idle"
  PROVE  /\ Cardinality(batch[w]) \in Nat \ {0}
         /\ left[w] \in Nat
         /\ 2 * PublishTimeout * (Cardinality(batch[w]) - 1) \in Nat
         /\ Owed(w) \in Nat
<1>1. batch[w] # {} /\ IsFiniteSet(batch[w])
  BY DEF BatchShape
<1>2. Cardinality(batch[w]) \in Nat \ {0}
  BY <1>1, FS_CardinalityType, FS_EmptySet
<1>3. left[w] \in Nat /\ PublishTimeout \in Nat
  BY OutboxAssumption DEF TypeOK
<1>4. Cardinality(batch[w]) - 1 \in Nat
  BY <1>2
<1>5. 2 * PublishTimeout * (Cardinality(batch[w]) - 1) \in Nat
  BY <1>3, <1>4, ProductNat
<1> HIDE DEF Owed
<1>6. Owed(w) \in Nat
  BY <1>3, <1>5 DEF Owed
<1> QED
  BY <1>2, <1>3, <1>5, <1>6

\* A worker none of whose variables change is at the same row, owing the same.
LEMMA OthersUnmoved ==
  ASSUME NEW v, batch'[v] = batch[v], phase'[v] = phase[v]
  PROVE  /\ Current(v)' = Current(v)
         /\ left'[v] = left[v] => Owed(v)' = Owed(v)
  BY DEF Current, Owed

\* A claimed row is under a live lease, so no other worker selects it.
LEMMA ClaimedNotSelected ==
  ASSUME TypeOK, BatchShape, LeaseCovers, NEW w \in Workers, NEW m \in batch[w]
  PROVE  lease[m] > 0 /\ m \notin Unprocessed /\ phase[w] # "idle"
<1>1. phase[w] # "idle" /\ m \in Messages /\ lease[m] \in Nat
  BY DEF TypeOK, BatchShape
<1>2. Owed(w) \in Nat /\ lease[m] > Owed(w)
  BY <1>1, BusyFacts DEF LeaseCovers
<1> QED
  BY <1>1, <1>2 DEF Unprocessed

-----------------------------------------------------------------------------
(* Steps that leave batches, phases and debts alone.                       *)

LEMMA IdleStep ==
  ASSUME OutboxInv, TypeOK', UNCHANGED <<batch, phase, left, lease, processed, retries, published, unstored, faults>>
  PROVE  OutboxInv'
<1>1. \A w : Current(w)' = Current(w) /\ Owed(w)' = Owed(w)
  BY DEF Current, Owed
<1>2. \A m : Settled(m)' = Settled(m)
  BY <1>1 DEF Settled
<1> QED
  BY <1>1, <1>2 DEF OutboxInv, BatchShape, ClaimedIsOpen, LeaseCovers, ExclusiveClaim,
    RetriesBounded, MarkWasAnswered, LostOnlyUnacknowledged, CopiesOwed

LEMMA TickStep ==
  ASSUME OutboxInv, Tick
  PROVE  OutboxInv'
<1>0. TypeOK /\ BatchShape /\ LeaseCovers
  BY DEF OutboxInv
<1>1. TypeOK'
  <2>1. \A m \in Messages : Less(lease[m]) \in Nat
    BY <1>0 DEF TypeOK, Less
  <2>2. \A w \in Workers : (IF w \in Busy THEN left[w] - 1 ELSE left[w]) \in Nat
    BY <1>0 DEF Tick, TypeOK
  <2>3. lease' \in [Messages -> Nat] /\ left' \in [Workers -> Nat]
    BY <2>1, <2>2 DEF Tick
  <2> QED
    BY <1>0, <2>3 DEF Tick, TypeOK
<1>2. UNCHANGED <<batch, phase, processed, retries, published, unstored, faults>>
  BY DEF Tick
<1>3. \A w : Current(w)' = Current(w)
  BY <1>2 DEF Current
<1>4. \A m : Settled(m)' = Settled(m)
  BY <1>2, <1>3 DEF Settled
<1>5. LeaseCovers'
  <2> SUFFICES ASSUME NEW w \in Workers, NEW m \in batch'[w]
               PROVE  lease'[m] > Owed(w)'
    BY DEF LeaseCovers
  <2>1. m \in batch[w] /\ m \in Messages /\ phase[w] # "idle"
    BY <1>0, <1>2 DEF TypeOK, BatchShape
  <2>2. lease[m] > Owed(w) /\ Owed(w) \in Nat /\ left[w] \in Nat /\ lease[m] \in Nat
    BY <1>0, <2>1, BusyFacts DEF LeaseCovers, TypeOK
  <2>3. left'[w] = left[w] - 1
    BY <2>1 DEF Tick, Busy
  <2>4. lease'[m] = lease[m] - 1
    BY <2>1, <2>2 DEF Tick, Less
  <2>5. Owed(w)' = Owed(w) - 1
    BY <1>0, <1>2, <2>1, <2>3, BusyFacts, OutboxAssumption DEF Owed
  <2> QED
    BY <2>2, <2>4, <2>5
<1> QED
  BY <1>1, <1>2, <1>3, <1>4, <1>5 DEF OutboxInv, BatchShape, ClaimedIsOpen, ExclusiveClaim,
    RetriesBounded, MarkWasAnswered, LostOnlyUnacknowledged, CopiesOwed

\* claimBatch: the new leases outlast the whole batch.
LEMMA ClaimStep ==
  ASSUME OutboxInv, NEW w \in Workers, ClaimBatch(w)
  PROVE  OutboxInv'
<1>0. TypeOK /\ BatchShape /\ LeaseCovers /\ ExclusiveClaim
  BY DEF OutboxInv
<1>1. PICK B \in SUBSET Unprocessed, l \in Leases :
        /\ IsFirst(B) /\ {m \in B : BelowCap(m)} # {}
        /\ lease' = [m \in Messages |-> IF m \in {k \in B : BelowCap(k)} THEN l ELSE lease[m]]
        /\ batch' = [batch EXCEPT ![w] = {m \in B : BelowCap(m)}]
  BY DEF ClaimBatch
<1> DEFINE C == {m \in B : BelowCap(m)}
<1>2. /\ C \subseteq Unprocessed /\ C \subseteq Messages /\ C # {}
      /\ \A m \in C : m \notin processed /\ retries[m] < MaxRetries
  BY <1>0, <1>1 DEF Unprocessed, TypeOK, BelowCap
<1>3. IsFiniteSet(C) /\ Cardinality(C) \in Nat \ {0} /\ Cardinality(C) <= BatchSize
  <2>1. IsFiniteSet(B) /\ Cardinality(B) <= BatchSize /\ C \in SUBSET B
    BY <1>1 DEF IsFirst
  <2>2. IsFiniteSet(C) /\ Cardinality(C) <= Cardinality(B)
    BY <2>1, FS_Subset
  <2>3. Cardinality(C) \in Nat /\ Cardinality(B) \in Nat /\ (Cardinality(C) = 0 <=> C = {})
    BY <2>1, <2>2, FS_CardinalityType, FS_EmptySet
  <2> QED
    BY <1>2, <2>1, <2>2, <2>3, OutboxAssumption
<1>4. /\ l \in Nat /\ l > 2 * PublishTimeout * BatchSize
  <2>1. 2 * PublishTimeout * BatchSize \in Nat
    BY OutboxAssumption, ProductNat
  <2> QED
    BY <1>1, <2>1, OutboxAssumption, LeaseAssumption DEF Leases
<1>5. /\ lease' = [m \in Messages |-> IF m \in C THEN l ELSE lease[m]]
      /\ batch' = [batch EXCEPT ![w] = C]
  BY <1>1
<1> HIDE DEF C
<1>6. /\ phase[w] = "idle" /\ phase' = [phase EXCEPT ![w] = "publish"]
      /\ left' = [left EXCEPT ![w] = PublishTimeout]
      /\ UNCHANGED <<present, processed, retries, stopping, published, unstored, faults, stops>>
  BY DEF ClaimBatch
<1>7. /\ batch'[w] = C /\ phase'[w] = "publish" /\ left'[w] = PublishTimeout
      /\ \A v \in Workers : v # w =>
           batch'[v] = batch[v] /\ phase'[v] = phase[v] /\ left'[v] = left[v]
  BY <1>0, <1>5, <1>6 DEF TypeOK
<1>8. TypeOK'
  <2>1. batch' \in [Workers -> SUBSET Messages]
    BY <1>0, <1>2, <1>5 DEF TypeOK
  <2>2. lease' \in [Messages -> Nat]
    BY <1>0, <1>4, <1>5 DEF TypeOK
  <2> QED
    BY <1>0, <1>6, <2>1, <2>2, OutboxAssumption DEF TypeOK, Phase
<1>9. \A v \in Workers : v # w => Current(v)' = Current(v) /\ Owed(v)' = Owed(v)
  BY <1>7, OthersUnmoved
<1>10. \A v \in Workers : \A m \in batch[v] : m \notin C
  BY <1>0, <1>2, ClaimedNotSelected
<1>11. BatchShape'
  BY <1>0, <1>2, <1>3, <1>7 DEF BatchShape
<1>12. ClaimedIsOpen'
  BY <1>2, <1>6, <1>7 DEF OutboxInv, ClaimedIsOpen
<1>13. LeaseCovers'
  <2> SUFFICES ASSUME NEW v \in Workers, NEW m \in batch'[v]
               PROVE  lease'[m] > Owed(v)'
    BY DEF LeaseCovers
  <2>1. m \in Messages
    BY <1>8 DEF TypeOK
  <2>2. CASE v = w
    <3>1. m \in C /\ lease'[m] = l
      BY <1>5, <1>7, <2>1, <2>2
    <3>2. Owed(v)' = 2 * PublishTimeout * Cardinality(C)
      <4>1. Owed(v)' = PublishTimeout + PublishTimeout + 2 * PublishTimeout * (Cardinality(C) - 1)
        BY <1>7, <2>2 DEF Owed
      <4> QED
        BY <1>3, <4>1, OutboxAssumption
    <3>3. 2 * PublishTimeout * Cardinality(C) <= 2 * PublishTimeout * BatchSize
      BY <1>3, OutboxAssumption, ProductMonotone
    <3>4. 2 * PublishTimeout * Cardinality(C) \in Nat /\ 2 * PublishTimeout * BatchSize \in Nat
      BY <1>3, OutboxAssumption, ProductNat
    <3> QED
      BY <1>4, <3>1, <3>2, <3>3, <3>4
  <2>3. CASE v # w
    BY <1>0, <1>5, <1>7, <1>9, <1>10, <2>1, <2>3 DEF LeaseCovers
  <2> QED
    BY <2>2, <2>3
<1>14. ExclusiveClaim'
  BY <1>0, <1>7, <1>10 DEF ExclusiveClaim
<1>15. RetriesBounded' /\ LostOnlyUnacknowledged'
  BY <1>6 DEF OutboxInv, RetriesBounded, LostOnlyUnacknowledged
<1>16. MarkWasAnswered'
  BY <1>6, <1>7, <1>9 DEF OutboxInv, MarkWasAnswered
<1>17. CopiesOwed'
  <2>1. \A m : Settled(m)' <=> Settled(m)
    BY <1>6, <1>7, <1>9 DEF Settled
  <2> QED
    BY <1>6, <2>1 DEF OutboxInv, CopiesOwed
<1> QED
  BY <1>8, <1>11, <1>12, <1>13, <1>14, <1>15, <1>16, <1>17 DEF OutboxInv

-----------------------------------------------------------------------------
(* The steps of publishOne.                                                *)

\* No row or worker accounts yet for the row a worker is publishing.
LEMMA PublishingNotSettled ==
  ASSUME OutboxInv, NEW w \in Workers, phase[w] \in {"publish", "retry"}
  PROVE  ~Settled(Current(w))
<1>1. phase[w] # "idle" /\ TypeOK /\ BatchShape
  BY DEF OutboxInv
<1>2. Current(w) \in batch[w]
  BY <1>1, CurrentInBatch
<1>3. Current(w) \notin processed
  BY <1>2 DEF OutboxInv, ClaimedIsOpen
<1>4. ASSUME NEW v \in Workers, phase[v] = "mark", Current(v) = Current(w)
      PROVE  FALSE
  <2>1. v # w /\ Current(v) \in batch[v]
    BY <1>1, <1>4, CurrentInBatch
  <2> QED
    BY <1>2, <1>4, <2>1 DEF OutboxInv, ExclusiveClaim
<1> QED
  BY <1>3, <1>4 DEF Settled

\* The publish call returns.
LEMMA PublishStep ==
  ASSUME OutboxInv, NEW w \in Workers, PublishOk(w) \/ PublishFails(w) \/ PublishLost(w)
  PROVE  OutboxInv'
<1>0. TypeOK /\ BatchShape /\ LeaseCovers /\ phase[w] = "publish"
  BY DEF OutboxInv, PublishOk, PublishFails, PublishLost
<1> DEFINE c == Current(w)
<1>1. c \in batch[w] /\ c \in Messages
  BY <1>0, CurrentInBatch
<1>2. PICK p \in {"mark", "retry"} :
        /\ phase' = [phase EXCEPT ![w] = p]
        /\ left' = [left EXCEPT ![w] = PublishTimeout]
        /\ UNCHANGED <<present, processed, retries, lease, batch, stopping, stops>>
        /\ p = "mark" =>
             /\ faults' = faults
             /\ \/ published' = [published EXCEPT ![c] = @ + 1] /\ unstored' = unstored
                \/ published' = published /\ unstored' = unstored \cup {c}
        /\ p = "retry" => unstored' = unstored
        /\ p = "retry" =>
             \/ published' = published /\ faults' \in {faults, faults + 1}
             \/ published' = [published EXCEPT ![c] = @ + 1] /\ faults' = faults + 1
  BY DEF PublishOk, PublishFails, PublishLost, Record, Deliver, Fault, rowVars
<1> HIDE DEF c
<1>3. /\ phase'[w] = p /\ left'[w] = PublishTimeout
      /\ \A v \in Workers : v # w => phase'[v] = phase[v] /\ left'[v] = left[v]
  BY <1>0, <1>2 DEF TypeOK
<1>4. TypeOK'
  <2>1. published' \in [Messages -> Nat] /\ faults' \in Nat /\ unstored' \subseteq Messages
    BY <1>0, <1>1, <1>2 DEF TypeOK
  <2> QED
    BY <1>0, <1>2, <2>1, OutboxAssumption DEF TypeOK, Phase
<1>5. \A v \in Workers : Current(v)' = Current(v)
  BY <1>2 DEF Current
<1>6. \A v \in Workers : v # w => Owed(v)' = Owed(v)
  BY <1>2, <1>3, OthersUnmoved
<1>7. Owed(w)' <= Owed(w) /\ Owed(w) \in Nat /\ Owed(w)' \in Nat
  <2>1. /\ left[w] \in Nat /\ 2 * PublishTimeout * (Cardinality(batch[w]) - 1) \in Nat
        /\ Owed(w) \in Nat
    BY <1>0, BusyFacts
  <2>2. Owed(w) = left[w] + PublishTimeout + 2 * PublishTimeout * (Cardinality(batch[w]) - 1)
    BY <1>0 DEF Owed
  <2>3. Owed(w)' = PublishTimeout + 0 + 2 * PublishTimeout * (Cardinality(batch[w]) - 1)
    BY <1>2, <1>3 DEF Owed
  <2> QED
    BY <2>1, <2>2, <2>3, OutboxAssumption
<1>8. LeaseCovers'
  <2> SUFFICES ASSUME NEW v \in Workers, NEW m \in batch'[v]
               PROVE  lease'[m] > Owed(v)'
    BY DEF LeaseCovers
  <2>1. m \in batch[v] /\ lease'[m] = lease[m] /\ lease[m] > Owed(v) /\ lease[m] \in Nat
    BY <1>0, <1>2 DEF LeaseCovers, TypeOK
  <2> QED
    BY <1>6, <1>7, <2>1
<1>9. BatchShape' /\ ClaimedIsOpen' /\ ExclusiveClaim' /\ RetriesBounded'
  BY <1>0, <1>1, <1>2, <1>3 DEF OutboxInv, BatchShape, ClaimedIsOpen, ExclusiveClaim, RetriesBounded
<1>10. \A m \in Messages : published'[m] \in Nat /\ published[m] \in Nat /\ published'[m] >= published[m]
  BY <1>0, <1>1, <1>2, <1>4 DEF TypeOK
<1>11. unstored \subseteq unstored' /\ (p = "mark" => published'[c] > 0 \/ c \in unstored')
  BY <1>0, <1>1, <1>2 DEF TypeOK
<1>12. MarkWasAnswered'
  <2> SUFFICES ASSUME NEW v \in Workers, phase'[v] = "mark"
               PROVE  published'[Current(v)'] > 0 \/ Current(v)' \in unstored'
    BY DEF MarkWasAnswered
  <2>1. CASE v = w
    BY <1>3, <1>5, <1>11, <2>1 DEF c
  <2>2. CASE v # w
    <3>1. phase[v] = "mark" /\ (published[Current(v)] > 0 \/ Current(v) \in unstored)
      BY <1>3, <2>2 DEF OutboxInv, MarkWasAnswered
    <3>2. Current(v) \in Messages
      BY <1>0, <3>1, CurrentInBatch
    <3> QED
      BY <1>5, <1>10, <1>11, <3>1, <3>2
  <2> QED
    BY <2>1, <2>2
<1>13. LostOnlyUnacknowledged'
  BY <1>0, <1>2, <1>10, <1>11 DEF OutboxInv, LostOnlyUnacknowledged, TypeOK
<1>14. CopiesOwed'
  <2> SUFFICES ASSUME NEW m \in Messages
               PROVE  published'[m] <= faults' + (IF Settled(m)' THEN 1 ELSE 0)
    BY DEF CopiesOwed
  <2>1. published[m] <= faults + (IF Settled(m) THEN 1 ELSE 0)
    BY DEF OutboxInv, CopiesOwed
  <2>2. ~Settled(c)
    BY <1>0, PublishingNotSettled DEF c
  <2>3. Settled(m) => Settled(m)'
    BY <1>0, <1>2, <1>3, <1>5 DEF Settled
  <2>4. p = "mark" /\ m = c => Settled(m)'
    BY <1>3, <1>5 DEF Settled, c
  <2>5. faults \in Nat /\ published[m] \in Nat
    BY <1>0 DEF TypeOK
  <2>6. CASE m # c
    <3>1. published'[m] = published[m] /\ faults' \in {faults, faults + 1}
      BY <1>0, <1>2, <2>6 DEF TypeOK
    <3> QED
      BY <2>1, <2>3, <2>5, <3>1
  <2>7. CASE m = c
    <3>1. published[c] <= faults
      BY <2>1, <2>2, <2>5, <2>7
    <3>2. CASE p = "mark"
      <4>1. published'[c] \in {published[c], published[c] + 1} /\ faults' = faults
        BY <1>0, <1>1, <1>2, <3>2 DEF TypeOK
      <4> QED
        BY <2>4, <2>5, <2>7, <3>1, <3>2, <4>1
    <3>3. CASE p = "retry"
      <4>1. \/ published'[c] = published[c] /\ faults' \in {faults, faults + 1}
            \/ published'[c] = published[c] + 1 /\ faults' = faults + 1
        BY <1>0, <1>1, <1>2, <3>3 DEF TypeOK
      <4> QED
        BY <2>5, <2>7, <3>1, <4>1
    <3> QED
      BY <3>2, <3>3
  <2> QED
    BY <2>6, <2>7
<1> QED
  BY <1>4, <1>8, <1>9, <1>12, <1>13, <1>14 DEF OutboxInv

\* The outcome is recorded, or is not, and the worker turns to the next row.
LEMMA FinalizeStep ==
  ASSUME OutboxInv, NEW w \in Workers, MarkProcessed(w) \/ IncrementRetries(w) \/ StatementFails(w)
  PROVE  OutboxInv'
<1>0. /\ TypeOK /\ BatchShape /\ LeaseCovers /\ ClaimedIsOpen /\ ExclusiveClaim
      /\ phase[w] \in {"mark", "retry"}
  BY DEF OutboxInv, MarkProcessed, IncrementRetries, StatementFails, ProcessedPhase
<1> DEFINE c == Current(w)
           rest == batch[w] \ {c}
<1>1. c \in batch[w] /\ c \in Messages
  BY <1>0, CurrentInBatch
<1>2. /\ batch' = [batch EXCEPT ![w] = rest]
      /\ phase' = [phase EXCEPT ![w] = IF rest = {} THEN "idle" ELSE "publish"]
      /\ left' = [left EXCEPT ![w] = IF rest = {} THEN 0 ELSE PublishTimeout]
      /\ UNCHANGED <<present, lease, stopping, published, unstored, stops>>
  BY DEF MarkProcessed, IncrementRetries, StatementFails, Proceed
<1>3. \/ /\ phase[w] = "mark" /\ processed' = processed \cup {c}
         /\ retries' = retries /\ faults' = faults
      \/ /\ phase[w] = "retry" /\ processed' = processed
         /\ retries' = [retries EXCEPT ![c] = @ + 1] /\ faults' = faults
      \/ processed' = processed /\ retries' = retries /\ faults' = faults + 1
  BY DEF MarkProcessed, IncrementRetries, StatementFails, Fault, RunsToEnd, ProcessedPhase
<1> HIDE DEF c, rest
<1>4. /\ batch'[w] = rest
      /\ phase'[w] = IF rest = {} THEN "idle" ELSE "publish"
      /\ left'[w] = IF rest = {} THEN 0 ELSE PublishTimeout
      /\ \A v \in Workers : v # w =>
           batch'[v] = batch[v] /\ phase'[v] = phase[v] /\ left'[v] = left[v]
  BY <1>0, <1>2 DEF TypeOK
<1>5. /\ rest \subseteq batch[w] /\ c \notin rest /\ rest \subseteq Messages
      /\ IsFiniteSet(rest) /\ Cardinality(rest) = Cardinality(batch[w]) - 1
  <2>1. IsFiniteSet(batch[w]) /\ batch[w] \subseteq Messages
    BY <1>0 DEF BatchShape, TypeOK
  <2> QED
    BY <1>1, <2>1, FS_RemoveElement DEF rest
<1>6. TypeOK'
  <2>1. retries' \in [Messages -> Nat] /\ processed' \subseteq Messages /\ faults' \in Nat
    BY <1>0, <1>1, <1>3 DEF TypeOK
  <2>2. batch' \in [Workers -> SUBSET Messages]
    BY <1>0, <1>2, <1>5 DEF TypeOK
  <2>3. phase' \in [Workers -> Phase] /\ left' \in [Workers -> Nat]
    BY <1>0, <1>2, OutboxAssumption DEF TypeOK, Phase
  <2> QED
    BY <1>0, <1>2, <2>1, <2>2, <2>3 DEF TypeOK
<1>7. \A v \in Workers : v # w => Current(v)' = Current(v) /\ Owed(v)' = Owed(v)
  BY <1>4, OthersUnmoved
<1>8. \A v \in Workers : batch'[v] \subseteq batch[v] /\ c \notin batch'[v]
  BY <1>0, <1>1, <1>4, <1>5 DEF ExclusiveClaim
<1>9. BatchShape'
  BY <1>0, <1>4, <1>5 DEF BatchShape
<1>10. \A m \in Messages : m # c => retries'[m] = retries[m] /\ (m \in processed' => m \in processed)
  BY <1>0, <1>1, <1>3 DEF TypeOK
<1>11. ClaimedIsOpen'
  <2> SUFFICES ASSUME NEW v \in Workers, NEW m \in batch'[v]
               PROVE  m \notin processed' /\ retries'[m] < MaxRetries
    BY DEF ClaimedIsOpen
  <2>1. m \in batch[v] /\ m # c /\ m \in Messages
    BY <1>0, <1>8 DEF TypeOK
  <2> QED
    BY <1>0, <1>10, <2>1 DEF ClaimedIsOpen
<1>12. LeaseCovers'
  <2> SUFFICES ASSUME NEW v \in Workers, NEW m \in batch'[v]
               PROVE  lease'[m] > Owed(v)'
    BY DEF LeaseCovers
  <2>1. m \in batch[v] /\ lease'[m] = lease[m] /\ lease[m] > Owed(v) /\ lease[m] \in Nat
    BY <1>0, <1>2, <1>8 DEF LeaseCovers, TypeOK
  <2>2. CASE v # w
    BY <1>7, <2>1, <2>2
  <2>3. CASE v = w
    <3>1. rest # {}
      BY <1>4, <2>3
    <3>2. /\ left[w] \in Nat /\ Cardinality(batch[w]) \in Nat
          /\ 2 * PublishTimeout * (Cardinality(batch[w]) - 1) \in Nat
      BY <1>0, BusyFacts
    <3>3. Owed(w) = left[w] + 0 + 2 * PublishTimeout * (Cardinality(batch[w]) - 1)
      BY <1>0 DEF Owed
    <3>4. Owed(w)' = PublishTimeout + PublishTimeout
                       + 2 * PublishTimeout * ((Cardinality(batch[w]) - 1) - 1)
      BY <1>4, <1>5, <3>1 DEF Owed
    <3>5. 2 * PublishTimeout * (Cardinality(batch[w]) - 1)
            = 2 * PublishTimeout + 2 * PublishTimeout * ((Cardinality(batch[w]) - 1) - 1)
      BY <3>2, ShareOfRow, OutboxAssumption
    <3>6. Owed(w)' = 2 * PublishTimeout * (Cardinality(batch[w]) - 1)
      BY <3>2, <3>4, <3>5, OutboxAssumption
    <3> QED
      BY <2>1, <2>3, <3>2, <3>3, <3>6
  <2> QED
    BY <2>2, <2>3
<1>13. ExclusiveClaim'
  BY <1>0, <1>8 DEF ExclusiveClaim
<1>14. RetriesBounded'
  <2>1. retries[c] < MaxRetries /\ retries[c] \in Nat
    BY <1>0, <1>1 DEF ClaimedIsOpen, TypeOK
  <2>2. retries'[c] \in {retries[c], retries[c] + 1}
    BY <1>0, <1>1, <1>3 DEF TypeOK
  <2> QED
    BY <1>10, <2>1, <2>2, OutboxAssumption DEF OutboxInv, RetriesBounded
<1>15. MarkWasAnswered'
  BY <1>2, <1>4, <1>7 DEF OutboxInv, MarkWasAnswered
<1>16. LostOnlyUnacknowledged'
  <2>1. phase[w] = "mark" => published[c] > 0 \/ c \in unstored
    BY DEF OutboxInv, MarkWasAnswered, c
  <2> QED
    BY <1>2, <1>3, <2>1 DEF OutboxInv, LostOnlyUnacknowledged
<1>17. CopiesOwed'
  <2> SUFFICES ASSUME NEW m \in Messages
               PROVE  published'[m] <= faults' + (IF Settled(m)' THEN 1 ELSE 0)
    BY DEF CopiesOwed
  <2>1. /\ published[m] <= faults + (IF Settled(m) THEN 1 ELSE 0)
        /\ faults \in Nat /\ published[m] \in Nat /\ published'[m] = published[m]
    BY <1>0, <1>2 DEF OutboxInv, CopiesOwed, TypeOK
  <2>2. CASE faults' = faults + 1
    BY <2>1, <2>2
  <2>3. CASE faults' = faults
    <3>1. Settled(m) => Settled(m)'
      <4>1. CASE m \in processed
        BY <1>3, <4>1 DEF Settled
      <4>2. ASSUME NEW v \in Workers, phase[v] = "mark", Current(v) = m, v # w
            PROVE  Settled(m)'
        BY <1>4, <1>7, <4>2 DEF Settled
      <4>3. ASSUME phase[w] = "mark", c = m
            PROVE  Settled(m)'
        <5>1. faults' # faults + 1
          BY <2>1, <2>3
        <5>2. m \in processed'
          BY <1>3, <4>3, <5>1
        <5> QED
          BY <5>2 DEF Settled
      <4> QED
        BY <4>1, <4>2, <4>3 DEF Settled, c
    <3> QED
      BY <2>1, <2>3, <3>1
  <2> QED
    BY <1>3, <2>2, <2>3
<1> QED
  BY <1>6, <1>9, <1>11, <1>12, <1>13, <1>14, <1>15, <1>16, <1>17 DEF OutboxInv

\* A copy sent by the writer itself is paid for by the fault that caused it.
LEMMA ResendStep ==
  ASSUME OutboxInv, NEW w \in Workers, WriterResends(w)
  PROVE  OutboxInv'
<1>0. TypeOK /\ BatchShape /\ phase[w] = "publish"
  BY DEF OutboxInv, WriterResends
<1> DEFINE c == Current(w)
<1>1. c \in Messages
  BY <1>0, CurrentInBatch
<1>2. /\ published' = [published EXCEPT ![c] = @ + 1] /\ faults' = faults + 1
      /\ UNCHANGED <<present, processed, retries, lease, batch, phase, left, stopping, unstored, stops>>
  BY DEF WriterResends, Deliver, Fault, rowVars, workerVars
<1> HIDE DEF c
<1>3. TypeOK'
  BY <1>0, <1>1, <1>2 DEF TypeOK
<1>4. \A v \in Workers : Current(v)' = Current(v) /\ Owed(v)' = Owed(v)
  BY <1>2 DEF Current, Owed
<1>5. BatchShape' /\ ClaimedIsOpen' /\ LeaseCovers' /\ ExclusiveClaim' /\ RetriesBounded'
  BY <1>2, <1>4 DEF OutboxInv, BatchShape, ClaimedIsOpen, LeaseCovers, ExclusiveClaim, RetriesBounded
<1>6. \A m \in Messages : /\ published[m] \in Nat
                          /\ published'[m] \in {published[m], published[m] + 1}
  BY <1>0, <1>1, <1>2 DEF TypeOK
<1>7. MarkWasAnswered'
  <2> SUFFICES ASSUME NEW v \in Workers, phase'[v] = "mark"
               PROVE  published'[Current(v)'] > 0 \/ Current(v)' \in unstored'
    BY DEF MarkWasAnswered
  <2>1. phase[v] = "mark" /\ (published[Current(v)] > 0 \/ Current(v) \in unstored)
    BY <1>2 DEF OutboxInv, MarkWasAnswered
  <2>2. Current(v) \in Messages
    BY <1>0, <2>1, CurrentInBatch
  <2> QED
    BY <1>2, <1>4, <1>6, <2>1, <2>2
<1>8. LostOnlyUnacknowledged'
  BY <1>0, <1>2, <1>6 DEF OutboxInv, LostOnlyUnacknowledged, TypeOK
<1>9. CopiesOwed'
  <2> SUFFICES ASSUME NEW m \in Messages
               PROVE  published'[m] <= faults' + (IF Settled(m)' THEN 1 ELSE 0)
    BY DEF CopiesOwed
  <2>1. published[m] <= faults + (IF Settled(m) THEN 1 ELSE 0)
    BY DEF OutboxInv, CopiesOwed
  <2>2. Settled(m)' = Settled(m)
    BY <1>2, <1>4 DEF Settled
  <2> QED
    BY <1>0, <1>2, <1>6, <2>1, <2>2 DEF TypeOK
<1> QED
  BY <1>3, <1>5, <1>7, <1>8, <1>9 DEF OutboxInv

\* A crash forgets the batch; the leases run on.
LEMMA CrashStep ==
  ASSUME OutboxInv, NEW w \in Workers, Crash(w)
  PROVE  OutboxInv'
<1>0. TypeOK
  BY DEF OutboxInv
<1>1. /\ batch' = [batch EXCEPT ![w] = {}] /\ phase' = [phase EXCEPT ![w] = "idle"]
      /\ left' = [left EXCEPT ![w] = 0] /\ stopping' = stopping \ {w}
      /\ faults' = faults + 1
      /\ UNCHANGED <<present, processed, retries, lease, published, unstored, stops>>
  BY DEF Crash, Fault, rowVars
<1>2. /\ batch'[w] = {} /\ phase'[w] = "idle"
      /\ \A v \in Workers : v # w =>
           batch'[v] = batch[v] /\ phase'[v] = phase[v] /\ left'[v] = left[v]
  BY <1>0, <1>1 DEF TypeOK
<1>3. TypeOK'
  BY <1>0, <1>1 DEF TypeOK, Phase
<1>4. \A v \in Workers : v # w => Current(v)' = Current(v) /\ Owed(v)' = Owed(v)
  BY <1>2, OthersUnmoved
<1>5. BatchShape'
  BY <1>2, FS_EmptySet DEF OutboxInv, BatchShape
<1>6. ClaimedIsOpen' /\ LeaseCovers' /\ ExclusiveClaim'
  BY <1>1, <1>2, <1>4 DEF OutboxInv, ClaimedIsOpen, LeaseCovers, ExclusiveClaim
<1>7. RetriesBounded' /\ MarkWasAnswered' /\ LostOnlyUnacknowledged'
  BY <1>1, <1>2, <1>4 DEF OutboxInv, RetriesBounded, MarkWasAnswered, LostOnlyUnacknowledged
<1>8. CopiesOwed'
  BY <1>0, <1>1 DEF OutboxInv, CopiesOwed, TypeOK
<1> QED
  BY <1>3, <1>5, <1>6, <1>7, <1>8 DEF OutboxInv

-----------------------------------------------------------------------------
(* The theorems.                                                           *)

LEMMA OutboxInit == Init => OutboxInv
<1> SUFFICES ASSUME Init PROVE OutboxInv
  OBVIOUS
<1>1. TypeOK
  BY DEF Init, TypeOK, Phase
<1>2. BatchShape
  BY FS_EmptySet DEF Init, BatchShape
<1>3. ClaimedIsOpen /\ LeaseCovers /\ ExclusiveClaim
  BY DEF Init, ClaimedIsOpen, LeaseCovers, ExclusiveClaim
<1>4. RetriesBounded /\ MarkWasAnswered /\ LostOnlyUnacknowledged
  BY OutboxAssumption DEF Init, RetriesBounded, MarkWasAnswered, LostOnlyUnacknowledged
<1>5. CopiesOwed
  BY DEF Init, CopiesOwed
<1> QED
  BY <1>1, <1>2, <1>3, <1>4, <1>5 DEF OutboxInv

LEMMA OutboxNext == OutboxInv /\ [Next]_vars => OutboxInv'
<1> SUFFICES ASSUME OutboxInv, [Next]_vars PROVE OutboxInv'
  OBVIOUS
<1>1. TypeOK
  BY DEF OutboxInv
<1>2. ASSUME NEW m \in Messages, Insert(m) PROVE OutboxInv'
  <2>1. TypeOK'
    BY <1>1, <1>2 DEF Insert, workerVars, TypeOK
  <2> QED
    BY <1>2, <2>1, IdleStep DEF Insert, workerVars
<1>3. ASSUME NEW w \in Workers, Stop(w) \/ Restart(w) PROVE OutboxInv'
  <2>1. TypeOK'
    BY <1>1, <1>3 DEF Stop, Restart, rowVars, TypeOK
  <2> QED
    BY <1>3, <2>1, IdleStep DEF Stop, Restart, rowVars
<1>4. ASSUME UNCHANGED vars PROVE OutboxInv'
  <2>1. TypeOK'
    BY <1>1, <1>4 DEF vars, rowVars, workerVars, TypeOK
  <2> QED
    BY <1>4, <2>1, IdleStep DEF vars, rowVars, workerVars
<1>5. ASSUME NEW w \in Workers, PublishOne(w) PROVE OutboxInv'
  BY <1>5, PublishStep, ResendStep, FinalizeStep DEF PublishOne
<1> QED
  BY <1>2, <1>3, <1>4, <1>5, ClaimStep, CrashStep, TickStep DEF Next

\* OutboxInv is an inductive invariant of the worker.
THEOREM OutboxInvariance == Spec => []OutboxInv
  BY OutboxInit, OutboxNext, PTL DEF Spec

\* Every variable keeps its type.
THEOREM OutboxTypeCorrect == Spec => []TypeOK
<1>1. OutboxInv => TypeOK
  BY DEF OutboxInv
<1> QED
  BY <1>1, OutboxInvariance, PTL

\* If the lease exceeds two timeouts per row of a batch, no two workers ever
\* work on the same row.
THEOREM Exclusion == Spec => []ExclusiveClaim
<1>1. OutboxInv => ExclusiveClaim
  BY DEF OutboxInv
<1> QED
  BY <1>1, OutboxInvariance, PTL

\* An event whose row is marked processed is in the topic, or was lost by a write
\* that nobody acknowledged: nothing else the worker does or suffers loses one.
THEOREM LossIsUnacknowledged == Spec => []LostOnlyUnacknowledged
<1>1. OutboxInv => LostOnlyUnacknowledged
  BY DEF OutboxInv
<1> QED
  BY <1>1, OutboxInvariance, PTL

\* A message is sent at most once more than there were faults.
THEOREM BoundedDuplicates == Spec => []DuplicatesExplained
<1>1. OutboxInv => DuplicatesExplained
  BY DEF OutboxInv, CopiesOwed, DuplicatesExplained, TypeOK
<1> QED
  BY <1>1, OutboxInvariance, PTL

\* The retry cap holds whatever the number of workers.
THEOREM CapKept == Spec => []RetriesCapped
<1>1. OutboxInv => RetriesCapped
  BY OutboxAssumption DEF OutboxInv, RetriesBounded, ClaimedIsOpen, RetriesCapped, TypeOK
<1> QED
  BY <1>1, OutboxInvariance, PTL
=============================================================================
