-------------------------- MODULE OperationsProofs --------------------------
(***************************************************************************)
(* Proofs about the parts that keep the platform in order: the rate limit, *)
(* the database login of production, the release, borrowed sessions and    *)
(* the console.  The five are proved one after the other, each of its own  *)
(* specification, and then of MCOperations, which puts them together.      *)
(***************************************************************************)
EXTENDS MCOperations, TLAPS

-----------------------------------------------------------------------------
(* The rate limit *)

(* What x units of time bring in.  Its laws are stated once, so that the    *)
(* rest of the argument is linear.                                          *)
Worth(x) == Refill * x

(* Time brings in a whole number of tokens, in proportion, and a bucket that *)
(* is retired as stale would have been full.                                 *)
LEMMA WorthLaws ==
  /\ Worth(0) = 0 /\ Capacity <= Worth(Stale)
  /\ \A x \in Nat : Worth(x) \in Nat
  /\ \A x, y \in Nat : Worth(x + y) = Worth(x) + Worth(y)
  /\ \A x \in Nat : x * Refill = Worth(x)
<1>1. Refill \in Nat /\ Capacity \in Nat /\ Stale \in Nat /\ Capacity <= Refill * Stale
  BY RateLimitAssumption
<1>2. \A x \in Nat : Refill * x \in Nat
  BY <1>1
<1>3. \A x, y \in Nat : Refill * (x + y) = Refill * x + Refill * y
  BY <1>1
<1>4. \A x \in Nat : x * Refill = Refill * x
  BY <1>1
<1>5. Refill * 0 = 0
  BY <1>1
<1> QED BY <1>1, <1>2, <1>3, <1>4, <1>5 DEF Worth

(* More time brings in no less. *)
LEMMA WorthGrows ==
  ASSUME NEW x \in Nat, NEW y \in Nat, x <= y
  PROVE  Worth(x) <= Worth(y) /\ Worth(y) = Worth(x) + Worth(y - x)
<1>1. y - x \in Nat /\ x + (y - x) = y
  OBVIOUS
<1>2. Worth(x + (y - x)) = Worth(x) + Worth(y - x) /\ Worth(y - x) \in Nat /\ Worth(x) \in Nat
  BY <1>1, WorthLaws
<1> QED BY <1>1, <1>2

(* What the row has let through and still holds came in by its own time, and *)
(* what a memory has let through and still holds came in by the earlier of   *)
(* its own time and its clock's.  Where there is none, what was let through  *)
(* came in by now: the bucket that is made next is full.                     *)
SharedHolds ==
  IF shared = NoBucket
  THEN admitted["shared"] <= Worth(time) + slack["shared"]
  ELSE /\ admitted["shared"] + shared.tokens <= Capacity + Worth(shared.at) + slack["shared"]
       /\ shared.at <= time + MaxLead

LocalHolds(i) ==
  IF local[i] = NoBucket
  THEN admitted[i] <= Worth(Clock(i)) + slack[i]
  ELSE admitted[i] + local[i].tokens <= Capacity + Worth(Least(local[i].at, Clock(i))) + slack[i]

RateInvariant ==
  /\ RateTypeOK
  /\ SharedHolds
  /\ \A i \in Instances : LocalHolds(i)

(* The constants of the rate limit. *)
LEMMA RateConstants ==
  /\ Capacity \in Nat /\ Refill \in Nat /\ Stale \in Nat /\ Cooldown \in Nat
  /\ MaxLead \in Nat /\ MaxTime \in Nat /\ MaxFaults \in Nat /\ Capacity >= 1
  /\ "shared" \notin Instances /\ NoBucket \notin [tokens : Nat, at : Nat]
BY RateLimitAssumption

(* A clock is a time up to the bound and its lead. *)
LEMMA ClockIsTime ==
  ASSUME RateTypeOK, NEW i \in Instances
  PROVE  /\ Clock(i) \in Nat /\ Clock(i) \in 0..(MaxTime + MaxLead)
         /\ time <= Clock(i) /\ Clock(i) <= time + MaxLead /\ time \in Nat
BY RateConstants DEF RateTypeOK, Clock

(* A row is no bucket, or has tokens and a time. *)
LEMMA RowIsTyped ==
  ASSUME NEW b \in Rows
  PROVE  b = NoBucket \/ (b # NoBucket /\ b \in [tokens : 0..Capacity, at : 0..(MaxTime + MaxLead)]
                            /\ b.tokens \in Nat /\ b.at \in Nat /\ b.tokens <= Capacity /\ b.at <= MaxTime + MaxLead)
BY RateConstants DEF Rows

(* A bucket holds between nothing and its capacity, and no more than what it *)
(* had and what has come in since its own time.                              *)
LEMMA RefilledBound ==
  ASSUME NEW b \in Rows, NEW c \in Nat
  PROVE  /\ Refilled(b, c) \in 0..Capacity
         /\ b = NoBucket => Refilled(b, c) = Capacity
         /\ b # NoBucket => /\ Refilled(b, c) + Worth(Least(b.at, c)) <= b.tokens + Worth(c)
                            /\ Refilled(b, c) + Worth(b.at) <= b.tokens + Worth(Greatest(b.at, c))
<1>1. CASE b = NoBucket
  BY <1>1, RateConstants DEF Refilled
<1>2. CASE b # NoBucket
  <2>1. b.tokens \in Nat /\ b.at \in Nat /\ b.tokens <= Capacity /\ Capacity \in Nat
    BY <1>2, RowIsTyped, RateConstants
  <2>2. CASE c <= b.at
    <3>1. Greatest(0, c - b.at) = 0 /\ Least(b.at, c) = c /\ Greatest(b.at, c) = b.at
      BY <2>1, <2>2 DEF Greatest, Least
    <3>2. Refilled(b, c) = Least(Capacity, b.tokens + 0)
      BY <3>1, <1>2, <2>1, RateConstants, WorthLaws DEF Refilled
    <3>3. Worth(c) \in Nat /\ Worth(b.at) \in Nat
      BY <2>1, WorthLaws
    <3> QED BY <3>1, <3>2, <3>3, <2>1, <1>2 DEF Least
  <2>3. CASE b.at < c
    <3> DEFINE d == c - b.at
    <3>1. d \in Nat /\ c = b.at + d /\ d > 0
      BY <2>1, <2>3
    <3>2. Greatest(0, c - b.at) = d /\ Least(b.at, c) = b.at /\ Greatest(b.at, c) = c
      BY <2>1, <2>3 DEF Greatest, Least
    <3> HIDE DEF d
    <3>3. d * Refill = Worth(d) /\ Worth(d) \in Nat /\ Worth(b.at) \in Nat
      BY <2>1, <3>1, WorthLaws
    <3>4. Worth(c) = Worth(b.at) + Worth(d)
      BY <2>1, <3>1, WorthLaws
    <3>5. Refilled(b, c) = Least(Capacity, b.tokens + Worth(d))
      BY <3>2, <3>3, <1>2 DEF Refilled
    <3> QED BY <3>2, <3>3, <3>4, <3>5, <2>1, <1>2 DEF Least
  <2> QED BY <2>1, <2>2, <2>3
<1> QED BY <1>1, <1>2

(* Init => RateInvariant *)
LEMMA RateStarts == RateInit => RateInvariant
<1> SUFFICES ASSUME RateInit PROVE RateInvariant
  OBVIOUS
<1>1. RateTypeOK
  BY RateConstants DEF RateInit, RateTypeOK, Rows, Buckets
<1>2. SharedHolds
  BY RateConstants, WorthLaws DEF RateInit, SharedHolds, Buckets
<1>3. ASSUME NEW i \in Instances PROVE LocalHolds(i)
  <2>1. Worth(Clock(i)) \in Nat
    BY <1>1, ClockIsTime, WorthLaws
  <2> QED BY <2>1 DEF RateInit, LocalHolds, Buckets
<1> QED BY <1>1, <1>2, <1>3 DEF RateInvariant

(* A request that is answered from memory. *)
LEMMA FallBackKeeps ==
  ASSUME RateInvariant, NEW i \in Instances, FallBack(i), UNCHANGED <<time, lead, shared, slack>>
  PROVE  /\ local' \in [Instances -> Rows] /\ admitted' \in [Buckets -> Nat]
         /\ SharedHolds' /\ \A j \in Instances : LocalHolds(j)'
<1> DEFINE b == IF local[i] # NoBucket /\ Clock(i) - local[i].at > Stale THEN NoBucket ELSE local[i]
<1> DEFINE n == Refilled(b, Clock(i))
<1> DEFINE new == ConsumeToken(b, Clock(i))
<1>1. RateTypeOK /\ LocalHolds(i) /\ SharedHolds
  BY DEF RateInvariant
<1>2. /\ Clock(i) \in Nat /\ Clock(i) \in 0..(MaxTime + MaxLead)
      /\ admitted[i] \in Nat /\ slack[i] \in Nat /\ Capacity \in Nat /\ Stale \in Nat
      /\ i \in Buckets /\ i # "shared" /\ "shared" \in Buckets
      /\ local[i] \in Rows /\ Worth(Clock(i)) \in Nat
  BY <1>1, ClockIsTime, RateConstants, WorthLaws DEF RateTypeOK, Buckets
<1>3. b \in Rows
  BY <1>2 DEF Rows
<1>4. n \in 0..Capacity
  BY <1>2, <1>3, RefilledBound
<1>5. admitted[i] + n <= Capacity + Worth(Clock(i)) + slack[i]
  <2>1. CASE local[i] = NoBucket
    <3>1. n = Capacity
      BY <1>2, <1>3, <2>1, RefilledBound
    <3> QED BY <3>1, <1>1, <1>2, <2>1 DEF LocalHolds
  <2>2. CASE local[i] # NoBucket
    <3> DEFINE at == local[i].at
    <3>1. at \in Nat /\ local[i].tokens \in Nat
      BY <1>2, <2>2, RowIsTyped
    <3>2. admitted[i] + local[i].tokens <= Capacity + Worth(Least(at, Clock(i))) + slack[i]
      BY <1>1, <2>2 DEF LocalHolds
    <3>3. Worth(Least(at, Clock(i))) \in Nat
      BY <1>2, <3>1, WorthLaws DEF Least
    <3>4. CASE Clock(i) - at > Stale
      <4> DEFINE s == at + Stale
      <4> DEFINE d == Clock(i) - s
      <4>1. n = Capacity
        BY <1>2, <1>3, <2>2, <3>4, RefilledBound
      <4>2. s \in Nat /\ d \in Nat /\ Clock(i) = s + d /\ Least(at, Clock(i)) = at
        BY <1>2, <3>1, <3>4 DEF Least
      <4>3. Worth(s) = Worth(at) + Worth(Stale) /\ Worth(at) \in Nat /\ Worth(Stale) \in Nat /\ Capacity <= Worth(Stale)
        BY <1>2, <3>1, WorthLaws
      <4> HIDE DEF s, d
      <4>4. Worth(Clock(i)) = Worth(s) + Worth(d) /\ Worth(d) \in Nat
        BY <4>2, WorthLaws
      <4> QED BY <1>2, <3>1, <3>2, <4>1, <4>2, <4>3, <4>4
    <3>5. CASE ~(Clock(i) - at > Stale)
      <4>1. b = local[i]
        BY <3>5
      <4> HIDE DEF b
      <4>2. n + Worth(Least(at, Clock(i))) <= local[i].tokens + Worth(Clock(i))
        BY <1>2, <1>3, <2>2, <4>1, RefilledBound
      <4> HIDE DEF n
      <4> QED BY <1>2, <1>4, <3>1, <3>2, <3>3, <4>2
    <3> QED BY <3>4, <3>5
  <2> QED BY <2>1, <2>2
<1>6. /\ local' = [local EXCEPT ![i] = new]
      /\ IF n >= 1 THEN admitted' = [admitted EXCEPT ![i] = @ + 1] ELSE admitted' = admitted
  BY DEF FallBack, Admit
<1>7. new = [tokens |-> IF n >= 1 THEN n - 1 ELSE n, at |-> Clock(i)]
  BY DEF ConsumeToken
<1> HIDE DEF new, n, b
<1>8. /\ new \in [tokens : 0..Capacity, at : 0..(MaxTime + MaxLead)] /\ new.at = Clock(i)
      /\ new # NoBucket /\ new.tokens = IF n >= 1 THEN n - 1 ELSE n
  BY <1>2, <1>4, <1>7, RateConstants
<1>9. local' \in [Instances -> Rows] /\ admitted' \in [Buckets -> Nat]
  BY <1>1, <1>2, <1>6, <1>8 DEF RateTypeOK, Rows
<1>10. SharedHolds'
  <2>1. admitted'["shared"] = admitted["shared"]
    BY <1>1, <1>2, <1>6 DEF RateTypeOK
  <2> QED BY <1>1, <2>1 DEF SharedHolds
<1>11. ASSUME NEW j \in Instances PROVE LocalHolds(j)'
  <2>1. Clock(j)' = Clock(j) /\ slack'[j] = slack[j]
    BY DEF Clock
  <2>2. CASE j = i
    <3>1. local'[i] = new /\ admitted'[i] + new.tokens <= admitted[i] + n
      BY <1>1, <1>2, <1>4, <1>6, <1>8 DEF RateTypeOK
    <3>2. Least(new.at, Clock(i)) = Clock(i)
      BY <1>2, <1>8 DEF Least
    <3>3. admitted'[i] \in Nat /\ new.tokens \in Nat
      BY <1>2, <1>8, <1>9, RateConstants
    <3>4. admitted'[i] + new.tokens <= Capacity + Worth(Clock(i)) + slack[i]
      BY <1>2, <1>4, <1>5, <3>1, <3>3
    <3> QED BY <1>8, <2>1, <2>2, <3>1, <3>2, <3>4 DEF LocalHolds
  <2>3. CASE j # i
    <3>1. local'[j] = local[j] /\ admitted'[j] = admitted[j]
      BY <1>1, <1>2, <1>6, <2>3 DEF RateTypeOK, Buckets
    <3> QED BY <2>1, <3>1 DEF LocalHolds, RateInvariant
  <2> QED BY <2>2, <2>3
<1> QED BY <1>9, <1>10, <1>11

(* A request that the row admits. *)
LEMMA ConsumeSharedKeeps ==
  ASSUME RateInvariant, NEW i \in Instances, ConsumeShared(i)
  PROVE  RateInvariant'
<1> DEFINE n == Refilled(shared, Clock(i))
<1> DEFINE new == ConsumeViaDatabase(shared, Clock(i))
<1>1. RateTypeOK /\ SharedHolds
  BY DEF RateInvariant
<1>2. /\ Clock(i) \in Nat /\ Clock(i) \in 0..(MaxTime + MaxLead) /\ time \in Nat
      /\ time <= Clock(i) /\ Clock(i) <= time + MaxLead
      /\ admitted["shared"] \in Nat /\ slack["shared"] \in Nat /\ Capacity \in Nat /\ MaxLead \in Nat
      /\ "shared" \in Buckets /\ shared \in Rows /\ Worth(Clock(i)) \in Nat /\ Worth(time) \in Nat
  BY <1>1, ClockIsTime, RateConstants, WorthLaws DEF RateTypeOK, Buckets
<1>3. n \in 1..Capacity
  BY <1>2, RefilledBound DEF ConsumeShared
<1> DEFINE at == IF shared = NoBucket THEN Clock(i) ELSE Greatest(shared.at, Clock(i))
<1>4. /\ at \in 0..(MaxTime + MaxLead) /\ at <= time + MaxLead
      /\ admitted["shared"] + n <= Capacity + Worth(at) + slack["shared"]
  <2>1. CASE shared = NoBucket
    <3>1. n = Capacity
      BY <1>2, <2>1, RefilledBound
    <3>2. Worth(time) <= Worth(Clock(i))
      BY <1>2, WorthGrows
    <3> QED BY <3>1, <3>2, <1>1, <1>2, <2>1 DEF SharedHolds
  <2>2. CASE shared # NoBucket
    <3>1. shared.at \in Nat /\ shared.tokens \in Nat /\ shared.at <= MaxTime + MaxLead /\ MaxTime \in Nat
      BY <1>2, <2>2, RowIsTyped, RateConstants
    <3>2. admitted["shared"] + shared.tokens <= Capacity + Worth(shared.at) + slack["shared"] /\ shared.at <= time + MaxLead
      BY <1>1, <2>2 DEF SharedHolds
    <3>3. at = Greatest(shared.at, Clock(i)) /\ at \in Nat /\ Worth(at) \in Nat /\ Worth(shared.at) \in Nat
      BY <1>2, <2>2, <3>1, WorthLaws DEF Greatest
    <3>4. n + Worth(shared.at) <= shared.tokens + Worth(at)
      BY <1>2, <2>2, <3>3, RefilledBound
    <3>5. at \in 0..(MaxTime + MaxLead) /\ at <= time + MaxLead
      BY <1>2, <3>1, <3>2, <3>3 DEF Greatest
    <3> HIDE DEF n, at
    <3> QED BY <1>2, <1>3, <3>1, <3>2, <3>3, <3>4, <3>5
  <2> QED BY <2>1, <2>2
<1>5. new = [tokens |-> n - 1, at |-> at]
  BY DEF ConsumeViaDatabase
<1>6. shared' = new /\ admitted' = [admitted EXCEPT !["shared"] = @ + 1]
      /\ UNCHANGED <<time, lead, local, offUntil, faults, slack>>
  BY DEF ConsumeShared, Admit
<1> HIDE DEF new, n, at
<1>7. /\ new \in [tokens : 0..Capacity, at : 0..(MaxTime + MaxLead)] /\ new.at = at
      /\ new # NoBucket /\ new.tokens = n - 1
  BY <1>2, <1>3, <1>4, <1>5, RateConstants
<1>8. RateTypeOK'
  BY <1>1, <1>2, <1>6, <1>7 DEF RateTypeOK, Rows
<1>9. SharedHolds'
  <2>1. admitted'["shared"] = admitted["shared"] + 1
    BY <1>1, <1>2, <1>6 DEF RateTypeOK
  <2>2. admitted["shared"] + 1 + (n - 1) = admitted["shared"] + n
    BY <1>2, <1>3
  <2> QED BY <1>2, <1>3, <1>4, <1>6, <1>7, <2>1, <2>2 DEF SharedHolds
<1>10. ASSUME NEW j \in Instances PROVE LocalHolds(j)'
  <2>1. Clock(j)' = Clock(j) /\ slack'[j] = slack[j] /\ local'[j] = local[j]
    BY <1>6 DEF Clock
  <2>2. admitted'[j] = admitted[j]
    BY <1>1, <1>6, RateConstants DEF RateTypeOK, Buckets
  <2> QED BY <2>1, <2>2 DEF LocalHolds, RateInvariant
<1> QED BY <1>8, <1>9, <1>10 DEF RateInvariant

(* A row that is pruned: the burst that the next row starts with had come in *)
(* since the old one was last written, but for what the clocks differ by.    *)
LEMMA PruneKeeps ==
  ASSUME RateInvariant, NEW i \in Instances, Prune(i)
  PROVE  RateInvariant'
<1>1. RateTypeOK /\ SharedHolds
  BY DEF RateInvariant
<1>2. /\ Clock(i) \in Nat /\ time \in Nat /\ Clock(i) <= time + MaxLead
      /\ admitted["shared"] \in Nat /\ slack["shared"] \in Nat /\ Capacity \in Nat /\ MaxLead \in Nat
      /\ Stale \in Nat /\ "shared" \in Buckets /\ shared \in Rows
  BY <1>1, ClockIsTime, RateConstants DEF RateTypeOK, Buckets
<1>3. /\ shared # NoBucket /\ shared.at < Clock(i) - Stale /\ shared' = NoBucket
      /\ slack' = [slack EXCEPT !["shared"] = @ + Worth(MaxLead)]
      /\ faults > 0 /\ faults' = faults - 1
      /\ UNCHANGED <<time, lead, local, offUntil, admitted>>
  BY DEF Prune, Worth
<1>4. shared.at \in Nat /\ shared.tokens \in Nat
  BY <1>2, <1>3, RowIsTyped
<1>5. Worth(MaxLead) \in Nat
  BY <1>2, WorthLaws
<1>6. RateTypeOK'
  BY <1>1, <1>2, <1>3, <1>5, RateConstants DEF RateTypeOK, Rows
<1>7. SharedHolds'
  <2> DEFINE s == shared.at + Stale
  <2> DEFINE l == time + MaxLead
  <2>1. s \in Nat /\ l \in Nat /\ s <= l
    BY <1>2, <1>3, <1>4
  <2>2. Worth(s) = Worth(shared.at) + Worth(Stale) /\ Worth(shared.at) \in Nat /\ Worth(Stale) \in Nat
        /\ Capacity <= Worth(Stale)
    BY <1>2, <1>4, WorthLaws
  <2>3. Worth(l) = Worth(time) + Worth(MaxLead) /\ Worth(time) \in Nat
    BY <1>2, WorthLaws
  <2> HIDE DEF s, l
  <2>4. Worth(s) <= Worth(l)
    BY <2>1, WorthGrows
  <2>5. slack'["shared"] = slack["shared"] + Worth(MaxLead)
    BY <1>1, <1>2, <1>3 DEF RateTypeOK
  <2>6. admitted["shared"] + shared.tokens <= Capacity + Worth(shared.at) + slack["shared"]
    BY <1>1, <1>3 DEF SharedHolds
  <2>7. admitted["shared"] <= Worth(time) + slack'["shared"]
    BY <1>2, <1>4, <1>5, <2>2, <2>3, <2>4, <2>5, <2>6
  <2> QED BY <1>3, <2>7 DEF SharedHolds
<1>8. ASSUME NEW j \in Instances PROVE LocalHolds(j)'
  <2>1. Clock(j)' = Clock(j) /\ local'[j] = local[j] /\ admitted'[j] = admitted[j]
    BY <1>3 DEF Clock
  <2>2. slack'[j] = slack[j]
    BY <1>1, <1>3, RateConstants DEF RateTypeOK, Buckets
  <2> QED BY <2>1, <2>2 DEF LocalHolds, RateInvariant
<1> QED BY <1>6, <1>7, <1>8 DEF RateInvariant

(* A memory that is evicted gives away a burst. *)
LEMMA EvictKeeps ==
  ASSUME RateInvariant, NEW i \in Instances, Evict(i)
  PROVE  RateInvariant'
<1>1. RateTypeOK /\ SharedHolds /\ LocalHolds(i)
  BY DEF RateInvariant
<1>2. /\ Clock(i) \in Nat /\ admitted[i] \in Nat /\ slack[i] \in Nat /\ Capacity \in Nat
      /\ i \in Buckets /\ i # "shared" /\ local[i] \in Rows
  BY <1>1, ClockIsTime, RateConstants DEF RateTypeOK, Buckets
<1>3. /\ local[i] # NoBucket /\ local' = [local EXCEPT ![i] = NoBucket]
      /\ slack' = [slack EXCEPT ![i] = @ + Capacity]
      /\ faults > 0 /\ faults' = faults - 1
      /\ UNCHANGED <<time, lead, shared, offUntil, admitted>>
  BY DEF Evict
<1>4. local[i].at \in Nat /\ local[i].tokens \in Nat
  BY <1>2, <1>3, RowIsTyped
<1>5. RateTypeOK'
  BY <1>1, <1>2, <1>3, RateConstants DEF RateTypeOK, Rows
<1>6. SharedHolds'
  <2>1. slack'["shared"] = slack["shared"]
    BY <1>1, <1>2, <1>3 DEF RateTypeOK
  <2> QED BY <1>1, <1>3, <2>1 DEF SharedHolds
<1>7. ASSUME NEW j \in Instances PROVE LocalHolds(j)'
  <2>1. Clock(j)' = Clock(j) /\ admitted'[j] = admitted[j]
    BY <1>3 DEF Clock
  <2>2. CASE j = i
    <3> DEFINE l == Least(local[i].at, Clock(i))
    <3>1. l \in Nat /\ l <= Clock(i)
      BY <1>2, <1>4 DEF Least
    <3>2. admitted[i] + local[i].tokens <= Capacity + Worth(l) + slack[i]
      BY <1>1, <1>3 DEF LocalHolds
    <3> HIDE DEF l
    <3>3. Worth(l) <= Worth(Clock(i)) /\ Worth(l) \in Nat /\ Worth(Clock(i)) \in Nat
      BY <1>2, <3>1, WorthGrows, WorthLaws
    <3>4. local'[i] = NoBucket /\ slack'[i] = slack[i] + Capacity
      BY <1>1, <1>2, <1>3 DEF RateTypeOK
    <3>5. admitted[i] <= Worth(Clock(i)) + slack'[i]
      BY <1>2, <1>4, <3>2, <3>3, <3>4
    <3> QED BY <2>1, <2>2, <3>4, <3>5 DEF LocalHolds
  <2>3. CASE j # i
    <3>1. local'[j] = local[j] /\ slack'[j] = slack[j]
      BY <1>1, <1>2, <1>3, <2>3 DEF RateTypeOK, Buckets
    <3> QED BY <2>1, <3>1 DEF LocalHolds, RateInvariant
  <2> QED BY <2>2, <2>3
<1> QED BY <1>5, <1>6, <1>7 DEF RateInvariant

(* A memory's budget where its clock reads c and it may have been given s    *)
(* more: later clocks and more slack keep it, and a clock that goes back     *)
(* keeps it when the slack makes up for the difference.                      *)
LEMMA BudgetMoves ==
  ASSUME RateTypeOK, NEW i \in Instances, LocalHolds(i),
         local'[i] = local[i], admitted'[i] = admitted[i], Clock(i)' \in Nat, slack'[i] \in Nat,
         \/ Clock(i) <= Clock(i)' /\ slack[i] <= slack'[i]
         \/ Clock(i)' < Clock(i) /\ slack'[i] = slack[i] + Worth(Clock(i) - Clock(i)')
  PROVE  LocalHolds(i)'
<1> DEFINE c == Clock(i)
<1> DEFINE e == Clock(i)'
<1>1. /\ c \in Nat /\ e \in Nat /\ admitted[i] \in Nat /\ slack[i] \in Nat /\ slack'[i] \in Nat
      /\ Capacity \in Nat /\ local[i] \in Rows
  BY ClockIsTime, RateConstants DEF RateTypeOK, Buckets
<1>2. \/ c <= e /\ slack[i] <= slack'[i]
      \/ e < c /\ slack'[i] = slack[i] + Worth(c - e)
  OBVIOUS
<1>3. LocalHolds(i)' <=>
        IF local[i] = NoBucket
        THEN admitted[i] <= Worth(e) + slack'[i]
        ELSE admitted[i] + local[i].tokens <= Capacity + Worth(Least(local[i].at, e)) + slack'[i]
  BY DEF LocalHolds, Worth, Least
<1>4. IF local[i] = NoBucket
      THEN admitted[i] <= Worth(c) + slack[i]
      ELSE admitted[i] + local[i].tokens <= Capacity + Worth(Least(local[i].at, c)) + slack[i]
  BY DEF LocalHolds
<1> HIDE DEF c, e
<1>5. slack[i] <= slack'[i]
  <2>1. CASE e < c
    <3> DEFINE f == c - e
    <3>1. f \in Nat /\ slack'[i] = slack[i] + Worth(f)
      BY <1>1, <1>2, <2>1
    <3>2. Worth(f) \in Nat
      BY <3>1, WorthLaws
    <3> QED BY <3>1, <3>2, <1>1
  <2> QED BY <1>1, <1>2, <2>1
<1>6. ASSUME NEW m \in Nat, NEW l \in Nat, m <= l \/ (l < m /\ m - l <= c - e /\ e < c)
      PROVE  Worth(m) + slack[i] <= Worth(l) + slack'[i] /\ Worth(m) \in Nat /\ Worth(l) \in Nat
  <2>1. Worth(m) \in Nat /\ Worth(l) \in Nat
    BY WorthLaws
  <2>2. CASE m <= l
    <3>1. Worth(m) <= Worth(l)
      BY <2>2, WorthGrows
    <3> QED BY <2>1, <2>2, <3>1, <1>1, <1>5
  <2>3. CASE l < m /\ m - l <= c - e /\ e < c
    <3> DEFINE d == m - l
    <3> DEFINE f == c - e
    <3>1. d \in Nat /\ f \in Nat /\ d <= f /\ m = l + d
      BY <1>1, <2>3
    <3>2. slack'[i] = slack[i] + Worth(f)
      BY <1>1, <1>2, <2>3
    <3> HIDE DEF d, f
    <3>3. Worth(d) <= Worth(f) /\ Worth(d) \in Nat /\ Worth(f) \in Nat
      BY <3>1, WorthGrows, WorthLaws
    <3>4. Worth(m) = Worth(l) + Worth(d)
      BY <3>1, WorthLaws
    <3> QED BY <1>1, <2>1, <3>2, <3>3, <3>4
  <2> QED BY <1>6, <2>2, <2>3
<1>7. CASE local[i] = NoBucket
  <2>1. c <= e \/ (e < c /\ c - e <= c - e /\ e < c)
    BY <1>1
  <2>2. Worth(c) + slack[i] <= Worth(e) + slack'[i] /\ Worth(c) \in Nat /\ Worth(e) \in Nat
    BY <1>1, <2>1, <1>6
  <2> QED BY <1>1, <1>3, <1>4, <1>7, <2>2
<1>8. CASE local[i] # NoBucket
  <2> DEFINE m == Least(local[i].at, c)
  <2> DEFINE l == Least(local[i].at, e)
  <2>1. local[i].at \in Nat /\ local[i].tokens \in Nat
    BY <1>1, <1>8, RowIsTyped
  <2>2. m \in Nat /\ l \in Nat /\ (m <= l \/ (l < m /\ m - l <= c - e /\ e < c))
    BY <1>1, <2>1 DEF Least
  <2> HIDE DEF m, l
  <2>3. Worth(m) + slack[i] <= Worth(l) + slack'[i] /\ Worth(m) \in Nat /\ Worth(l) \in Nat
    BY <1>6, <2>2
  <2>4. admitted[i] + local[i].tokens <= Capacity + Worth(m) + slack[i]
    BY <1>4, <1>8 DEF m
  <2>5. admitted[i] + local[i].tokens <= Capacity + Worth(l) + slack'[i]
    BY <1>1, <2>1, <2>3, <2>4
  <2> QED BY <1>3, <1>8, <2>5 DEF l
<1> QED BY <1>7, <1>8

(* Time passes. *)
LEMMA TimePassesKeeps ==
  ASSUME RateInvariant, TimePassesBy
  PROVE  RateInvariant'
<1>1. RateTypeOK /\ SharedHolds
  BY DEF RateInvariant
<1>2. /\ time \in Nat /\ time < MaxTime /\ time' = time + 1 /\ MaxTime \in Nat /\ MaxLead \in Nat
      /\ UNCHANGED <<lead, shared, local, offUntil, faults, admitted, slack>>
  BY <1>1, RateConstants DEF TimePassesBy, RateTypeOK
<1>3. RateTypeOK'
  <2>1. time' \in 0..MaxTime
    BY <1>2
  <2> QED BY <1>1, <1>2, <2>1 DEF RateTypeOK
<1>4. SharedHolds'
  <2>1. CASE shared = NoBucket
    <3>1. Worth(time) <= Worth(time') /\ Worth(time) \in Nat /\ Worth(time') \in Nat
      <4>1. time' \in Nat /\ time <= time'
        BY <1>2
      <4> QED BY <1>2, <4>1, WorthGrows, WorthLaws
    <3>2. admitted["shared"] \in Nat /\ slack["shared"] \in Nat
      BY <1>1 DEF RateTypeOK, Buckets
    <3>3. admitted["shared"] <= Worth(time) + slack["shared"]
      BY <1>1, <2>1 DEF SharedHolds
    <3>4. admitted["shared"] <= Worth(time') + slack["shared"]
      BY <3>1, <3>2, <3>3
    <3> QED BY <1>2, <2>1, <3>4 DEF SharedHolds
  <2>2. CASE shared # NoBucket
    <3>1. shared.at \in Nat /\ shared.at <= time + MaxLead
      BY <1>1, <2>2, RowIsTyped DEF RateTypeOK, SharedHolds
    <3>2. shared.at <= time' + MaxLead
      BY <1>2, <3>1
    <3> QED BY <1>1, <1>2, <2>2, <3>2 DEF SharedHolds
  <2> QED BY <2>1, <2>2
<1>5. ASSUME NEW i \in Instances PROVE LocalHolds(i)'
  <2>1. Clock(i) \in Nat /\ Clock(i)' \in Nat /\ Clock(i) <= Clock(i)' /\ slack[i] \in Nat
    BY <1>1, <1>2, RateConstants DEF Clock, RateTypeOK, Buckets
  <2> QED BY <1>1, <1>2, <2>1, BudgetMoves DEF RateInvariant
<1> QED BY <1>3, <1>4, <1>5 DEF RateInvariant

(* A clock is corrected. *)
LEMMA CorrectClockKeeps ==
  ASSUME RateInvariant, NEW i \in Instances, CorrectClock(i)
  PROVE  RateInvariant'
<1>1. RateTypeOK /\ SharedHolds
  BY DEF RateInvariant
<1>2. PICK l \in 0..MaxLead :
        /\ lead' = [lead EXCEPT ![i] = l]
        /\ slack' = [slack EXCEPT ![i] = @ + Worth(Greatest(0, lead[i] - l))]
  BY DEF CorrectClock, Worth
<1>3. faults > 0 /\ faults' = faults - 1 /\ UNCHANGED <<time, shared, local, offUntil, admitted>>
  BY DEF CorrectClock
<1>4. /\ i \in Buckets /\ i # "shared" /\ lead[i] \in Nat /\ l \in Nat /\ time \in Nat
      /\ slack[i] \in Nat /\ MaxLead \in Nat
  BY <1>1, RateConstants DEF RateTypeOK, Buckets
<1> DEFINE g == Greatest(0, lead[i] - l)
<1>5. g \in Nat /\ (lead[i] <= l => g = 0) /\ (l < lead[i] => g = lead[i] - l)
  BY <1>4 DEF Greatest
<1>6. Worth(g) \in Nat /\ slack' = [slack EXCEPT ![i] = @ + Worth(g)]
  BY <1>2, <1>5, WorthLaws
<1> HIDE DEF g
<1>7. RateTypeOK'
  BY <1>1, <1>2, <1>3, <1>4, <1>6, RateConstants DEF RateTypeOK
<1>8. SharedHolds'
  <2>1. slack'["shared"] = slack["shared"]
    BY <1>1, <1>4, <1>6 DEF RateTypeOK
  <2> QED BY <1>1, <1>3, <2>1 DEF SharedHolds
<1>9. ASSUME NEW j \in Instances PROVE LocalHolds(j)'
  <2>1. CASE j = i
    <3>1. slack'[i] = slack[i] + Worth(g) /\ lead'[i] = l /\ slack'[i] \in Nat
      BY <1>1, <1>2, <1>4, <1>6 DEF RateTypeOK
    <3>2. Clock(i) = time + lead[i] /\ Clock(i)' = time + l
      BY <1>3, <3>1 DEF Clock
    <3>3. Clock(i) \in Nat /\ Clock(i)' \in Nat
      BY <1>4, <3>2
    <3>4. CASE lead[i] <= l
      <4>1. Clock(i) <= Clock(i)' /\ slack[i] <= slack'[i]
        BY <1>4, <1>6, <3>1, <3>2, <3>4
      <4> QED BY <1>1, <1>3, <2>1, <3>1, <3>3, <4>1, BudgetMoves DEF RateInvariant
    <3>5. CASE l < lead[i]
      <4>1. Clock(i)' < Clock(i) /\ Clock(i) - Clock(i)' = g
        BY <1>4, <1>5, <3>2, <3>5
      <4>2. slack'[i] = slack[i] + Worth(Clock(i) - Clock(i)')
        BY <3>1, <4>1
      <4> QED BY <1>1, <1>3, <2>1, <3>1, <3>3, <4>1, <4>2, BudgetMoves DEF RateInvariant
    <3> QED BY <1>4, <3>4, <3>5
  <2>2. CASE j # i
    <3>1. slack'[j] = slack[j] /\ lead'[j] = lead[j]
      BY <1>1, <1>2, <1>6, <2>2 DEF RateTypeOK, Buckets
    <3>2. Clock(j)' = Clock(j)
      BY <1>3, <3>1 DEF Clock
    <3> QED BY <1>3, <3>1, <3>2 DEF LocalHolds, RateInvariant
  <2> QED BY <2>1, <2>2
<1> QED BY <1>7, <1>8, <1>9 DEF RateInvariant

(* Every step keeps the budgets. *)
LEMMA RateSteps ==
  ASSUME RateInvariant, [RateNext]_rateVars
  PROVE  RateInvariant'
<1>1. CASE TimePassesBy
  BY <1>1, TimePassesKeeps
<1>2. ASSUME NEW i \in Instances, ConsumeShared(i) PROVE RateInvariant'
  BY <1>2, ConsumeSharedKeeps
<1>3. ASSUME NEW i \in Instances, ConsumeFails(i) PROVE RateInvariant'
  <2>1. RateTypeOK /\ FallBack(i) /\ UNCHANGED <<time, lead, shared, slack>>
    BY <1>3 DEF RateInvariant, ConsumeFails
  <2>2. Clock(i) \in 0..(MaxTime + MaxLead) /\ Cooldown \in Nat /\ MaxTime \in Nat /\ MaxLead \in Nat
    BY <2>1, ClockIsTime, RateConstants
  <2>3. Clock(i) + Cooldown \in 0..(MaxTime + MaxLead + Cooldown)
    BY <2>2
  <2>4. offUntil' = [offUntil EXCEPT ![i] = Clock(i) + Cooldown] /\ faults > 0 /\ faults' = faults - 1
    BY <1>3 DEF ConsumeFails
  <2>5. offUntil' \in [Instances -> 0..(MaxTime + MaxLead + Cooldown)] /\ faults' \in 0..MaxFaults
    BY <2>1, <2>3, <2>4, RateConstants DEF RateTypeOK
  <2> QED BY <2>1, <2>5, FallBackKeeps DEF RateInvariant, RateTypeOK
<1>4. ASSUME NEW i \in Instances, ConsumeInCooldown(i) PROVE RateInvariant'
  <2>1. FallBack(i) /\ UNCHANGED <<time, lead, shared, offUntil, faults, slack>>
    BY <1>4 DEF ConsumeInCooldown
  <2> QED BY <2>1, FallBackKeeps DEF RateInvariant, RateTypeOK
<1>5. ASSUME NEW i \in Instances, Prune(i) PROVE RateInvariant'
  BY <1>5, PruneKeeps
<1>6. ASSUME NEW i \in Instances, Evict(i) PROVE RateInvariant'
  BY <1>6, EvictKeeps
<1>7. ASSUME NEW i \in Instances, CorrectClock(i) PROVE RateInvariant'
  BY <1>7, CorrectClockKeeps
<1>8. CASE UNCHANGED rateVars
  BY <1>8 DEF rateVars, RateInvariant, RateTypeOK, SharedHolds, LocalHolds, Clock
<1> QED BY <1>1, <1>2, <1>3, <1>4, <1>5, <1>6, <1>7, <1>8 DEF RateNext

(* The rate limit keeps its state's type. *)
THEOREM RateTyped == RateSpec => []RateTypeOK
<1>1. RateInvariant /\ [RateNext]_rateVars => RateInvariant'
  BY RateSteps
<1>2. RateInvariant => RateTypeOK
  BY DEF RateInvariant
<1> QED BY <1>1, <1>2, RateStarts, PTL DEF RateSpec

(* Review #98.  However many instances there are, however far apart and      *)
(* however often corrected their clocks, the row and each memory let through *)
(* no more than FloorHeld allows: a burst, what came in, and what prunes,    *)
(* evictions and corrections gave away.                                      *)
THEOREM FloorIsHeld == RateSpec => []FloorHeld
<1>1. RateInvariant /\ [RateNext]_rateVars => RateInvariant'
  BY RateSteps
<1>2. RateInvariant => FloorHeld
  <2> SUFFICES ASSUME RateInvariant, NEW k \in Buckets
               PROVE  admitted[k] <= Capacity + Worth(time + MaxLead) + slack[k]
    BY DEF FloorHeld, Worth
  <2> DEFINE l == time + MaxLead
  <2>1. RateTypeOK /\ SharedHolds
    BY DEF RateInvariant
  <2>2. /\ admitted[k] \in Nat /\ slack[k] \in Nat /\ time \in Nat /\ l \in Nat /\ time <= l
        /\ Capacity \in Nat
    BY <2>1, RateConstants DEF RateTypeOK
  <2> HIDE DEF l
  <2>3. Worth(l) \in Nat
    BY <2>2, WorthLaws
  <2>4. ASSUME NEW m \in Nat, m <= l, NEW x \in Nat, admitted[k] + x <= Capacity + Worth(m) + slack[k]
        PROVE  admitted[k] <= Capacity + Worth(l) + slack[k]
    <3>1. Worth(m) \in Nat /\ Worth(m) <= Worth(l)
      BY <2>2, <2>4, WorthLaws, WorthGrows
    <3> QED BY <2>2, <2>3, <2>4, <3>1
  <2>5. CASE k = "shared"
    <3>1. CASE shared = NoBucket
      <4>1. admitted[k] <= Worth(time) + slack[k] /\ Worth(time) \in Nat
        BY <2>1, <2>2, <2>5, <3>1, WorthLaws DEF SharedHolds
      <4>2. admitted[k] + 0 <= Capacity + Worth(time) + slack[k]
        BY <2>2, <4>1
      <4> QED BY <2>2, <2>4, <4>2 DEF l
    <3>2. CASE shared # NoBucket
      <4>1. shared.at \in Nat /\ shared.tokens \in Nat /\ shared.at <= l
        BY <2>1, <3>2, RowIsTyped DEF SharedHolds, RateTypeOK, l
      <4> QED BY <2>1, <2>4, <2>5, <3>2, <4>1 DEF SharedHolds, l
    <3> QED BY <3>1, <3>2
  <2>6. CASE k \in Instances
    <3>1. Clock(k) \in Nat /\ Clock(k) <= l /\ LocalHolds(k) /\ local[k] \in Rows
      BY <2>1, <2>6, ClockIsTime DEF l, RateInvariant, RateTypeOK
    <3>2. CASE local[k] = NoBucket
      <4>1. admitted[k] <= Worth(Clock(k)) + slack[k] /\ Worth(Clock(k)) \in Nat
        BY <3>1, <3>2, WorthLaws DEF LocalHolds
      <4>2. admitted[k] + 0 <= Capacity + Worth(Clock(k)) + slack[k]
        BY <2>2, <4>1
      <4> QED BY <2>4, <3>1, <4>2 DEF l
    <3>3. CASE local[k] # NoBucket
      <4> DEFINE m == Least(local[k].at, Clock(k))
      <4>1. local[k].tokens \in Nat /\ local[k].at \in Nat
        BY <3>1, <3>3, RowIsTyped
      <4>2. m \in Nat /\ m <= l
        BY <2>2, <3>1, <4>1 DEF Least
      <4>3. admitted[k] + local[k].tokens <= Capacity + Worth(m) + slack[k]
        BY <3>1, <3>3 DEF LocalHolds
      <4> HIDE DEF m
      <4> QED BY <2>4, <4>1, <4>2, <4>3 DEF l
    <3> QED BY <3>2, <3>3
  <2> QED BY <2>5, <2>6 DEF Buckets
<1> QED BY <1>1, <1>2, RateStarts, PTL DEF RateSpec

-----------------------------------------------------------------------------
(* The database login of production *)

OperatorRecords ==
  [at : {"idle", "read", "kept", "minted", "written", "drop"}, mode : {"create", "retire"},
   except : LoginNames, force : BOOLEAN, serving : Nat, gate : BOOLEAN, liveUser : LoginNames,
   login : LoginNames, password : 0..MaxLogins + 1, doomed : SUBSET Minutes]

Deployments == [connects : Connections, gated : BOOLEAN]

(* What a run knows, true to the deployment that it read.  A run that mints  *)
(* does not mint the login it saw in use; a run that retires unforced keeps  *)
(* the one it saw in use, or saw the owner in use.                           *)
RunKnows(r, ds) ==
  /\ r \in OperatorRecords
  /\ r.at # "idle" =>
       /\ r.serving \in DOMAIN ds
       /\ r.gate => r.liveUser = ds[r.serving].connects.name
       /\ r.mode = "create" =>
            /\ r.login \in Minutes /\ r.password \in 1..MaxLogins + 1
            /\ r.gate => r.liveUser # r.login
       /\ (r.mode = "retire" /\ ~r.force) => ~RetireRefused(r)
       /\ r.at \in {"minted", "written"} => r.mode = "create"
       /\ r.at \in {"kept", "drop"} => r.mode = "retire"
       /\ r.at = "drop" => r.except \notin r.doomed

LoginInvariant ==
  /\ LoginTypeOK
  /\ assigning \in BOOLEAN /\ excused \in BOOLEAN /\ passwords \in 0..MaxLogins
  /\ DOMAIN operator = Operators
  /\ \A o \in Operators : RunKnows(operator[o], deployed)
  /\ ServedLoginStands

(* The owner is no login that was minted, and a connection is the owner's or *)
(* a minted login's.                                                         *)
LEMMA LoginConstants ==
  /\ Owner0 = 0 /\ Owner0 \notin Minutes /\ Minutes \subseteq Nat /\ 1 \in Minutes
  /\ MaxLogins \in Nat /\ MaxDeploys \in Nat
  /\ \A c \in Connections : c.name \in LoginNames /\ (c.name # Owner0 => c.name \in Minutes)
BY LoginAssumption DEF Owner0, Connections, AsOwner, LoginNames

(* A run at rest knows nothing. *)
LEMMA UnreadKnows == (\A ds : RunKnows(Unread, ds)) /\ Unread.at = "idle"
<1>1. Unread \in OperatorRecords /\ Unread.at = "idle"
  BY LoginConstants DEF Unread, OperatorRecords, LoginNames
<1> QED BY <1>1 DEF RunKnows, OperatorRecords, LoginNames

(* What is deployed is not taken back: what a run knows stays true. *)
LEMMA KnowledgeStays ==
  ASSUME LoginTypeOK, NEW r, RunKnows(r, deployed), deployed' = deployed \/ \E x \in Deployments : deployed' = Append(deployed, x)
  PROVE  RunKnows(r, deployed')
<1>1. \A d \in DOMAIN deployed : d \in DOMAIN deployed' /\ deployed'[d] = deployed[d]
  <2>1. deployed \in Seq(Deployments)
    BY DEF LoginTypeOK, Deployments
  <2> QED BY <2>1
<1>2. r \in OperatorRecords
  BY DEF RunKnows
<1> QED BY <1>1, <1>2 DEF RunKnows

(* Initially production connects as the owner or as the first login. *)
LEMMA LoginStarts == LoginInit => LoginInvariant
<1> SUFFICES ASSUME LoginInit PROVE LoginInvariant
  OBVIOUS
<1>1. PICK c \in {AsOwner, [name |-> 1, password |-> MaxLogins + 1]}, gated \in BOOLEAN :
        /\ login = [n \in Minutes |-> IF n = c.name THEN c.password ELSE 0]
        /\ databaseUrl = c /\ deployed = <<[connects |-> c, gated |-> gated]>>
  BY DEF LoginInit
<1>2. c \in Connections /\ c.password \in 0..MaxLogins + 1 /\ (c.name = Owner0 \/ c.name = 1)
  <2>1. [name |-> 1, password |-> MaxLogins + 1] \in [name : Minutes, password : 1..MaxLogins + 1]
    BY LoginConstants
  <2> QED BY <2>1, LoginConstants DEF AsOwner, Connections, Owner0
<1>3. deployed \in Seq(Deployments) /\ 1 \in DOMAIN deployed /\ deployed[1].connects = c
  BY <1>1, <1>2 DEF Deployments
<1>4. minute = 1 /\ serves = 1 /\ assigning = TRUE /\ operator = [o \in Operators |-> Unread]
      /\ passwords = 0 /\ excused = FALSE
  BY DEF LoginInit
<1>5. login \in [Minutes -> 0..MaxLogins + 1]
  BY <1>1, <1>2, LoginConstants
<1>6. \A o \in Operators : operator[o] = Unread
  BY <1>4
<1>7. LoginTypeOK
  BY <1>1, <1>2, <1>3, <1>4, <1>5, <1>6, LoginConstants, UnreadKnows DEF LoginTypeOK, Deployments
<1>8. ServedLoginStands
  BY <1>1, <1>2, <1>3, <1>4, LoginConstants DEF ServedLoginStands, Connects
<1>9. assigning \in BOOLEAN /\ excused \in BOOLEAN /\ passwords \in 0..MaxLogins /\ DOMAIN operator = Operators
  <2>1. assigning \in BOOLEAN /\ excused \in BOOLEAN
    BY <1>4, Zenon
  <2>2. passwords \in 0..MaxLogins /\ DOMAIN operator = Operators
    BY <1>4, LoginConstants
  <2> QED BY <2>1, <2>2
<1>10. \A o \in Operators : RunKnows(operator[o], deployed)
  BY <1>6, UnreadKnows
<1> QED BY <1>7, <1>8, <1>9, <1>10 DEF LoginInvariant

(* A step that changes one run, perhaps adds a deployment, and neither       *)
(* changes a login nor what is served. *)
LEMMA LoginRunSteps ==
  ASSUME LoginInvariant, NEW o \in Operators, NEW r, RunKnows(r, deployed'),
         operator' = [operator EXCEPT ![o] = r],
         deployed' = deployed \/ \E x \in Deployments : deployed' = Append(deployed, x),
         databaseUrl' \in Connections, passwords' \in 0..MaxLogins,
         UNCHANGED <<minute, login, serves, assigning, excused>>
  PROVE  LoginInvariant'
<1>1. deployed \in Seq(Deployments) /\ serves \in DOMAIN deployed /\ LoginTypeOK
  BY DEF LoginInvariant, LoginTypeOK, Deployments
<1>2. deployed' \in Seq(Deployments) /\ serves' \in DOMAIN deployed' /\ deployed'[serves'] = deployed[serves]
  BY <1>1
<1>3. DOMAIN operator' = Operators /\ operator'[o] = r /\ \A p \in Operators \ {o} : operator'[p] = operator[p]
  BY DEF LoginInvariant
<1>4. \A p \in Operators : RunKnows(operator'[p], deployed')
  <2> TAKE p \in Operators
  <2>1. CASE p = o
    BY <1>3, <2>1
  <2>2. CASE p # o
    <3>1. RunKnows(operator[p], deployed)
      BY DEF LoginInvariant
    <3>2. RunKnows(operator[p], deployed')
      BY <1>1, <3>1, KnowledgeStays
    <3> QED BY <1>3, <2>2, <3>2
  <2> QED BY <2>1, <2>2
<1>5. \A p \in Operators : operator'[p].at \in {"idle", "read", "kept", "minted", "written", "drop"}
  BY <1>4 DEF RunKnows, OperatorRecords
<1>6. LoginTypeOK'
  BY <1>1, <1>2, <1>5 DEF LoginTypeOK, Deployments
<1>7. ServedLoginStands'
  BY <1>2 DEF LoginInvariant, ServedLoginStands, Connects
<1> QED BY <1>3, <1>4, <1>6, <1>7 DEF LoginInvariant

(* What targetIdentity reads. *)
LEMMA TargetRead ==
  ASSUME LoginTypeOK, NEW o, NEW mode \in {"create", "retire"}, NEW except \in LoginNames, NEW force \in BOOLEAN
  PROVE  LET r == targetIdentity(o, mode, except, force)
         IN /\ r \in OperatorRecords /\ r.at = "read" /\ r.mode = mode /\ r.except = except /\ r.force = force
            /\ r.serving = serves /\ r.gate = deployed[serves].gated /\ r.liveUser = deployed[serves].connects.name
<1>1. deployed \in Seq(Deployments) /\ serves \in DOMAIN deployed
  BY DEF LoginTypeOK, Deployments
<1>2. serves \in Nat /\ deployed[serves] \in Deployments
  BY <1>1
<1>3. deployed[serves].gated \in BOOLEAN /\ deployed[serves].connects \in Connections
  BY <1>2 DEF Deployments
<1>4. deployed[serves].connects.name \in LoginNames
  BY <1>3, LoginConstants
<1>5. Unread \in OperatorRecords
  BY UnreadKnows DEF RunKnows
<1> QED BY <1>2, <1>3, <1>4, <1>5 DEF targetIdentity, OperatorRecords

(* Starting a run that mints. *)
LEMMA StartMintKeeps ==
  ASSUME LoginInvariant, NEW o \in Operators, StartMint(o)
  PROVE  LoginInvariant'
<1> DEFINE t == targetIdentity(o, "create", Owner0, FALSE)
<1> DEFINE r == [t EXCEPT !.login = minute, !.password = passwords + 1]
<1>1. LoginTypeOK /\ passwords \in 0..MaxLogins /\ minute \in Minutes /\ databaseUrl \in Connections
      /\ serves \in DOMAIN deployed
  BY DEF LoginInvariant, LoginTypeOK
<1>2. /\ passwords < MaxLogins /\ ~NameInUse(t, minute) /\ operator' = [operator EXCEPT ![o] = r]
      /\ passwords' = passwords + 1
      /\ UNCHANGED <<minute, login, databaseUrl, deployed, serves, assigning, excused>>
  BY DEF StartMint, SetOperator
<1>3. /\ t \in OperatorRecords /\ t.at = "read" /\ t.mode = "create" /\ t.serving = serves
      /\ t.liveUser = deployed[serves].connects.name
  <2>1. Owner0 \in LoginNames /\ FALSE \in BOOLEAN /\ "create" \in {"create", "retire"}
    BY DEF LoginNames
  <2>2. ASSUME NEW f \in BOOLEAN
        PROVE  LET x == targetIdentity(o, "create", Owner0, f)
               IN /\ x \in OperatorRecords /\ x.at = "read" /\ x.mode = "create" /\ x.serving = serves
                  /\ x.liveUser = deployed[serves].connects.name
    BY <1>1, <2>1, TargetRead
  <2> QED BY <2>1, <2>2, Zenon
<1> HIDE DEF t
<1> DEFINE w == passwords + 1
<1>4. w \in 0..MaxLogins /\ w \in 1..MaxLogins + 1 /\ w \in 0..MaxLogins + 1 /\ minute \in LoginNames
  BY <1>1, <1>2, LoginConstants DEF LoginNames
<1>5. /\ r \in OperatorRecords /\ r.at = "read" /\ r.mode = "create" /\ r.serving = serves
      /\ r.gate = t.gate /\ r.liveUser = t.liveUser /\ r.login = minute /\ r.password = w
  <2> HIDE DEF w
  <2>1. [t EXCEPT !.login = minute, !.password = w] \in OperatorRecords
    BY <1>3, <1>4 DEF OperatorRecords
  <2> QED BY <1>3, <2>1 DEF OperatorRecords, w
<1> HIDE DEF r
<1>6. r.gate => r.liveUser # r.login
  BY <1>2, <1>5 DEF NameInUse
<1>7. RunKnows(r, deployed')
  BY <1>1, <1>2, <1>3, <1>4, <1>5, <1>6 DEF RunKnows
<1>8. passwords' \in 0..MaxLogins /\ databaseUrl' \in Connections
  BY <1>1, <1>2, <1>4
<1> QED BY <1>2, <1>7, <1>8, LoginRunSteps

(* Starting a run that retires. *)
LEMMA StartRetireKeeps ==
  ASSUME LoginInvariant, NEW o \in Operators, NEW except \in LoginNames, NEW force \in BOOLEAN,
         StartRetire(o, except, force)
  PROVE  LoginInvariant'
<1> DEFINE r == targetIdentity(o, "retire", except, force)
<1>1. LoginTypeOK /\ passwords \in 0..MaxLogins /\ databaseUrl \in Connections /\ serves \in DOMAIN deployed
  BY DEF LoginInvariant, LoginTypeOK
<1>2. /\ passwords < MaxLogins /\ (RetireRefused(r) => force) /\ operator' = [operator EXCEPT ![o] = r]
      /\ passwords' = passwords + 1
      /\ UNCHANGED <<minute, login, databaseUrl, deployed, serves, assigning, excused>>
  BY DEF StartRetire, SetOperator
<1>3. /\ r \in OperatorRecords /\ r.at = "read" /\ r.mode = "retire" /\ r.serving = serves /\ r.force = force
      /\ r.liveUser = deployed[serves].connects.name
  BY <1>1, TargetRead
<1> HIDE DEF r
<1>4. ~r.force => ~RetireRefused(r)
  BY <1>2, <1>3
<1>5. RunKnows(r, deployed')
  BY <1>1, <1>2, <1>3, <1>4 DEF RunKnows
<1>6. passwords' \in 0..MaxLogins
  BY <1>1, <1>2, LoginConstants
<1> QED BY <1>1, <1>2, <1>5, <1>6, LoginRunSteps

(* A run that ends. *)
LEMMA OperatorEndsKeeps ==
  ASSUME LoginInvariant, NEW o \in Operators, OperatorEnds(o),
         deployed' = deployed \/ \E x \in Deployments : deployed' = Append(deployed, x),
         databaseUrl' \in Connections,
         UNCHANGED <<minute, login, serves, assigning, passwords, excused>>
  PROVE  LoginInvariant'
<1>1. operator' = [operator EXCEPT ![o] = Unread] /\ passwords' \in 0..MaxLogins
  BY DEF OperatorEnds, SetOperator, LoginInvariant
<1>2. RunKnows(Unread, deployed')
  BY UnreadKnows
<1> QED BY <1>1, <1>2, LoginRunSteps

(* A build is added with what DATABASE_URL says. *)
LEMMA BuildAdds ==
  ASSUME LoginInvariant, NEW gated \in BOOLEAN, Build(gated)
  PROVE  \E x \in Deployments : deployed' = Append(deployed, x)
<1>1. [connects |-> databaseUrl, gated |-> gated] \in Deployments
  BY DEF LoginInvariant, LoginTypeOK, Deployments
<1> QED BY <1>1 DEF Build

(* Writing the environment. *)
LEMMA WriteEnvKeeps ==
  ASSUME LoginInvariant, NEW o \in Operators, WriteEnv(o)
  PROVE  LoginInvariant'
<1> DEFINE q == operator[o]
<1> DEFINE r == [q EXCEPT !.at = "written"]
<1> DEFINE url == [name |-> q.login, password |-> q.password]
<1>1. /\ q.at = "minted" /\ RunKnows(q, deployed) /\ databaseUrl \in Connections /\ passwords \in 0..MaxLogins
      /\ UNCHANGED <<minute, login, deployed, serves, assigning, passwords, excused>>
  BY DEF WriteEnv, LoginInvariant, LoginTypeOK
<1>2. \/ OperatorEnds(o) /\ (databaseUrl' = databaseUrl \/ databaseUrl' = url)
      \/ operator' = [operator EXCEPT ![o] = r] /\ databaseUrl' = url
  BY DEF WriteEnv, SetOperator
<1>3. url \in Connections
  BY <1>1 DEF RunKnows, Connections
<1> HIDE DEF url
<1>4. CASE OperatorEnds(o)
  BY <1>1, <1>2, <1>3, <1>4, OperatorEndsKeeps
<1>5. CASE operator' = [operator EXCEPT ![o] = r] /\ databaseUrl' = url
  <2>1. /\ r \in OperatorRecords /\ r.at = "written" /\ r.mode = q.mode /\ r.serving = q.serving /\ r.gate = q.gate
        /\ r.liveUser = q.liveUser /\ r.login = q.login /\ r.password = q.password /\ r.force = q.force
    BY <1>1 DEF RunKnows, OperatorRecords
  <2> HIDE DEF r
  <2>2. RunKnows(r, deployed')
    BY <1>1, <2>1 DEF RunKnows
  <2> QED BY <1>1, <1>3, <1>5, <2>2, LoginRunSteps
<1> QED BY <1>2, <1>4, <1>5

(* Looking for the login to keep. *)
LEMMA RetireKeepKeeps ==
  ASSUME LoginInvariant, NEW o \in Operators, RetireKeep(o)
  PROVE  LoginInvariant'
<1> DEFINE q == operator[o]
<1> DEFINE r == [q EXCEPT !.at = "kept"]
<1>1. /\ q.at = "read" /\ q.mode = "retire" /\ RunKnows(q, deployed) /\ databaseUrl \in Connections
      /\ passwords \in 0..MaxLogins
      /\ UNCHANGED <<minute, login, databaseUrl, deployed, serves, assigning, passwords, excused>>
  BY DEF RetireKeep, LoginInvariant, LoginTypeOK
<1>2. CASE OperatorEnds(o)
  BY <1>1, <1>2, OperatorEndsKeeps
<1>3. CASE ~OperatorEnds(o)
  <2>1. operator' = [operator EXCEPT ![o] = r]
    BY <1>3 DEF RetireKeep, SetOperator
  <2>2. /\ r \in OperatorRecords /\ r.at = "kept" /\ r.mode = q.mode /\ r.serving = q.serving /\ r.gate = q.gate
        /\ r.liveUser = q.liveUser /\ r.except = q.except /\ r.force = q.force
    BY <1>1 DEF RunKnows, OperatorRecords
  <2> HIDE DEF r
  <2>3. RetireRefused(r) <=> RetireRefused(q)
    BY <2>2 DEF RetireRefused
  <2>4. RunKnows(r, deployed')
    BY <1>1, <2>2, <2>3 DEF RunKnows
  <2> QED BY <1>1, <2>1, <2>4, LoginRunSteps
<1> QED BY <1>2, <1>3

(* Listing the logins to retire. *)
LEMMA RetireReadKeeps ==
  ASSUME LoginInvariant, NEW o \in Operators, RetireRead(o)
  PROVE  LoginInvariant'
<1> DEFINE q == operator[o]
<1> DEFINE rotated == {n \in Minutes : login[n] # 0 /\ n # q.except}
<1>1. /\ q.at = "kept" /\ RunKnows(q, deployed) /\ q.mode = "retire" /\ databaseUrl \in Connections
      /\ passwords \in 0..MaxLogins
      /\ UNCHANGED <<minute, login, databaseUrl, deployed, serves, assigning, passwords, excused>>
  BY DEF RetireRead, LoginInvariant, LoginTypeOK, RunKnows
<1>2. PICK idle \in SUBSET rotated :
        operator' = [operator EXCEPT ![o] = [q EXCEPT !.at = "drop", !.doomed = idle]]
  BY DEF RetireRead, SetOperator
<1> DEFINE r == [q EXCEPT !.at = "drop", !.doomed = idle]
<1>3. idle \subseteq Minutes /\ q.except \notin idle
  BY <1>2
<1>4. /\ r \in OperatorRecords /\ r.at = "drop" /\ r.mode = q.mode /\ r.serving = q.serving /\ r.gate = q.gate
      /\ r.liveUser = q.liveUser /\ r.except = q.except /\ r.force = q.force /\ r.doomed = idle
  BY <1>1, <1>3 DEF RunKnows, OperatorRecords
<1>5. operator' = [operator EXCEPT ![o] = r]
  BY <1>2
<1> HIDE DEF r
<1>6. RetireRefused(r) <=> RetireRefused(q)
  BY <1>4 DEF RetireRefused
<1>7. RunKnows(r, deployed')
  BY <1>1, <1>3, <1>4, <1>6 DEF RunKnows
<1> QED BY <1>1, <1>5, <1>7, LoginRunSteps

(* Minting: production's own login is not touched, unless the run could not  *)
(* see it or it is another deployment's by now.                              *)
LEMMA MintKeeps ==
  ASSUME LoginInvariant, NEW o \in Operators, Mint(o)
  PROVE  LoginInvariant'
<1> DEFINE q == operator[o]
<1> DEFINE r == [q EXCEPT !.at = "minted"]
<1>1. /\ q.at = "read" /\ q.mode = "create" /\ RunKnows(q, deployed) /\ LoginTypeOK
      /\ login' = [login EXCEPT ![q.login] = q.password]
      /\ excused' = (excused \/ q.serving # serves \/ ~q.gate)
      /\ operator' = [operator EXCEPT ![o] = r] \/ operator' = [operator EXCEPT ![o] = Unread]
      /\ UNCHANGED <<minute, databaseUrl, deployed, serves, assigning, passwords>>
  BY DEF Mint, LoginInvariant, OperatorEnds, SetOperator
<1>2. /\ r \in OperatorRecords /\ r.at = "minted" /\ r.mode = q.mode /\ r.serving = q.serving /\ r.gate = q.gate
      /\ r.liveUser = q.liveUser /\ r.login = q.login /\ r.password = q.password /\ r.force = q.force
  BY <1>1 DEF RunKnows, OperatorRecords
<1> HIDE DEF r
<1>3. RunKnows(r, deployed)
  BY <1>1, <1>2 DEF RunKnows
<1>4. DOMAIN operator' = Operators /\ \A p \in Operators : RunKnows(operator'[p], deployed')
  BY <1>1, <1>3, UnreadKnows DEF LoginInvariant
<1>5. \A p \in Operators : operator'[p].at \in {"idle", "read", "kept", "minted", "written", "drop"}
  BY <1>4 DEF RunKnows, OperatorRecords
<1>6. q.login \in Minutes /\ q.password \in 1..MaxLogins + 1 /\ (q.gate => q.liveUser # q.login)
      /\ (q.gate => q.liveUser = deployed[q.serving].connects.name)
  BY <1>1 DEF RunKnows
<1>7. q.password \in 0..MaxLogins + 1
  BY <1>6, LoginConstants
<1>8. login' \in [Minutes -> 0..MaxLogins + 1]
  BY <1>1, <1>6, <1>7 DEF LoginTypeOK
<1>9. LoginTypeOK'
  BY <1>1, <1>5, <1>8 DEF LoginTypeOK
<1>10. ServedLoginStands'
  <2> SUFFICES ASSUME ~excused' PROVE Connects(deployed[serves].connects)'
    BY DEF ServedLoginStands
  <2>1. ~excused /\ q.serving = serves /\ q.gate
    BY <1>1
  <2>2. deployed[serves].connects.name # q.login
    BY <1>6, <2>1
  <2>3. Connects(deployed[serves].connects)
    BY <2>1 DEF LoginInvariant, ServedLoginStands
  <2>4. deployed[serves].connects \in Connections
    <3>1. deployed \in Seq(Deployments) /\ serves \in DOMAIN deployed
      BY <1>1 DEF LoginTypeOK, Deployments
    <3>2. deployed[serves] \in Deployments
      BY <3>1
    <3> QED BY <3>2 DEF Deployments
  <2>5. CASE deployed[serves].connects.name = Owner0
    BY <1>1, <2>5 DEF Connects
  <2>6. CASE deployed[serves].connects.name # Owner0
    <3>1. login'[deployed[serves].connects.name] = login[deployed[serves].connects.name]
      BY <1>1, <2>2, <2>4, <2>6, LoginConstants DEF LoginTypeOK
    <3> QED BY <1>1, <2>3, <2>6, <3>1 DEF Connects
  <2> QED BY <2>5, <2>6
<1>11. excused' \in BOOLEAN
  BY <1>1, Zenon
<1> QED BY <1>1, <1>4, <1>9, <1>10, <1>11 DEF LoginInvariant

(* Dropping a login: an unforced run that saw the login in use keeps it. *)
LEMMA RetireDropKeeps ==
  ASSUME LoginInvariant, NEW o \in Operators, NEW n \in Minutes, RetireDrop(o, n)
  PROVE  LoginInvariant'
<1> DEFINE q == operator[o]
<1> DEFINE r == [q EXCEPT !.doomed = @ \ {n}]
<1>1. /\ q.at = "drop" /\ n \in q.doomed /\ RunKnows(q, deployed) /\ LoginTypeOK
      /\ \/ /\ login' = [login EXCEPT ![n] = 0]
            /\ excused' = (excused \/ q.force \/ ~q.gate \/ q.serving # serves)
         \/ UNCHANGED <<login, excused>>
      /\ operator' = [operator EXCEPT ![o] = r]
      /\ UNCHANGED <<minute, databaseUrl, deployed, serves, assigning, passwords>>
  BY DEF RetireDrop, LoginInvariant, SetOperator
<1>2. /\ r \in OperatorRecords /\ r.at = "drop" /\ r.mode = q.mode /\ r.serving = q.serving /\ r.gate = q.gate
      /\ r.liveUser = q.liveUser /\ r.except = q.except /\ r.doomed = q.doomed \ {n} /\ r.force = q.force
  BY <1>1 DEF RunKnows, OperatorRecords
<1> HIDE DEF r
<1>3. RetireRefused(r) <=> RetireRefused(q)
  BY <1>2 DEF RetireRefused
<1>4. RunKnows(r, deployed)
  BY <1>1, <1>2, <1>3 DEF RunKnows
<1>5. DOMAIN operator' = Operators /\ \A p \in Operators : RunKnows(operator'[p], deployed')
  BY <1>1, <1>4 DEF LoginInvariant
<1>6. \A p \in Operators : operator'[p].at \in {"idle", "read", "kept", "minted", "written", "drop"}
  BY <1>5 DEF RunKnows, OperatorRecords
<1>7. login' \in [Minutes -> 0..MaxLogins + 1]
  BY <1>1, LoginConstants DEF LoginTypeOK
<1>8. LoginTypeOK'
  BY <1>1, <1>6, <1>7 DEF LoginTypeOK
<1>9. /\ q.mode = "retire" /\ q.except \notin q.doomed /\ q.gate \in BOOLEAN /\ q.force \in BOOLEAN
      /\ q.gate => q.liveUser = deployed[q.serving].connects.name
      /\ ~q.force => ~RetireRefused(q)
  BY <1>1 DEF RunKnows, OperatorRecords
<1>10. ServedLoginStands'
  <2>1. CASE UNCHANGED <<login, excused>>
    BY <1>1, <2>1 DEF LoginInvariant, ServedLoginStands, Connects
  <2>2. CASE login' = [login EXCEPT ![n] = 0] /\ excused' = (excused \/ q.force \/ ~q.gate \/ q.serving # serves)
    <3> SUFFICES ASSUME ~excused' PROVE Connects(deployed[serves].connects)'
      BY DEF ServedLoginStands
    <3>1. ~excused /\ ~q.force /\ q.gate /\ q.serving = serves
      BY <2>2
    <3>2. ~RetireRefused(q) /\ q.liveUser = deployed[serves].connects.name
      BY <1>9, <3>1
    <3>3. Connects(deployed[serves].connects)
      BY <3>1 DEF LoginInvariant, ServedLoginStands
    <3>4. CASE deployed[serves].connects.name = Owner0
      BY <1>1, <3>4 DEF Connects
    <3>5. CASE deployed[serves].connects.name # Owner0
      <4>1. deployed[serves].connects.name = q.except
        BY <3>1, <3>2, <3>5 DEF RetireRefused
      <4>2. q.except # n
        BY <1>1, <1>9
      <4>3. deployed[serves].connects.name # n
        BY <4>1, <4>2
      <4>4. login'[deployed[serves].connects.name] = login[deployed[serves].connects.name]
        <5>1. deployed \in Seq(Deployments) /\ serves \in DOMAIN deployed
          BY <1>1 DEF LoginTypeOK, Deployments
        <5>2. deployed[serves] \in Deployments
          BY <5>1
        <5>3. deployed[serves].connects.name \in Minutes
          BY <5>2, <3>5, LoginConstants DEF Deployments
        <5> QED BY <1>1, <2>2, <4>3, <5>3 DEF LoginTypeOK
      <4> QED BY <1>1, <3>3, <3>5, <4>4 DEF Connects
    <3> QED BY <3>4, <3>5
  <2> QED BY <1>1, <2>1, <2>2
<1>11. excused' \in BOOLEAN
  BY <1>1, Zenon DEF LoginInvariant
<1> QED BY <1>1, <1>5, <1>8, <1>10, <1>11 DEF LoginInvariant

(* Production is given to a deployment. *)
LEMMA ServeKeeps ==
  ASSUME LoginInvariant, NEW d \in DOMAIN deployed, Serve(d), assigning' \in BOOLEAN,
         UNCHANGED <<minute, login, databaseUrl, deployed, operator, passwords>>
  PROVE  LoginInvariant'
<1>1. serves' = d /\ excused' = (excused \/ ~Connects(deployed[d].connects))
  BY DEF Serve
<1>2. ServedLoginStands'
  BY <1>1 DEF ServedLoginStands, Connects
<1>3. excused' \in BOOLEAN
  BY <1>1, Zenon
<1>4. LoginTypeOK'
  BY <1>1 DEF LoginInvariant, LoginTypeOK
<1> QED BY <1>2, <1>3, <1>4 DEF LoginInvariant

(* A step that touches no run and serves nothing else. *)
LEMMA LoginOtherSteps ==
  ASSUME LoginInvariant, minute' \in Minutes,
         deployed' = deployed \/ \E x \in Deployments : deployed' = Append(deployed, x),
         UNCHANGED <<login, databaseUrl, serves, assigning, operator, passwords, excused>>
  PROVE  LoginInvariant'
<1>1. deployed \in Seq(Deployments) /\ serves \in DOMAIN deployed /\ LoginTypeOK
  BY DEF LoginInvariant, LoginTypeOK, Deployments
<1>2. deployed' \in Seq(Deployments) /\ serves' \in DOMAIN deployed' /\ deployed'[serves'] = deployed[serves]
  BY <1>1
<1>3. \A p \in Operators : RunKnows(operator'[p], deployed')
  BY <1>1, KnowledgeStays DEF LoginInvariant
<1>4. LoginTypeOK'
  BY <1>1, <1>2 DEF LoginTypeOK, Deployments
<1>5. ServedLoginStands'
  BY <1>2 DEF LoginInvariant, ServedLoginStands, Connects
<1> QED BY <1>3, <1>4, <1>5 DEF LoginInvariant

(* Every step of the runs, the builds and the promotions keeps it. *)
LEMMA LoginSteps ==
  ASSUME LoginInvariant, [LoginNext]_loginVars
  PROVE  LoginInvariant'
<1>1. LoginTypeOK /\ minute \in Minutes /\ databaseUrl \in Connections /\ serves \in DOMAIN deployed
      /\ deployed \in Seq(Deployments)
  BY DEF LoginInvariant, LoginTypeOK, Deployments
<1>2. CASE Push
  <2>1. Build(TRUE)
    BY <1>2 DEF Push
  <2>2. \E x \in Deployments : deployed' = Append(deployed, x)
    <3>1. TRUE \in BOOLEAN
      OBVIOUS
    <3> QED BY <2>1, <3>1, BuildAdds, Zenon
  <2> QED BY <1>1, <1>2, <2>2, LoginOtherSteps DEF Push
<1>3. CASE Assign
  <2>1. Len(deployed) \in DOMAIN deployed
    BY <1>1
  <2> QED BY <1>3, <2>1, ServeKeeps DEF Assign, LoginInvariant
<1>4. CASE Tick
  BY <1>1, <1>4, LoginOtherSteps DEF Tick
<1>5. ASSUME NEW d \in 1..MaxDeploys, PromoteDeployment(d) PROVE LoginInvariant'
  <2>1. (d > serves) \in BOOLEAN
    OBVIOUS
  <2>2. assigning' \in BOOLEAN
    BY <1>5, <2>1 DEF PromoteDeployment
  <2> QED BY <1>5, <2>2, ServeKeeps DEF PromoteDeployment
<1>6. ASSUME NEW o \in Operators, StartMint(o) PROVE LoginInvariant'
  BY <1>6, StartMintKeeps
<1>7. ASSUME NEW o \in Operators, Mint(o) PROVE LoginInvariant'
  BY <1>7, MintKeeps
<1>8. ASSUME NEW o \in Operators, KitFails(o) \/ Retired(o) PROVE LoginInvariant'
  BY <1>1, <1>8, OperatorEndsKeeps DEF KitFails, Retired
<1>9. ASSUME NEW o \in Operators, WriteEnv(o) PROVE LoginInvariant'
  BY <1>9, WriteEnvKeeps
<1>10. ASSUME NEW o \in Operators, Redeploy(o) PROVE LoginInvariant'
  <2>1. operator[o].gate \in BOOLEAN
    BY DEF LoginInvariant, RunKnows, OperatorRecords
  <2>2. deployed' = deployed \/ \E x \in Deployments : deployed' = Append(deployed, x)
    BY <1>10, <2>1, BuildAdds DEF Redeploy
  <2> QED BY <1>1, <1>10, <2>2, OperatorEndsKeeps DEF Redeploy
<1>11. ASSUME NEW o \in Operators, NEW except \in LoginNames, NEW force \in BOOLEAN, StartRetire(o, except, force)
       PROVE  LoginInvariant'
  BY <1>11, StartRetireKeeps
<1>12. ASSUME NEW o \in Operators, RetireRead(o) PROVE LoginInvariant'
  BY <1>12, RetireReadKeeps
<1>15. ASSUME NEW o \in Operators, RetireKeep(o) PROVE LoginInvariant'
  BY <1>15, RetireKeepKeeps
<1>13. ASSUME NEW o \in Operators, NEW n \in Minutes, RetireDrop(o, n) PROVE LoginInvariant'
  BY <1>13, RetireDropKeeps
<1>14. CASE UNCHANGED loginVars
  BY <1>1, <1>14, LoginOtherSteps DEF loginVars
<1> QED BY <1>2, <1>3, <1>4, <1>5, <1>6, <1>7, <1>8, <1>9, <1>10, <1>11, <1>12, <1>13, <1>14, <1>15 DEF LoginNext

(* The login state keeps its type. *)
THEOREM LoginTyped == LoginSpec => []LoginTypeOK
<1>1. LoginInvariant /\ [LoginNext]_loginVars => LoginInvariant'
  BY LoginSteps
<1>2. LoginInvariant => LoginTypeOK
  BY DEF LoginInvariant
<1> QED BY <1>1, <1>2, LoginStarts, PTL DEF LoginSpec

(* ServedLoginStands for any number of operators, logins, deployments and    *)
(* minutes: runs that mint and runs that retire, side by side and failing    *)
(* half way, leave the login that production connects with.                  *)
THEOREM ProductionCanConnect == LoginSpec => []ServedLoginStands
<1>1. LoginInvariant /\ [LoginNext]_loginVars => LoginInvariant'
  BY LoginSteps
<1>2. LoginInvariant => ServedLoginStands
  BY DEF LoginInvariant
<1> QED BY <1>1, <1>2, LoginStarts, PTL DEF LoginSpec

-----------------------------------------------------------------------------
(* The release *)

ReleaseRuns ==
  [at : {"rest", "gated", "migrating", "migrated", "built", "probing"},
   head : MaybeCommit, previous : MaybeCommit, source : MaybeCommit,
   token : MaybeCommit, built : MaybeCommit,
   migrates : BOOLEAN, promotes : BOOLEAN, rollback : BOOLEAN]

(* What the ledger l says was applied is there in the schema s.  A row that  *)
(* has no checksum vouches for every text that its file has anywhere.        *)
LedgerTrue(l, s) ==
  \A f \in Files :
    /\ l[f] \notin {Absent, Unknown} => l[f] \subseteq s
    /\ l[f] = Unknown => FoldText[f] \subseteq s /\ \A c \in Commits : Text[c][f] \subseteq s

(* A commit that may serve: its schema is there. *)
Fits(c, s) == c # NoCommit => Needs(c) \subseteq s

(* A run that migrates holds the lock and has a plan that the ledger fits; a *)
(* run that has migrated has its source's schema.                            *)
RunInOrder(r) ==
  /\ run[r].at = "gated" => run[r].token = NoCommit
  /\ run[r].at = "migrating" => /\ lock[Production] = r /\ run[r].source \in Commits
                                /\ Plannable(Production, run[r].source)
  /\ run[r].at = "migrated" => run[r].source \in Commits /\ Fits(run[r].source, schema[Production])
  /\ ~swapped => Fits(run[r].built, schema[Production]) /\ Fits(run[r].previous, schema[Production])

ReleaseInvariant ==
  /\ ReleaseTypeOK
  /\ LedgerTrue(ledger[Production], schema[Production])
  /\ \A d \in Databases : lock[d] # NoRun => d = Production /\ run[lock[d]].at = "migrating"
  /\ \A r \in Runs : RunInOrder(r)
  /\ ~swapped => \A c \in gitBuild \cup {serving} : Fits(c, schema[Production])

(* The constants of the release. *)
LEMMA ReleaseConstants ==
  /\ Main \subseteq Commits /\ Production \in Databases /\ NoCommit \notin Commits /\ NoRun \notin Runs
  /\ Absent # Unknown /\ MaxRuns \in Nat /\ MaxMoves \in Nat
  /\ \A c \in Commits, f \in Files : Text[c][f] \subseteq Facts /\ Text[c][f] \notin {Absent, Unknown}
  /\ \A f \in Files : FoldText[f] \subseteq Facts /\ FoldText[f] \notin {Absent, Unknown}
  /\ \A f \in Files : Folds[f] \subseteq Files
  /\ \A c \in Commits : \A f \in FilesOf(c) : f \in Files /\ Folds[f] \cap FilesOf(c) = {}
  /\ \A c \in Commits : \A f \in FilesOf(c) :
       Folds[f] # {} => Text[c][f] = UNION {FoldText[g] : g \in Folds[f]}
<1>1. \A c \in Commits, f \in Files : Text[c][f] \subseteq Facts
  BY DEF Facts
<1>2. \A x : x \subseteq Facts => x \notin {Absent, Unknown}
  BY ReleaseAssumption
<1>3. \A f \in Files : FoldText[f] \subseteq Facts /\ Folds[f] \subseteq Files
  BY ReleaseAssumption
<1> QED BY <1>1, <1>2, <1>3, ReleaseAssumption DEF FilesOf

(* What a commit needs is what its files' texts say. *)
LEMMA NeedsFiles ==
  ASSUME NEW c \in Commits, NEW s, \A f \in FilesOf(c) : Text[c][f] \subseteq s
  PROVE  Needs(c) \subseteq s
<1>1. \A f \in Files : Text[c][f] \subseteq s
  BY DEF FilesOf
<1> QED BY <1>1 DEF Needs

(* A file whose row has its text or none known, or a consolidated file whose *)
(* sections' rows have theirs, is there.                                     *)
LEMMA FileIsThere ==
  ASSUME LedgerTrue(ledger[Production], schema[Production]),
         NEW c \in Commits, NEW f \in FilesOf(c),
         \/ Ledgered(Production, f) /\ ~Differs(Production, f, Text[c][f])
         \/ AllFolded(Production, f) /\ \A g \in Folds[f] : ~Differs(Production, g, FoldText[g])
  PROVE  Text[c][f] \subseteq schema[Production]
<1>1. CASE Ledgered(Production, f) /\ ~Differs(Production, f, Text[c][f])
  BY <1>1, ReleaseConstants DEF Ledgered, Differs, LedgerTrue, FilesOf
<1>2. CASE AllFolded(Production, f) /\ \A g \in Folds[f] : ~Differs(Production, g, FoldText[g])
  <2>1. f \in Files /\ Folds[f] \subseteq Files /\ Text[c][f] = UNION {FoldText[g] : g \in Folds[f]}
    BY <1>2, ReleaseConstants DEF AllFolded
  <2>2. ASSUME NEW g \in Folds[f] PROVE FoldText[g] \subseteq schema[Production]
    <3>1. g \in Files /\ ledger[Production][g] # Absent /\ ledger[Production][g] \in {Absent, Unknown, FoldText[g]}
      BY <1>2, <2>1 DEF AllFolded, Ledgered, Differs
    <3> QED BY <3>1, ReleaseConstants DEF LedgerTrue
  <2> QED BY <2>1, <2>2
<1> QED BY <1>1, <1>2

(* evaluateLedger does not say ok of a commit whose schema is not there. *)
LEMMA LedgerOkFits ==
  ASSUME LedgerTrue(ledger[Production], schema[Production]), NEW c \in Commits, LedgerOk(Production, c)
  PROVE  Fits(c, schema[Production])
<1>1. ASSUME NEW f \in FilesOf(c) PROVE Text[c][f] \subseteq schema[Production]
  BY FileIsThere DEF LedgerOk
<1> QED BY <1>1, NeedsFiles DEF Fits

(* A schema that grows keeps what fits. *)
LEMMA FitsGrows ==
  ASSUME NEW c, NEW s, NEW t, s \subseteq t, Fits(c, s)
  PROVE  Fits(c, t)
BY DEF Fits

(* The lock is held by a run that migrates. *)
LEMMA LockIsHeld ==
  ASSUME ReleaseInvariant, NEW r \in Runs, NEW d \in Databases, lock[d] = r
  PROVE  run[r].at = "migrating" /\ d = Production
BY ReleaseConstants DEF ReleaseInvariant

(* Initially no run is under way and what is served fits. *)
LEMMA ReleaseStarts == ReleaseInit => ReleaseInvariant
<1> SUFFICES ASSUME ReleaseInit PROVE ReleaseInvariant
  OBVIOUS
<1>1. PICK l \in Seed : ledger = [d \in Databases |-> IF d = Production THEN l ELSE [f \in Files |-> Absent]]
  BY DEF ReleaseInit
<1>2. l \in [Files -> Entries] /\ [f \in Files |-> Absent] \in [Files -> Entries]
  BY ReleaseAssumption DEF Entries
<1>3. ledger \in [Databases -> [Files -> Entries]] /\ ledger[Production] = l
  BY <1>1, <1>2, ReleaseConstants
<1>4. schema = [d \in Databases |-> UNION {FoldText[f] : f \in {g \in Files : ledger[d][g] # Absent}}]
  BY DEF ReleaseInit
<1>5. schema \in [Databases -> SUBSET Facts]
  BY <1>4, ReleaseConstants
<1>6. ASSUME NEW f \in Files, l[f] # Absent PROVE FoldText[f] \subseteq schema[Production]
  BY <1>3, <1>4, <1>6, ReleaseConstants
<1>7. LedgerTrue(l, schema[Production])
  BY <1>6, ReleaseAssumption DEF LedgerTrue
<1>8. /\ checkout \in Commits /\ serving \in MaybeCommit /\ gitBuild = {} /\ gitOn \in BOOLEAN /\ swapped = FALSE
      /\ serving # NoCommit => Needs(serving) \subseteq schema[Production]
      /\ lock = [d \in Databases |-> NoRun] /\ run = [r \in Runs |-> NotRunning]
      /\ runs = MaxRuns /\ moves = MaxMoves
  BY DEF ReleaseInit, MaybeCommit
<1>9. NotRunning \in ReleaseRuns /\ NotRunning.at = "rest" /\ NotRunning.built = NoCommit /\ NotRunning.previous = NoCommit
  BY DEF NotRunning, ReleaseRuns, MaybeCommit
<1>10. run \in [Runs -> ReleaseRuns] /\ lock \in [Databases -> Runs \cup {NoRun}]
  BY <1>8, <1>9
<1>11. runs \in 0..MaxRuns /\ moves \in 0..MaxMoves /\ gitBuild \subseteq Commits
  BY <1>8, ReleaseConstants
<1>12. swapped \in BOOLEAN
  BY <1>8, Zenon
<1>13. ReleaseTypeOK
  BY <1>3, <1>5, <1>8, <1>10, <1>11, <1>12 DEF ReleaseTypeOK, ReleaseRuns
<1>14. \A r \in Runs : RunInOrder(r)
  BY <1>8, <1>9 DEF RunInOrder, Fits
<1>15. \A d \in Databases : lock[d] = NoRun
  BY <1>8
<1>16. \A c \in gitBuild \cup {serving} : Fits(c, schema[Production])
  BY <1>8 DEF Fits
<1> QED BY <1>3, <1>7, <1>13, <1>14, <1>15, <1>16 DEF ReleaseInvariant

(* Run r becomes x, and gives up the lock if it has it. *)
RunBecomes(r, x) ==
  /\ run' = [run EXCEPT ![r] = x]
  /\ lock' = [d \in Databases |-> IF lock[d] = r THEN NoRun ELSE lock[d]]

(* A step of one run that leaves the ledgers and schemas: a run that was     *)
(* migrating gives up the lock.                                              *)
LEMMA ReleaseRunSteps ==
  ASSUME ReleaseInvariant, NEW r \in Runs, NEW x \in ReleaseRuns,
         RunBecomes(r, x), x.at # "migrating",
         x.at = "migrated" => x.source \in Commits /\ Fits(x.source, schema[Production]),
         x.at = "gated" => x.token = NoCommit,
         swapped' \in BOOLEAN, swapped => swapped',
         ~swapped' => Fits(x.built, schema[Production]) /\ Fits(x.previous, schema[Production]),
         serving' \in MaybeCommit, ~swapped' => Fits(serving', schema[Production]),
         runs' \in 0..MaxRuns,
         UNCHANGED <<checkout, ledger, schema, gitBuild, gitOn, moves>>
  PROVE  ReleaseInvariant'
<1>1. ReleaseTypeOK /\ LedgerTrue(ledger[Production], schema[Production]) /\ Production \in Databases
  BY ReleaseConstants DEF ReleaseInvariant
<1>2. run \in [Runs -> ReleaseRuns] /\ lock \in [Databases -> Runs \cup {NoRun}]
  BY <1>1 DEF ReleaseTypeOK, ReleaseRuns
<1>3. run' \in [Runs -> ReleaseRuns] /\ run'[r] = x /\ \A q \in Runs \ {r} : run'[q] = run[q]
  BY <1>2 DEF RunBecomes
<1>4. lock' \in [Databases -> Runs \cup {NoRun}] /\ \A d \in Databases : lock'[d] = IF lock[d] = r THEN NoRun ELSE lock[d]
  BY <1>2 DEF RunBecomes
<1>5. ReleaseTypeOK'
  BY <1>1, <1>3, <1>4 DEF ReleaseTypeOK, ReleaseRuns
<1>6. ASSUME NEW q \in Runs PROVE RunInOrder(q)'
  <2>1. CASE q = r
    BY <1>3, <2>1 DEF RunInOrder
  <2>2. CASE q # r
    <3>1. run'[q] = run[q] /\ RunInOrder(q)
      BY <1>3, <2>2 DEF ReleaseInvariant
    <3>2. lock[Production] = q => lock'[Production] = q
      BY <1>1, <1>4, <2>2
    <3>3. \A c : Plannable(Production, c)' <=> Plannable(Production, c)
      BY DEF Plannable, Differs, Ledgered, NoneFolded, AllFolded
    <3> QED BY <3>1, <3>2, <3>3 DEF RunInOrder
  <2> QED BY <2>1, <2>2
<1>7. ASSUME NEW d \in Databases, lock'[d] # NoRun PROVE d = Production /\ run'[lock'[d]].at = "migrating"
  <2>1. lock[d] # r /\ lock'[d] = lock[d] /\ lock[d] \in Runs
    BY <1>2, <1>4, <1>7
  <2>2. d = Production /\ run[lock[d]].at = "migrating"
    BY <1>7, <2>1 DEF ReleaseInvariant
  <2> QED BY <1>3, <2>1, <2>2
<1>8. ~swapped' => \A c \in gitBuild' \cup {serving'} : Fits(c, schema'[Production])
  BY DEF ReleaseInvariant
<1>9. LedgerTrue(ledger[Production], schema[Production])'
  BY <1>1 DEF LedgerTrue
<1> QED BY <1>5, <1>6, <1>7, <1>8, <1>9 DEF ReleaseInvariant

(* A step that touches no run, ledger or schema. *)
LEMMA ReleaseOtherSteps ==
  ASSUME ReleaseInvariant, checkout' \in Commits, moves' \in 0..MaxMoves,
         gitBuild' \subseteq Commits, serving' \in MaybeCommit,
         ~swapped => \A c \in gitBuild' \cup {serving'} : Fits(c, schema[Production]),
         UNCHANGED <<ledger, schema, lock, run, gitOn, runs, swapped>>
  PROVE  ReleaseInvariant'
<1>1. ReleaseTypeOK'
  BY DEF ReleaseInvariant, ReleaseTypeOK
<1>2. \A c : Plannable(Production, c)' <=> Plannable(Production, c)
  BY DEF Plannable, Differs, Ledgered, NoneFolded, AllFolded
<1>3. \A q \in Runs : RunInOrder(q)'
  BY <1>2 DEF ReleaseInvariant, RunInOrder
<1>4. LedgerTrue(ledger[Production], schema[Production])'
  BY DEF ReleaseInvariant, LedgerTrue
<1> QED BY <1>1, <1>3, <1>4 DEF ReleaseInvariant

(* The runner starts: it checks the ledger, and the checksums that it fills  *)
(* in are of texts that are there.                                           *)
LEMMA RunnerStartsKeeps ==
  ASSUME ReleaseInvariant, NEW r \in Runs, NEW d \in Databases, RunnerStarts(r, d)
  PROVE  ReleaseInvariant'
<1> DEFINE l == ledger[Production]
<1> DEFINE fill == [f \in Files |-> IF l[f] = Unknown /\ f \in FilesOf(checkout) THEN Text[checkout][f] ELSE l[f]]
<1> DEFINE x == [run[r] EXCEPT !.at = "migrating", !.source = checkout]
<1>1. /\ ReleaseTypeOK /\ checkout \in Commits /\ LedgerTrue(l, schema[Production]) /\ Production \in Databases
      /\ run \in [Runs -> ReleaseRuns] /\ lock \in [Databases -> Runs \cup {NoRun}]
      /\ ledger \in [Databases -> [Files -> Entries]]
  BY ReleaseConstants DEF ReleaseInvariant, ReleaseTypeOK, ReleaseRuns
<1>2. /\ d = Production /\ lock[Production] = NoRun /\ Plannable(Production, checkout)
      /\ lock' = [lock EXCEPT ![Production] = r]
      /\ ledger' = [ledger EXCEPT ![Production] = fill]
      /\ UNCHANGED <<checkout, schema, gitBuild, serving, gitOn, runs, moves, swapped>>
  BY DEF RunnerStarts, TargetVerified
<1>3. run' = [run EXCEPT ![r].at = "migrating", ![r].source = checkout]
  BY DEF RunnerStarts
<1>4. /\ x \in ReleaseRuns /\ x.at = "migrating" /\ x.source = checkout
      /\ x.built = run[r].built /\ x.previous = run[r].previous
  BY <1>1 DEF ReleaseRuns, MaybeCommit
<1>5. run' = [run EXCEPT ![r] = x]
  BY <1>1, <1>3 DEF ReleaseRuns
<1> HIDE DEF x
<1>6. run' \in [Runs -> ReleaseRuns] /\ run'[r] = x /\ \A q \in Runs \ {r} : run'[q] = run[q]
  BY <1>1, <1>4, <1>5
<1>7. /\ \A f \in Files : fill[f] = IF l[f] = Unknown /\ f \in FilesOf(checkout) THEN Text[checkout][f] ELSE l[f]
      /\ fill \in [Files -> Entries]
  BY <1>1, ReleaseConstants DEF Entries
<1>8. ledger'[Production] = fill /\ ledger' \in [Databases -> [Files -> Entries]]
      /\ lock' \in [Databases -> Runs \cup {NoRun}] /\ lock'[Production] = r
      /\ \A e \in Databases \ {Production} : lock'[e] = lock[e]
  BY <1>1, <1>2, <1>7
<1> HIDE DEF fill
<1>9. ReleaseTypeOK'
  BY <1>1, <1>2, <1>6, <1>8 DEF ReleaseTypeOK, ReleaseRuns
<1>10. LedgerTrue(fill, schema[Production])
  BY <1>1, <1>7, ReleaseConstants DEF LedgerTrue
<1>11. Plannable(Production, checkout)'
  <2> SUFFICES ASSUME NEW f \in FilesOf(checkout)
               PROVE  /\ ~Differs(Production, f, Text[checkout][f])'
                      /\ ~Ledgered(Production, f)' =>
                            \/ NoneFolded(Production, f)'
                            \/ AllFolded(Production, f)' /\ \A g \in Folds[f] : ~Differs(Production, g, FoldText[g])'
    BY <1>2 DEF Plannable
  <2>1. f \in Files /\ Folds[f] \subseteq Files /\ Folds[f] \cap FilesOf(checkout) = {}
    BY <1>1, ReleaseConstants
  <2>2. \A g \in Files : Ledgered(Production, g)' <=> Ledgered(Production, g)
    BY <1>1, <1>7, <1>8, ReleaseConstants DEF Ledgered
  <2>3. \A g \in Folds[f] : fill[g] = l[g]
    BY <1>7, <2>1
  <2>4. ~Differs(Production, f, Text[checkout][f]) /\ (~Ledgered(Production, f) =>
            \/ NoneFolded(Production, f)
            \/ AllFolded(Production, f) /\ \A g \in Folds[f] : ~Differs(Production, g, FoldText[g]))
    BY <1>2 DEF Plannable
  <2>5. ~Differs(Production, f, Text[checkout][f])'
    BY <1>2, <1>7, <1>8, <2>1, <2>4 DEF Differs
  <2>6. NoneFolded(Production, f) => NoneFolded(Production, f)'
    BY <2>1, <2>2 DEF NoneFolded
  <2>7. AllFolded(Production, f) => AllFolded(Production, f)'
    BY <2>1, <2>2 DEF AllFolded
  <2>8. ASSUME NEW g \in Folds[f], ~Differs(Production, g, FoldText[g]) PROVE ~Differs(Production, g, FoldText[g])'
    BY <1>8, <2>3, <2>8 DEF Differs
  <2> QED BY <2>1, <2>2, <2>4, <2>5, <2>6, <2>7, <2>8
<1>12. ASSUME NEW q \in Runs PROVE RunInOrder(q)'
  <2>1. CASE q = r
    <3>1. RunInOrder(r)
      BY DEF ReleaseInvariant
    <3>2. run'[r].at = "migrating" /\ run'[r].source = checkout /\ Plannable(Production, run[r].source)'
      BY <1>2, <1>4, <1>6, <1>11
    <3> QED BY <1>1, <1>2, <1>4, <1>6, <1>8, <2>1, <3>1, <3>2 DEF RunInOrder
  <2>2. CASE q # r
    <3>1. run'[q] = run[q] /\ RunInOrder(q) /\ run[q].at # "migrating"
      BY <1>2, <1>6, <2>2, ReleaseConstants DEF ReleaseInvariant, RunInOrder
    <3> QED BY <1>2, <3>1 DEF RunInOrder
  <2> QED BY <2>1, <2>2
<1>13. ASSUME NEW e \in Databases, lock'[e] # NoRun PROVE e = Production /\ run'[lock'[e]].at = "migrating"
  <2>1. e = Production
    BY <1>8, <1>13 DEF ReleaseInvariant
  <2> QED BY <1>4, <1>6, <1>8, <2>1
<1>14. ~swapped' => \A c \in gitBuild' \cup {serving'} : Fits(c, schema'[Production])
  BY <1>2 DEF ReleaseInvariant
<1>15. LedgerTrue(ledger[Production], schema[Production])'
  BY <1>2, <1>8, <1>10 DEF LedgerTrue
<1> QED BY <1>9, <1>12, <1>13, <1>14, <1>15 DEF ReleaseInvariant

(* The runner records or applies a file: what it records is there already,   *)
(* and what it applies is there with the row.                                *)
LEMMA RunnerWritesKeeps ==
  ASSUME ReleaseInvariant, NEW r \in Runs, NEW d \in Databases, RunnerWrites(r, d)
  PROVE  ReleaseInvariant'
<1> DEFINE c == run[r].source
<1> DEFINE l == ledger[Production]
<1> DEFINE s == schema[Production]
<1>1. /\ ReleaseTypeOK /\ LedgerTrue(l, s) /\ Production \in Databases
      /\ run \in [Runs -> ReleaseRuns] /\ lock \in [Databases -> Runs \cup {NoRun}]
      /\ ledger \in [Databases -> [Files -> Entries]] /\ schema \in [Databases -> SUBSET Facts]
  BY ReleaseConstants DEF ReleaseInvariant, ReleaseTypeOK, ReleaseRuns
<1>2. /\ run[r].at = "migrating" /\ lock[d] = r
      /\ UNCHANGED <<checkout, lock, run, gitBuild, serving, gitOn, runs, moves, swapped>>
  BY DEF RunnerWrites
<1>3. d = Production
  BY <1>2, LockIsHeld
<1>4. c \in Commits /\ Plannable(Production, c)
  BY <1>2 DEF ReleaseInvariant, RunInOrder
<1>5. PICK f \in Missing(Production, c) :
        /\ ledger' = [ledger EXCEPT ![Production][f] = Text[c][f]]
        /\ \/ f \in Recordable(Production, c) /\ schema' = schema
           \/ schema' = [schema EXCEPT ![Production] = @ \cup Text[c][f]]
  BY <1>3 DEF RunnerWrites, Recordable
<1>6. f \in FilesOf(c) /\ f \in Files /\ l[f] = Absent /\ Text[c][f] \subseteq Facts
      /\ Text[c][f] \notin {Absent, Unknown} /\ ~Ledgered(Production, f)
  BY <1>4, <1>5, ReleaseConstants DEF Missing, Ledgered
<1>7. f \in Recordable(Production, c) => Text[c][f] \subseteq s
  <2> HAVE f \in Recordable(Production, c)
  <2>1. AllFolded(Production, f)
    BY DEF Recordable
  <2>2. \A g \in Folds[f] : ~Differs(Production, g, FoldText[g])
    BY <1>4, <1>6, <2>1 DEF Plannable, AllFolded, NoneFolded
  <2> QED BY <1>1, <1>4, <1>6, <2>1, <2>2, FileIsThere
<1>8. /\ schema' \in [Databases -> SUBSET Facts] /\ s \subseteq schema'[Production]
      /\ Text[c][f] \subseteq schema'[Production]
  BY <1>1, <1>5, <1>6, <1>7
<1> DEFINE m == [l EXCEPT ![f] = Text[c][f]]
<1>9. m \in [Files -> Entries] /\ m[f] = Text[c][f] /\ \A g \in Files \ {f} : m[g] = l[g]
  BY <1>1, <1>6 DEF Entries
<1>10. ledger' = [ledger EXCEPT ![Production] = m]
  BY <1>1, <1>5
<1> HIDE DEF m
<1>11. ledger'[Production] = m /\ ledger' \in [Databases -> [Files -> Entries]]
  BY <1>1, <1>9, <1>10
<1>12. ReleaseTypeOK'
  BY <1>1, <1>2, <1>8, <1>11 DEF ReleaseTypeOK
<1>13. LedgerTrue(m, schema'[Production])
  <2>1. ASSUME NEW g \in Files, g # f
        PROVE  /\ m[g] \notin {Absent, Unknown} => m[g] \subseteq schema'[Production]
               /\ m[g] = Unknown => FoldText[g] \subseteq schema'[Production]
                                   /\ \A e \in Commits : Text[e][g] \subseteq schema'[Production]
    BY <1>1, <1>8, <1>9, <2>1 DEF LedgerTrue
  <2> QED BY <1>6, <1>8, <1>9, <2>1 DEF LedgerTrue
<1>14. Plannable(Production, c)'
  <2>1. c' = c
    BY <1>2
  <2> HIDE DEF c
  <2> SUFFICES ASSUME NEW g \in FilesOf(c)
               PROVE  /\ ~Differs(Production, g, Text[c][g])'
                      /\ ~Ledgered(Production, g)' =>
                            \/ NoneFolded(Production, g)'
                            \/ AllFolded(Production, g)' /\ \A h \in Folds[g] : ~Differs(Production, h, FoldText[h])'
    BY <2>1 DEF Plannable, FilesOf
  <2>2. g \in Files /\ Folds[g] \subseteq Files /\ f \notin Folds[g]
    BY <1>4, <1>6, ReleaseConstants
  <2>3. ~Differs(Production, g, Text[c][g]) /\ (~Ledgered(Production, g) =>
            \/ NoneFolded(Production, g)
            \/ AllFolded(Production, g) /\ \A h \in Folds[g] : ~Differs(Production, h, FoldText[h]))
    BY <1>4 DEF Plannable
  <2>4. \A h \in Folds[g] : m[h] = l[h]
    BY <1>9, <2>2
  <2>5. ~Differs(Production, g, Text[c][g])'
    <3>1. m[g] = l[g] \/ m[g] = Text[c][g]
      BY <1>9, <2>2
    <3> QED BY <1>11, <2>1, <2>3, <3>1 DEF Differs
  <2>6. NoneFolded(Production, g) => NoneFolded(Production, g)'
    BY <1>11, <2>4 DEF NoneFolded, Ledgered
  <2>7. AllFolded(Production, g) => AllFolded(Production, g)'
    BY <1>11, <2>4 DEF AllFolded, Ledgered
  <2>8. ASSUME NEW h \in Folds[g], ~Differs(Production, h, FoldText[h]) PROVE ~Differs(Production, h, FoldText[h])'
    BY <1>11, <2>4, <2>8 DEF Differs
  <2>9. ~Ledgered(Production, g)' => ~Ledgered(Production, g)
    BY <1>6, <1>9, <1>11, <2>2 DEF Ledgered
  <2> QED BY <2>3, <2>5, <2>6, <2>7, <2>8, <2>9
<1>15. \A e, x : Fits(e, s) => Fits(e, schema'[Production])
  BY <1>8, FitsGrows
<1>16. ASSUME NEW q \in Runs PROVE RunInOrder(q)'
  <2>1. CASE q = r
    <3>1. RunInOrder(r)
      BY DEF ReleaseInvariant
    <3> QED BY <1>2, <1>3, <1>4, <1>14, <1>15, <2>1, <3>1 DEF RunInOrder
  <2>2. CASE q # r
    <3>1. RunInOrder(q) /\ run[q].at # "migrating"
      BY <1>2, <1>3, <2>2 DEF ReleaseInvariant, RunInOrder
    <3> QED BY <1>2, <1>15, <3>1 DEF RunInOrder
  <2> QED BY <2>1, <2>2
<1>17. ~swapped' => \A e \in gitBuild' \cup {serving'} : Fits(e, schema'[Production])
  BY <1>2, <1>15 DEF ReleaseInvariant
<1>18. LedgerTrue(ledger[Production], schema[Production])'
  BY <1>11, <1>13 DEF LedgerTrue
<1> QED BY <1>2, <1>12, <1>16, <1>17, <1>18 DEF ReleaseInvariant

(* The runner ends when nothing is missing: then what its source needs is    *)
(* there.                                                                    *)
LEMMA RunnerEndsKeeps ==
  ASSUME ReleaseInvariant, NEW r \in Runs, NEW d \in Databases, RunnerEnds(r, d)
  PROVE  ReleaseInvariant'
<1> DEFINE q == run[r]
<1> DEFINE x == IF q.promotes THEN [q EXCEPT !.at = "migrated", !.token = q.head] ELSE NotRunning
<1>1. /\ ReleaseTypeOK /\ run \in [Runs -> ReleaseRuns] /\ lock \in [Databases -> Runs \cup {NoRun}]
      /\ LedgerTrue(ledger[Production], schema[Production])
  BY DEF ReleaseInvariant, ReleaseTypeOK, ReleaseRuns
<1>2. /\ q.at = "migrating" /\ lock[d] = r /\ Missing(d, q.source) = {}
      /\ lock' = [lock EXCEPT ![d] = NoRun]
      /\ UNCHANGED <<checkout, ledger, schema, gitBuild, serving, gitOn, runs, moves, swapped>>
  BY DEF RunnerEnds
<1>3. run' = [run EXCEPT ![r] = x]
  BY <1>1 DEF RunnerEnds
<1>4. d = Production
  BY <1>2, LockIsHeld
<1>5. q.source \in Commits /\ Plannable(Production, q.source)
  BY <1>2 DEF ReleaseInvariant, RunInOrder
<1>6. Fits(q.source, schema[Production])
  <2>1. ASSUME NEW f \in FilesOf(q.source) PROVE Text[q.source][f] \subseteq schema[Production]
    <3>1. Ledgered(Production, f) /\ ~Differs(Production, f, Text[q.source][f])
      BY <1>2, <1>4, <1>5 DEF Missing, Plannable
    <3> QED BY <1>1, <1>5, <3>1, FileIsThere
  <2> QED BY <1>5, <2>1, NeedsFiles DEF Fits
<1>7. \A e \in Databases : lock[e] = r => e = Production
  BY LockIsHeld
<1>8. lock' = [e \in Databases |-> IF lock[e] = r THEN NoRun ELSE lock[e]]
  BY <1>1, <1>2, <1>4, <1>7
<1>9. NotRunning \in ReleaseRuns /\ NotRunning.at = "rest" /\ NotRunning.built = NoCommit /\ NotRunning.previous = NoCommit
  BY DEF NotRunning, ReleaseRuns, MaybeCommit
<1>10. /\ x \in ReleaseRuns /\ x.at \in {"migrated", "rest"}
       /\ x.at = "migrated" => x.source = q.source
       /\ x.built \in {q.built, NoCommit} /\ x.previous \in {q.previous, NoCommit}
  BY <1>1, <1>9 DEF ReleaseRuns
<1> HIDE DEF x
<1>11. ~swapped => Fits(x.built, schema[Production]) /\ Fits(x.previous, schema[Production])
  BY <1>10 DEF ReleaseInvariant, RunInOrder, Fits
<1>12. swapped' = swapped /\ swapped \in BOOLEAN /\ serving' \in MaybeCommit /\ runs' \in 0..MaxRuns
       /\ (~swapped => Fits(serving', schema[Production]))
  BY <1>1, <1>2 DEF ReleaseTypeOK, ReleaseInvariant
<1>13. x.at # "migrating" /\ x.at # "gated" /\ (x.at = "migrated" => x.source \in Commits /\ Fits(x.source, schema[Production]))
  BY <1>5, <1>6, <1>10
<1>14. ~swapped' => Fits(x.built, schema[Production]) /\ Fits(x.previous, schema[Production])
  BY <1>11, <1>12
<1>15. RunBecomes(r, x)
  BY <1>3, <1>8 DEF RunBecomes
<1> HIDE DEF q
<1> QED BY <1>2, <1>10, <1>12, <1>13, <1>14, <1>15, ReleaseRunSteps

(* A run that is at rest or under way without the lock keeps the lock as it  *)
(* is when it changes.                                                       *)
LEMMA LockStays ==
  ASSUME ReleaseInvariant, NEW r \in Runs, NEW x, run[r].at # "migrating", lock' = lock,
         run' = [run EXCEPT ![r] = x]
  PROVE  RunBecomes(r, x)
<1>1. lock \in [Databases -> Runs \cup {NoRun}]
  BY DEF ReleaseInvariant, ReleaseTypeOK
<1>2. \A d \in Databases : lock[d] # r
  BY LockIsHeld
<1> QED BY <1>1, <1>2 DEF RunBecomes

(* A run is gated: it remembers what is served. *)
LEMMA GateKeeps ==
  ASSUME ReleaseInvariant, NEW r \in Runs, GateRun(r) \/ GateMigrate(r)
  PROVE  ReleaseInvariant'
<1>1. /\ ReleaseTypeOK /\ checkout \in Commits /\ serving \in MaybeCommit /\ swapped \in BOOLEAN
      /\ runs \in 0..MaxRuns /\ (~swapped => Fits(serving, schema[Production]))
  BY DEF ReleaseInvariant, ReleaseTypeOK
<1>2. /\ run[r] = NotRunning /\ runs > 0 /\ runs' = runs - 1
      /\ UNCHANGED <<checkout, ledger, schema, lock, gitBuild, serving, gitOn, moves, swapped>>
  BY DEF GateRun, GateMigrate
<1>3. runs' \in 0..MaxRuns /\ NotRunning.at # "migrating"
  BY <1>1, <1>2, ReleaseConstants DEF NotRunning
<1>4. ASSUME NEW x \in ReleaseRuns, run' = [run EXCEPT ![r] = x], x.at = "gated", x.token = NoCommit,
             x.built = NoCommit, x.previous \in {serving, NoCommit}
      PROVE  ReleaseInvariant'
  <2>1. RunBecomes(r, x)
    BY <1>2, <1>3, <1>4, LockStays
  <2>2. ~swapped' => Fits(x.built, schema[Production]) /\ Fits(x.previous, schema[Production])
    BY <1>1, <1>2, <1>4 DEF Fits
  <2> QED BY <1>1, <1>2, <1>3, <1>4, <2>1, <2>2, ReleaseRunSteps
<1>5. CASE GateRun(r)
  <2>1. PICK migrates \in BOOLEAN, rollback \in BOOLEAN :
          run' = [run EXCEPT ![r] = [NotRunning EXCEPT
            !.at = "gated", !.head = checkout, !.previous = serving,
            !.migrates = migrates, !.promotes = TRUE, !.rollback = rollback]]
    BY <1>5 DEF GateRun
  <2> DEFINE x == [NotRunning EXCEPT !.at = "gated", !.head = checkout, !.previous = serving,
                     !.migrates = migrates, !.promotes = TRUE, !.rollback = rollback]
  <2>2. x \in ReleaseRuns /\ x.at = "gated" /\ x.token = NoCommit /\ x.built = NoCommit /\ x.previous = serving
    BY <1>1 DEF NotRunning, ReleaseRuns, MaybeCommit
  <2>3. run' = [run EXCEPT ![r] = x]
    BY <2>1
  <2> HIDE DEF x
  <2> QED BY <1>4, <2>2, <2>3
<1>6. CASE GateMigrate(r)
  <2> DEFINE x == [NotRunning EXCEPT !.at = "gated", !.head = checkout, !.migrates = TRUE]
  <2>1. x \in ReleaseRuns /\ x.at = "gated" /\ x.token = NoCommit /\ x.built = NoCommit /\ x.previous = NoCommit
    BY <1>1 DEF NotRunning, ReleaseRuns, MaybeCommit
  <2>2. run' = [run EXCEPT ![r] = x]
    BY <1>6 DEF GateMigrate
  <2> HIDE DEF x
  <2> QED BY <1>4, <2>1, <2>2
<1> QED BY <1>5, <1>6

(* A build is admitted by a token for the commit that was migrated, unless   *)
(* the checkout came back, or by the ledger.                                 *)
LEMMA BuildRunKeeps ==
  ASSUME ReleaseInvariant, NEW r \in Runs, BuildRun(r)
  PROVE  ReleaseInvariant'
<1> DEFINE q == run[r]
<1> DEFINE x == [q EXCEPT !.at = "built", !.built = checkout]
<1>1. /\ ReleaseTypeOK /\ run \in [Runs -> ReleaseRuns] /\ checkout \in Commits /\ serving \in MaybeCommit
      /\ runs \in 0..MaxRuns /\ RunInOrder(r) /\ LedgerTrue(ledger[Production], schema[Production])
  BY DEF ReleaseInvariant, ReleaseTypeOK, ReleaseRuns
<1>2. /\ q.at = "migrated" \/ (q.at = "gated" /\ q.promotes /\ ~q.migrates)
      /\ PlanDeployGate(q.token, checkout)
      /\ run' = [run EXCEPT ![r].at = "built", ![r].built = checkout]
      /\ swapped' = (swapped \/ (q.token = checkout /\ q.source # checkout))
      /\ UNCHANGED <<checkout, ledger, schema, lock, gitBuild, serving, gitOn, runs, moves>>
  BY DEF BuildRun
<1>3. x \in ReleaseRuns /\ x.at = "built" /\ x.built = checkout /\ x.previous = q.previous
  BY <1>1 DEF ReleaseRuns, MaybeCommit
<1>4. run' = [run EXCEPT ![r] = x]
  BY <1>1, <1>2 DEF ReleaseRuns
<1> HIDE DEF x
<1>5. RunBecomes(r, x)
  BY <1>2, <1>4, LockStays
<1>6. swapped' \in BOOLEAN /\ (swapped => swapped')
  BY <1>2, Zenon
<1>7. ~swapped' => Fits(checkout, schema[Production])
  <2> HAVE ~swapped'
  <2>1. ~swapped /\ (q.token = checkout => q.source = checkout)
    BY <1>2
  <2>2. CASE q.token = NoCommit
    <3>1. LedgerOk(Production, checkout)
      BY <1>2, <2>2 DEF PlanDeployGate
    <3> QED BY <1>1, <3>1, LedgerOkFits
  <2>3. CASE q.token # NoCommit
    <3>1. q.token = checkout /\ q.source = checkout
      BY <1>2, <2>1, <2>3 DEF PlanDeployGate
    <3>2. CASE q.at = "migrated"
      BY <1>1, <3>1, <3>2 DEF RunInOrder
    <3>3. CASE q.at = "gated"
      BY <1>1, <3>1, <3>3, <2>3 DEF RunInOrder
    <3> QED BY <1>2, <3>2, <3>3
  <2> QED BY <2>2, <2>3
<1>8. ~swapped' => Fits(x.built, schema[Production]) /\ Fits(x.previous, schema[Production])
  BY <1>1, <1>3, <1>6, <1>7 DEF RunInOrder
<1>9. ~swapped' => Fits(serving', schema[Production])
  BY <1>2, <1>6 DEF ReleaseInvariant
<1> HIDE DEF q
<1> QED BY <1>1, <1>2, <1>3, <1>5, <1>6, <1>8, <1>9, ReleaseRunSteps

(* What was built is promoted, and promoted back, where it fits; a run ends. *)
LEMMA PromotionKeeps ==
  ASSUME ReleaseInvariant, NEW r \in Runs, Promote(r) \/ RollBack(r) \/ RunEnds(r)
  PROVE  ReleaseInvariant'
<1> DEFINE q == run[r]
<1>1. /\ ReleaseTypeOK /\ run \in [Runs -> ReleaseRuns] /\ q \in ReleaseRuns /\ serving \in MaybeCommit
      /\ runs \in 0..MaxRuns /\ RunInOrder(r) /\ swapped \in BOOLEAN
      /\ (~swapped => Fits(serving, schema[Production]))
  BY DEF ReleaseInvariant, ReleaseTypeOK, ReleaseRuns
<1>2. q.built \in MaybeCommit /\ q.previous \in MaybeCommit
  BY <1>1 DEF ReleaseRuns
<1>3. ~swapped => Fits(q.built, schema[Production]) /\ Fits(q.previous, schema[Production])
  BY <1>1 DEF RunInOrder
<1>4. /\ NotRunning \in ReleaseRuns /\ NotRunning.at = "rest"
      /\ NotRunning.built = NoCommit /\ NotRunning.previous = NoCommit
  BY DEF NotRunning, ReleaseRuns, MaybeCommit
<1>5. CASE Promote(r)
  <2> DEFINE x == [q EXCEPT !.at = "probing"]
  <2>1. x \in ReleaseRuns /\ x.at = "probing" /\ x.built = q.built /\ x.previous = q.previous
    BY <1>1 DEF ReleaseRuns
  <2>2. /\ q.at = "built" /\ serving' = q.built /\ run' = [run EXCEPT ![r].at = "probing"]
        /\ UNCHANGED <<checkout, ledger, schema, lock, gitBuild, gitOn, runs, moves, swapped>>
    BY <1>5 DEF Promote
  <2>3. run' = [run EXCEPT ![r] = x]
    BY <1>1, <2>2
  <2> HIDE DEF x
  <2>4. RunBecomes(r, x)
    BY <2>2, <2>3, LockStays
  <2>5. ~swapped' => Fits(x.built, schema[Production]) /\ Fits(x.previous, schema[Production]) /\ Fits(serving', schema[Production])
    BY <1>3, <2>1, <2>2
  <2> HIDE DEF q
  <2> QED BY <1>1, <1>2, <2>1, <2>2, <2>4, <2>5, ReleaseRunSteps
<1>6. CASE RollBack(r)
  <2>1. /\ q.at = "probing" /\ serving' = q.previous /\ run' = [run EXCEPT ![r] = NotRunning]
        /\ UNCHANGED <<checkout, ledger, schema, lock, gitBuild, gitOn, runs, moves, swapped>>
    BY <1>6 DEF RollBack
  <2>2. RunBecomes(r, NotRunning)
    BY <2>1, LockStays
  <2>3. /\ ~swapped' => /\ Fits(NotRunning.built, schema[Production])
                        /\ Fits(NotRunning.previous, schema[Production])
                        /\ Fits(serving', schema[Production])
    BY <1>3, <1>4, <2>1 DEF Fits
  <2> HIDE DEF q
  <2> QED BY <1>1, <1>2, <1>4, <2>1, <2>2, <2>3, ReleaseRunSteps
<1>7. CASE RunEnds(r)
  <2>1. RunBecomes(r, NotRunning) /\ UNCHANGED <<checkout, ledger, schema, gitBuild, serving, gitOn, runs, moves, swapped>>
    BY <1>7 DEF RunEnds, RunBecomes
  <2>2. /\ ~swapped' => /\ Fits(NotRunning.built, schema[Production])
                        /\ Fits(NotRunning.previous, schema[Production])
                        /\ Fits(serving', schema[Production])
    BY <1>1, <1>4, <2>1 DEF Fits
  <2> HIDE DEF q
  <2> QED BY <1>1, <1>4, <2>1, <2>2, ReleaseRunSteps
<1> QED BY <1>5, <1>6, <1>7

(* Every step of the runs, the operator and Vercel keeps it. *)
LEMMA ReleaseSteps ==
  ASSUME ReleaseInvariant, [ReleaseNext]_releaseVars
  PROVE  ReleaseInvariant'
<1>1. /\ ReleaseTypeOK /\ checkout \in Commits /\ serving \in MaybeCommit /\ gitBuild \subseteq Commits
      /\ moves \in 0..MaxMoves /\ LedgerTrue(ledger[Production], schema[Production])
      /\ (~swapped => \A c \in gitBuild \cup {serving} : Fits(c, schema[Production]))
  BY DEF ReleaseInvariant, ReleaseTypeOK
<1>2. ASSUME NEW c \in Commits, MoveCheckout(c) PROVE ReleaseInvariant'
  <2>1. moves' \in 0..MaxMoves
    BY <1>1, <1>2, ReleaseConstants DEF MoveCheckout
  <2> QED BY <1>1, <1>2, <2>1, ReleaseOtherSteps DEF MoveCheckout
<1>3. ASSUME NEW c \in Commits, GitBuilds(c) PROVE ReleaseInvariant'
  <2>1. LedgerOk(Production, c)
    BY <1>3 DEF GitBuilds, PlanDeployGate
  <2>2. Fits(c, schema[Production])
    BY <1>1, <2>1, LedgerOkFits
  <2> QED BY <1>1, <1>3, <2>2, ReleaseOtherSteps DEF GitBuilds
<1>4. ASSUME NEW c \in Commits, GitPromotes(c) PROVE ReleaseInvariant'
  BY <1>1, <1>4, ReleaseOtherSteps DEF GitPromotes, MaybeCommit
<1>5. ASSUME NEW r \in Runs, GateRun(r) \/ GateMigrate(r) PROVE ReleaseInvariant'
  BY <1>5, GateKeeps
<1>6. ASSUME NEW r \in Runs, NEW d \in Databases, RunnerStarts(r, d) PROVE ReleaseInvariant'
  BY <1>6, RunnerStartsKeeps
<1>7. ASSUME NEW r \in Runs, NEW d \in Databases, RunnerWrites(r, d) PROVE ReleaseInvariant'
  BY <1>7, RunnerWritesKeeps
<1>8. ASSUME NEW r \in Runs, NEW d \in Databases, RunnerEnds(r, d) PROVE ReleaseInvariant'
  BY <1>8, RunnerEndsKeeps
<1>9. ASSUME NEW r \in Runs, BuildRun(r) PROVE ReleaseInvariant'
  BY <1>9, BuildRunKeeps
<1>10. ASSUME NEW r \in Runs, Promote(r) \/ RollBack(r) \/ RunEnds(r) PROVE ReleaseInvariant'
  BY <1>10, PromotionKeeps
<1>11. CASE UNCHANGED releaseVars
  BY <1>1, <1>11, ReleaseOtherSteps DEF releaseVars
<1> QED BY <1>2, <1>3, <1>4, <1>5, <1>6, <1>7, <1>8, <1>9, <1>10, <1>11 DEF ReleaseNext

(* The release's state keeps its type. *)
THEOREM ReleaseTyped == ReleaseSpec => []ReleaseTypeOK
<1>1. ReleaseInvariant /\ [ReleaseNext]_releaseVars => ReleaseInvariant'
  BY ReleaseSteps
<1>2. ReleaseInvariant => ReleaseTypeOK
  BY DEF ReleaseInvariant
<1> QED BY <1>1, <1>2, ReleaseStarts, PTL DEF ReleaseSpec

(* F-47, for any commits, migration files, databases and number of runs:     *)
(* ServedSchemaIsThere.  The ledger never vouches for a text that is not in  *)
(* the schema, so neither gate admits a build ahead of its schema.           *)
THEOREM SchemaPrecedesServing == ReleaseSpec => []ServedSchemaIsThere
<1>1. ReleaseInvariant /\ [ReleaseNext]_releaseVars => ReleaseInvariant'
  BY ReleaseSteps
<1>2. ReleaseInvariant => ServedSchemaIsThere
  BY DEF ReleaseInvariant, ServedSchemaIsThere, Fits
<1> QED BY <1>1, <1>2, ReleaseStarts, PTL DEF ReleaseSpec

-----------------------------------------------------------------------------
(* Borrowed sessions *)

BorrowRecords ==
  [at : {"rest", "union", "shared", "standing", "ready", "opening"}, cookie : SessionRows,
   target : Someone, powers : SUBSET Permissions, cross : BOOLEAN]

SweepRecords ==
  [who : Someone, kind : {"none", "ban", "revoke_all", "reset"},
   todo : Seq({"ban", "own", "borrowed"}), whole : BOOLEAN]

(* The human behind a row is its borrower, or its user if it is not borrowed. *)
RowSound(s) ==
  /\ s \in SessionRows /\ s.user \in People /\ s.human \in People
  /\ s.human = IF s.by = NoOne THEN s.user ELSE s.by

(* A request to borrow comes from a session of one's own. *)
AskSound(b) ==
  b.at # "rest" => RowSound(b.cookie) /\ b.cookie.by = NoOne /\ b.target \in People

BorrowSound ==
  /\ BorrowTypeOK
  /\ \A s \in sessions : RowSound(s)
  /\ \A q \in Borrows : AskSound(borrow[q])
  /\ sweep # NoSweep => sweep.who \in People /\ sweep.todo # <<>> /\ sweep.kind # "none"

(* The records of a request and of a sweep. *)
LEMMA BorrowTypes ==
  ASSUME BorrowTypeOK
  PROVE  borrow \in [Borrows -> BorrowRecords] /\ sweep \in SweepRecords
BY DEF BorrowTypeOK, BorrowRecords, SweepRecords

(* A session of one's own, a request at rest and no sweep. *)
LEMMA RestingRecords ==
  /\ \A p \in Someone : Own(p) \in SessionRows /\ Own(p).user = p /\ Own(p).by = NoOne /\ Own(p).human = p
  /\ \A p \in People : RowSound(Own(p)) /\ p # NoOne /\ p \in Someone
  /\ NoBorrow \in BorrowRecords /\ NoBorrow.at = "rest" /\ AskSound(NoBorrow)
  /\ NoSweep \in SweepRecords /\ NoSweep.who = NoOne /\ NoSweep.todo = <<>>
  /\ NoOne \notin People
<1>1. NoOne \notin People
  BY ImpersonationAssumption
<1>2. \A p \in Someone : Own(p) \in SessionRows /\ Own(p).user = p /\ Own(p).by = NoOne /\ Own(p).human = p
  BY DEF Own, SessionRows, Someone
<1>3. \A p \in People : RowSound(Own(p)) /\ p # NoOne /\ p \in Someone
  BY <1>1, <1>2 DEF RowSound, Someone
<1>4. NoBorrow \in BorrowRecords /\ NoBorrow.at = "rest"
  BY <1>2 DEF NoBorrow, BorrowRecords, Someone
<1>5. NoSweep \in SweepRecords /\ NoSweep.who = NoOne /\ NoSweep.todo = <<>>
  BY DEF NoSweep, SweepRecords, Someone
<1> QED BY <1>1, <1>2, <1>3, <1>4, <1>5 DEF AskSound

(* A row whose history says that ranks have shifted is the same row. *)
LEMMA ShiftedRow ==
  ASSUME NEW s \in SessionRows, NEW x \in BOOLEAN
  PROVE  LET t == [s EXCEPT !.shifted = x]
         IN /\ t \in SessionRows /\ t.user = s.user /\ t.by = s.by /\ t.human = s.human
            /\ t.judged = s.judged /\ t.late = s.late /\ t.shifted = x
BY DEF SessionRows

(* A request whose cookie is deleted under it is the same request, but late. *)
Delayed(b) == [b EXCEPT !.cookie.late = TRUE]

LEMMA DelayedRequest ==
  ASSUME NEW b \in BorrowRecords
  PROVE  /\ Delayed(b) \in BorrowRecords /\ Delayed(b).at = b.at /\ Delayed(b).target = b.target
         /\ Delayed(b).powers = b.powers /\ Delayed(b).cross = b.cross
         /\ Delayed(b).cookie.user = b.cookie.user /\ Delayed(b).cookie.by = b.cookie.by
         /\ Delayed(b).cookie.human = b.cookie.human /\ Delayed(b).cookie.shifted = b.cookie.shifted
         /\ Delayed(b).cookie.late = TRUE /\ Delayed(b).cookie \in SessionRows
<1> DEFINE c == [b.cookie EXCEPT !.late = TRUE]
<1>1. b.cookie \in SessionRows
  BY DEF BorrowRecords
<1>2. /\ c \in SessionRows /\ c.user = b.cookie.user /\ c.by = b.cookie.by /\ c.human = b.cookie.human
      /\ c.shifted = b.cookie.shifted /\ c.late = TRUE
  BY <1>1 DEF SessionRows
<1>3. Delayed(b) = [b EXCEPT !.cookie = c]
  BY DEF Delayed, BorrowRecords
<1> HIDE DEF c
<1> QED BY <1>2, <1>3 DEF BorrowRecords

(* Initially everybody has a session of their own and nothing is borrowed. *)
LEMMA BorrowStarts == BorrowInit => BorrowSound
<1> SUFFICES ASSUME BorrowInit PROVE BorrowSound
  OBVIOUS
<1>1. /\ inactive = {} /\ banned = {} /\ sessions = {Own(p) : p \in People}
      /\ borrow = [q \in Borrows |-> NoBorrow] /\ sweep = NoSweep
      /\ changes = MaxChanges /\ contained = [p \in People |-> "none"]
  BY DEF BorrowInit
<1>2. /\ enrolled \in [People \X Tenants -> {"none", "active", "suspended"}]
      /\ granted \subseteq People \X Tenants \X Permissions /\ tenants \subseteq Tenants
  BY ImpersonationAssumption DEF BorrowInit, Permissions
<1>3. \A s \in sessions : RowSound(s)
  BY <1>1, RestingRecords
<1>4. sessions \subseteq SessionRows
  BY <1>3 DEF RowSound
<1>5. borrow \in [Borrows -> BorrowRecords] /\ sweep \in SweepRecords /\ \A q \in Borrows : AskSound(borrow[q])
  BY <1>1, RestingRecords
<1>6. changes \in 0..MaxChanges
  BY <1>1, ImpersonationAssumption
<1>7. BorrowTypeOK
  BY <1>1, <1>2, <1>4, <1>5, <1>6 DEF BorrowTypeOK, BorrowRecords, SweepRecords
<1> QED BY <1>1, <1>3, <1>5, <1>7 DEF BorrowSound

(* What a deletion does: rows go, and a request is left alone, delayed or    *)
(* ended.                                                                    *)
LEMMA DeletingDoes ==
  ASSUME BorrowSound, NEW rows, Deleting(rows)
  PROVE  /\ sessions' \subseteq sessions /\ \A s \in sessions' : Row(s) \notin rows
         /\ borrow' \in [Borrows -> BorrowRecords]
         /\ \A q \in Borrows :
              \/ borrow'[q] = borrow[q] /\ Row(borrow[q].cookie) \notin rows
              \/ borrow'[q] = Delayed(borrow[q])
              \/ borrow'[q] = NoBorrow
<1>1. borrow \in [Borrows -> BorrowRecords]
  BY BorrowTypes DEF BorrowSound
<1>2. sessions' = {s \in sessions : Row(s) \notin rows}
  BY DEF Deleting
<1>3. borrow' = [q \in Borrows |->
                   IF Row(borrow[q].cookie) \notin rows THEN borrow[q]
                   ELSE IF borrow[q].at = "opening" THEN Delayed(borrow[q]) ELSE NoBorrow]
  BY DEF Deleting, Delayed
<1>4. \A q \in Borrows : Delayed(borrow[q]) \in BorrowRecords /\ borrow[q] \in BorrowRecords
  BY <1>1, DelayedRequest
<1> HIDE DEF Delayed
<1>5. borrow' \in [Borrows -> BorrowRecords]
  BY <1>3, <1>4, RestingRecords
<1> QED BY <1>2, <1>3, <1>5

(* What a shift does: rows and requests are the same but for its record. *)
LEMMA ShiftingDoes ==
  ASSUME BorrowSound, NEW gains, NEW loses, Shifting(gains, loses)
  PROVE  /\ \A s \in sessions' : s \in SessionRows /\ \E t \in sessions :
              /\ s.user = t.user /\ s.by = t.by /\ s.human = t.human /\ s.judged = t.judged /\ s.late = t.late
              /\ s.by # NoOne => s.shifted = (t.shifted \/ t.user \in gains \/ t.human \in loses)
         /\ borrow' \in [Borrows -> BorrowRecords]
         /\ \A q \in Borrows :
              /\ borrow'[q].at = borrow[q].at /\ borrow'[q].target = borrow[q].target
              /\ borrow'[q].powers = borrow[q].powers /\ borrow'[q].cross = borrow[q].cross
              /\ borrow'[q].cookie.user = borrow[q].cookie.user /\ borrow'[q].cookie.by = borrow[q].cookie.by
              /\ borrow'[q].cookie.human = borrow[q].cookie.human /\ borrow'[q].cookie.late = borrow[q].cookie.late
              /\ borrow'[q].cookie \in SessionRows
              /\ borrow[q].at # "rest" =>
                   borrow'[q].cookie.shifted = (borrow[q].cookie.shifted \/ borrow[q].target \in gains
                                                  \/ borrow[q].cookie.human \in loses)
<1> DEFINE moved(s, v) == [s EXCEPT !.shifted = @ \/ v \in gains \/ s.human \in loses]
<1>1. borrow \in [Borrows -> BorrowRecords] /\ sessions \subseteq SessionRows
  BY BorrowTypes DEF BorrowSound, BorrowTypeOK
<1>2. ASSUME NEW s \in SessionRows, NEW v
      PROVE  /\ moved(s, v) \in SessionRows /\ moved(s, v).user = s.user /\ moved(s, v).by = s.by
             /\ moved(s, v).human = s.human /\ moved(s, v).judged = s.judged /\ moved(s, v).late = s.late
             /\ moved(s, v).shifted = (s.shifted \/ v \in gains \/ s.human \in loses)
  <2> DEFINE y == (s.shifted \/ v \in gains \/ s.human \in loses)
  <2>1. y \in BOOLEAN
    OBVIOUS
  <2>2. moved(s, v) = [s EXCEPT !.shifted = y]
    BY DEF SessionRows
  <2> HIDE DEF y
  <2>3. LET t == [s EXCEPT !.shifted = y]
        IN /\ t \in SessionRows /\ t.user = s.user /\ t.by = s.by /\ t.human = s.human
           /\ t.judged = s.judged /\ t.late = s.late /\ t.shifted = y
    BY <2>1, ShiftedRow
  <2> QED BY <2>2, <2>3 DEF y
<1>3. /\ sessions' = {IF s.by = NoOne THEN s ELSE moved(s, s.user) : s \in sessions}
      /\ borrow' = [q \in Borrows |-> IF borrow[q].at = "rest" THEN borrow[q]
                                      ELSE [borrow[q] EXCEPT !.cookie = moved(@, borrow[q].target)]]
  BY DEF Shifting
<1> HIDE DEF moved
<1>4. ASSUME NEW s \in sessions'
      PROVE  s \in SessionRows /\ \E t \in sessions :
              /\ s.user = t.user /\ s.by = t.by /\ s.human = t.human /\ s.judged = t.judged /\ s.late = t.late
              /\ s.by # NoOne => s.shifted = (t.shifted \/ t.user \in gains \/ t.human \in loses)
  <2>1. PICK t \in sessions : s = IF t.by = NoOne THEN t ELSE moved(t, t.user)
    BY <1>3
  <2>2. t \in SessionRows
    BY <1>1
  <2>3. CASE t.by = NoOne
    BY <2>1, <2>2, <2>3
  <2>4. CASE t.by # NoOne
    BY <1>2, <2>1, <2>2, <2>4
  <2> QED BY <2>3, <2>4
<1>5. ASSUME NEW q \in Borrows
      PROVE  /\ borrow'[q] \in BorrowRecords
             /\ borrow'[q].at = borrow[q].at /\ borrow'[q].target = borrow[q].target
             /\ borrow'[q].powers = borrow[q].powers /\ borrow'[q].cross = borrow[q].cross
             /\ borrow'[q].cookie = IF borrow[q].at = "rest" THEN borrow[q].cookie
                                      ELSE moved(borrow[q].cookie, borrow[q].target)
  <2>1. borrow[q] \in BorrowRecords /\ borrow[q].cookie \in SessionRows
    BY <1>1 DEF BorrowRecords
  <2> DEFINE c == moved(borrow[q].cookie, borrow[q].target)
  <2>2. c \in SessionRows
    BY <1>2, <2>1
  <2>3. borrow'[q] = IF borrow[q].at = "rest" THEN borrow[q] ELSE [borrow[q] EXCEPT !.cookie = c]
    BY <1>3, <2>1 DEF BorrowRecords
  <2> HIDE DEF c
  <2>4. /\ [borrow[q] EXCEPT !.cookie = c] \in BorrowRecords
        /\ [borrow[q] EXCEPT !.cookie = c].cookie = c
        /\ [borrow[q] EXCEPT !.cookie = c].at = borrow[q].at
        /\ [borrow[q] EXCEPT !.cookie = c].target = borrow[q].target
        /\ [borrow[q] EXCEPT !.cookie = c].powers = borrow[q].powers
        /\ [borrow[q] EXCEPT !.cookie = c].cross = borrow[q].cross
    BY <2>1, <2>2 DEF BorrowRecords
  <2> QED BY <2>1, <2>3, <2>4 DEF c
<1>6. borrow' \in [Borrows -> BorrowRecords]
  <2>1. DOMAIN borrow' = Borrows /\ borrow' = [q \in Borrows |-> borrow'[q]]
    BY <1>3
  <2> QED BY <1>5, <2>1
<1>7. \A q \in Borrows : borrow[q].cookie \in SessionRows
  BY <1>1 DEF BorrowRecords
<1> QED BY <1>2, <1>4, <1>5, <1>6, <1>7

(* A sweep goes on to its next statement, or ends. *)
LEMMA SweptDoes ==
  ASSUME BorrowSound, sweep # NoSweep, NEW whole \in BOOLEAN, SweptAfter(whole)
  PROVE  /\ sweep' \in SweepRecords
         /\ contained' \in [People -> {"none", "ban", "revoke_all", "reset"}]
         /\ \/ /\ Tail(sweep.todo) # <<>> /\ contained' = contained
               /\ sweep'.who = sweep.who /\ sweep'.kind = sweep.kind
               /\ sweep'.todo = Tail(sweep.todo) /\ sweep'.whole = whole
            \/ /\ Tail(sweep.todo) = <<>> /\ sweep' = NoSweep
               /\ contained' = IF whole THEN [contained EXCEPT ![sweep.who] = sweep.kind] ELSE contained
<1>1. sweep \in SweepRecords /\ sweep.who \in People /\ sweep.todo # <<>>
      /\ contained \in [People -> {"none", "ban", "revoke_all", "reset"}]
  BY BorrowTypes DEF BorrowSound, BorrowTypeOK
<1>2. sweep.todo \in Seq({"ban", "own", "borrowed"}) /\ sweep.kind \in {"none", "ban", "revoke_all", "reset"}
  BY <1>1 DEF SweepRecords
<1>3. Tail(sweep.todo) \in Seq({"ban", "own", "borrowed"})
  BY <1>1, <1>2
<1> DEFINE left == Tail(sweep.todo)
<1> HIDE DEF left
<1>4. CASE left # <<>>
  <2>1. sweep' = [sweep EXCEPT !.todo = left, !.whole = whole] /\ contained' = contained
    BY <1>4 DEF SweptAfter, left
  <2> QED BY <1>1, <1>3, <1>4, <2>1 DEF SweepRecords, left
<1>5. CASE left = <<>>
  <2>1. sweep' = NoSweep /\ contained' = IF whole THEN [contained EXCEPT ![sweep.who] = sweep.kind] ELSE contained
    BY <1>5 DEF SweptAfter, left
  <2>2. contained' \in [People -> {"none", "ban", "revoke_all", "reset"}]
    BY <1>1, <1>2, <2>1
  <2> QED BY <1>5, <2>1, <2>2, RestingRecords DEF left
<1> QED BY <1>4, <1>5

(* A request takes a step of its comparison. *)
LEMMA BorrowStepDoes ==
  ASSUME BorrowSound, NEW q \in Borrows, NEW from,
         NEW to \in {"shared", "standing", "ready", "opening"}, BorrowStep(q, from, to)
  PROVE  /\ borrow' \in [Borrows -> BorrowRecords] /\ \A r \in Borrows \ {q} : borrow'[r] = borrow[r]
         /\ borrow'[q].at = to /\ borrow[q].at = from
         /\ borrow'[q].cookie = borrow[q].cookie /\ borrow'[q].target = borrow[q].target
         /\ borrow'[q].powers = borrow[q].powers /\ borrow'[q].cross = borrow[q].cross
         /\ UNCHANGED <<access, sessions, sweep, changes, contained>>
<1>1. borrow \in [Borrows -> BorrowRecords]
  BY BorrowTypes DEF BorrowSound
<1>2. borrow' = [borrow EXCEPT ![q].at = to] /\ borrow[q].at = from
      /\ UNCHANGED <<access, sessions, sweep, changes, contained>>
  BY DEF BorrowStep
<1> DEFINE x == [borrow[q] EXCEPT !.at = to]
<1>3. /\ x \in BorrowRecords /\ x.at = to /\ x.cookie = borrow[q].cookie /\ x.target = borrow[q].target
      /\ x.powers = borrow[q].powers /\ x.cross = borrow[q].cross
  BY <1>1 DEF BorrowRecords
<1>4. borrow' = [borrow EXCEPT ![q] = x]
  BY <1>1, <1>2
<1> HIDE DEF x
<1> QED BY <1>1, <1>2, <1>3, <1>4

(* Where the guard admits a request, it is under way with the cookie that it *)
(* came with.                                                                *)
LEMMA GuardDoes ==
  ASSUME BorrowSound, NEW q \in Borrows, NEW s \in sessions, NEW v \in People, ImpersonateGuard(q, s, v)
  PROVE  /\ borrow' \in [Borrows -> BorrowRecords] /\ \A r \in Borrows \ {q} : borrow'[r] = borrow[r]
         /\ s.by = NoOne /\ borrow'[q].cookie = s /\ borrow'[q].target = v
         /\ borrow'[q].at \in {"standing", "union"} /\ (borrow'[q].at = "standing" => borrow'[q].cross)
         /\ borrow'[q].cross = ("superuser" \in borrow'[q].powers)
         /\ UNCHANGED <<access, sessions, sweep, changes, contained>>
<1>1. borrow \in [Borrows -> BorrowRecords] /\ s \in SessionRows
  BY BorrowTypes DEF BorrowSound, RowSound
<1>2. PICK o \in Resolves(s) :
        borrow' = [borrow EXCEPT ![q] =
          [at |-> IF "superuser" \in Power(s.user, o) THEN "standing" ELSE "union", cookie |-> s,
           target |-> v, powers |-> Power(s.user, o), cross |-> "superuser" \in Power(s.user, o)]]
  BY DEF ImpersonateGuard
<1> DEFINE powers == Power(s.user, o)
<1> DEFINE cross == "superuser" \in powers
<1> DEFINE x == [at |-> IF cross THEN "standing" ELSE "union", cookie |-> s,
                 target |-> v, powers |-> powers, cross |-> cross]
<1>3. powers \in SUBSET Permissions /\ cross \in BOOLEAN
  BY DEF Power, HeldIn
<1> HIDE DEF powers
<1>4. /\ x \in BorrowRecords /\ x.cookie = s /\ x.target = v /\ x.at \in {"standing", "union"}
      /\ (x.at = "standing" => x.cross) /\ x.cross = ("superuser" \in x.powers)
  BY <1>1, <1>3, RestingRecords DEF BorrowRecords
<1>5. borrow' = [borrow EXCEPT ![q] = x]
  BY <1>2 DEF powers
<1> HIDE DEF x
<1>6. s.by = NoOne /\ UNCHANGED <<access, sessions, sweep, changes, contained>>
  BY DEF ImpersonateGuard
<1> QED BY <1>1, <1>4, <1>5, <1>6

(* Better Auth inserts the row of the request. *)
LEMMA OpensDoes ==
  ASSUME BorrowSound, NEW q \in Borrows, VendorOpens(q)
  PROVE  \E s \in SessionRows :
           /\ s.user = borrow[q].target /\ s.by = borrow[q].cookie.user /\ s.human = borrow[q].cookie.human
           /\ s.judged = ~borrow[q].cross /\ s.shifted = borrow[q].cookie.shifted /\ s.late = borrow[q].cookie.late
           /\ RowSound(s) /\ s.by # NoOne
           /\ sessions' = sessions \cup {s} /\ borrow[q].at = "opening"
           /\ borrow' = [borrow EXCEPT ![q] = NoBorrow]
           /\ UNCHANGED <<access, sweep, changes, contained>>
<1> DEFINE b == borrow[q]
<1>1. borrow \in [Borrows -> BorrowRecords] /\ b \in BorrowRecords /\ b.cookie \in SessionRows /\ b.cross \in BOOLEAN
  BY BorrowTypes DEF BorrowSound, BorrowRecords
<1>2. b.at = "opening" /\ AskSound(b)
  BY DEF VendorOpens, BorrowSound
<1>3. RowSound(b.cookie) /\ b.cookie.by = NoOne /\ b.target \in People
  BY <1>2 DEF AskSound
<1> DEFINE s == [user |-> b.target, by |-> b.cookie.user, human |-> b.cookie.human,
                 judged |-> ~b.cross, shifted |-> b.cookie.shifted, late |-> b.cookie.late]
<1>4. /\ s \in SessionRows /\ s.user = b.target /\ s.by = b.cookie.user /\ s.human = b.cookie.human
      /\ s.judged = ~b.cross /\ s.shifted = b.cookie.shifted /\ s.late = b.cookie.late
  BY <1>1, <1>3, RestingRecords DEF SessionRows, RowSound
<1>5. sessions' = sessions \cup {s} /\ borrow' = [borrow EXCEPT ![q] = NoBorrow]
      /\ UNCHANGED <<access, sweep, changes, contained>>
  BY DEF VendorOpens
<1> HIDE DEF s
<1>6. RowSound(s) /\ s.by # NoOne
  BY <1>3, <1>4, RestingRecords DEF RowSound
<1> QED BY <1>2, <1>4, <1>5, <1>6

(* Steps that keep the rows and requests they find, in another state of the  *)
(* directory.                                                                *)
LEMMA BorrowDirectorySteps ==
  ASSUME BorrowSound, UNCHANGED <<sessions, borrow, sweep, contained>>, changes' \in 0..MaxChanges,
         enrolled' \in [People \X Tenants -> {"none", "active", "suspended"}],
         granted' \subseteq People \X Tenants \X Permissions,
         tenants' \subseteq Tenants, inactive' \subseteq People, banned' \subseteq People
  PROVE  BorrowSound'
BY DEF BorrowSound, BorrowTypeOK

(* The parts of the next state, put together. *)
LEMMA BorrowSoundNext ==
  ASSUME BorrowSound,
         enrolled' \in [People \X Tenants -> {"none", "active", "suspended"}],
         granted' \subseteq People \X Tenants \X Permissions,
         tenants' \subseteq Tenants, inactive' \subseteq People, banned' \subseteq People,
         \A s \in sessions' : RowSound(s),
         borrow' \in [Borrows -> BorrowRecords], \A q \in Borrows : AskSound(borrow'[q]),
         sweep' \in SweepRecords,
         sweep' # NoSweep => sweep'.who \in People /\ sweep'.todo # <<>> /\ sweep'.kind # "none",
         changes' \in 0..MaxChanges,
         contained' \in [People -> {"none", "ban", "revoke_all", "reset"}]
  PROVE  BorrowSound'
<1>1. sessions' \subseteq SessionRows
  BY DEF RowSound
<1>2. BorrowTypeOK'
  BY <1>1 DEF BorrowTypeOK, BorrowRecords, SweepRecords
<1> QED BY <1>2 DEF BorrowSound

(* A request or sweep that goes on, and the deletions they make, keep rows   *)
(* and requests sound.                                                       *)
LEMMA BorrowSoundSteps ==
  ASSUME BorrowSound, [BorrowNext]_borrowVars
  PROVE  BorrowSound'
<1>1. /\ BorrowTypeOK /\ borrow \in [Borrows -> BorrowRecords] /\ sweep \in SweepRecords
      /\ enrolled \in [People \X Tenants -> {"none", "active", "suspended"}]
      /\ granted \subseteq People \X Tenants \X Permissions
      /\ tenants \subseteq Tenants /\ inactive \subseteq People /\ banned \subseteq People
      /\ changes \in 0..MaxChanges /\ MaxChanges \in Nat
      /\ contained \in [People -> {"none", "ban", "revoke_all", "reset"}]
      /\ \A s \in sessions : RowSound(s)
      /\ \A q \in Borrows : AskSound(borrow[q])
      /\ sweep # NoSweep => sweep.who \in People /\ sweep.todo # <<>> /\ sweep.kind # "none"
  BY BorrowTypes, ImpersonationAssumption DEF BorrowSound, BorrowTypeOK
<1>2. ASSUME NEW q \in Borrows, NEW s \in sessions, NEW v \in People, ImpersonateGuard(q, s, v) PROVE BorrowSound'
  <2>1. /\ borrow' \in [Borrows -> BorrowRecords] /\ \A r \in Borrows \ {q} : borrow'[r] = borrow[r]
        /\ s.by = NoOne /\ borrow'[q].cookie = s /\ borrow'[q].target = v
        /\ UNCHANGED <<access, sessions, sweep, changes, contained>>
    BY <1>2, GuardDoes
  <2>2. \A r \in Borrows : AskSound(borrow'[r])
    BY <1>1, <2>1 DEF AskSound
  <2> QED BY <1>1, <2>1, <2>2, BorrowSoundNext DEF access
<1>3. ASSUME NEW q \in Borrows, CompareUnion(q) \/ CompareShared(q) \/ CheckStanding(q) \/ VendorReads(q)
      PROVE  BorrowSound'
  <2>1. PICK from \in {"union", "shared", "standing", "ready"}, to \in {"shared", "standing", "ready", "opening"} :
          BorrowStep(q, from, to)
    BY <1>3 DEF CompareUnion, CompareShared, CheckStanding, VendorReads
  <2>2. /\ borrow' \in [Borrows -> BorrowRecords] /\ \A r \in Borrows \ {q} : borrow'[r] = borrow[r]
        /\ borrow[q].at = from /\ borrow'[q].cookie = borrow[q].cookie /\ borrow'[q].target = borrow[q].target
        /\ UNCHANGED <<access, sessions, sweep, changes, contained>>
    BY <2>1, BorrowStepDoes
  <2>3. \A r \in Borrows : AskSound(borrow'[r])
    BY <1>1, <2>2 DEF AskSound
  <2> QED BY <1>1, <2>2, <2>3, BorrowSoundNext DEF access
<1>4. ASSUME NEW q \in Borrows, VendorOpens(q) PROVE BorrowSound'
  <2>1. PICK s \in SessionRows :
           /\ RowSound(s) /\ sessions' = sessions \cup {s} /\ borrow' = [borrow EXCEPT ![q] = NoBorrow]
           /\ UNCHANGED <<access, sweep, changes, contained>>
    BY <1>4, OpensDoes
  <2>2. borrow' \in [Borrows -> BorrowRecords] /\ \A r \in Borrows : AskSound(borrow'[r])
    BY <1>1, <2>1, RestingRecords
  <2>3. \A t \in sessions' : RowSound(t)
    BY <1>1, <2>1
  <2> QED BY <1>1, <2>1, <2>2, <2>3, BorrowSoundNext DEF access
<1>5. ASSUME NEW q \in Borrows, BorrowEnds(q) PROVE BorrowSound'
  <2>1. borrow' = [borrow EXCEPT ![q] = NoBorrow] /\ UNCHANGED <<access, sessions, sweep, changes, contained>>
    BY <1>5 DEF BorrowEnds
  <2>2. borrow' \in [Borrows -> BorrowRecords] /\ \A r \in Borrows : AskSound(borrow'[r])
    BY <1>1, <2>1, RestingRecords
  <2> QED BY <1>1, <2>1, <2>2, BorrowSoundNext DEF access
<1>6. ASSUME NEW s \in sessions, StopImpersonating(s) PROVE BorrowSound'
  <2>1. /\ sessions' \subseteq sessions /\ UNCHANGED <<access, sweep, changes, contained>>
        /\ borrow' = [q \in Borrows |-> IF borrow[q].at # "opening" /\ borrow[q].cookie = s
                                          THEN NoBorrow ELSE borrow[q]]
    BY <1>6 DEF StopImpersonating
  <2>2. borrow' \in [Borrows -> BorrowRecords] /\ \A r \in Borrows : AskSound(borrow'[r])
    BY <1>1, <2>1, RestingRecords
  <2> QED BY <1>1, <2>1, <2>2, BorrowSoundNext DEF access
<1>7. ASSUME NEW p \in People, NEW kind \in {"ban", "revoke_all", "reset"}, SweepStarts(p, kind) PROVE BorrowSound'
  <2>1. /\ sweep' = [who |-> p, kind |-> kind, todo |-> Statements(kind), whole |-> TRUE]
        /\ changes > 0 /\ changes' = changes - 1 /\ UNCHANGED <<access, sessions, borrow, contained>>
    BY <1>7 DEF SweepStarts
  <2>2. Statements(kind) \in Seq({"ban", "own", "borrowed"}) /\ Statements(kind) # <<>>
    <3>1. /\ <<"ban", "own", "borrowed">> \in Seq({"ban", "own", "borrowed"}) /\ <<"ban", "own", "borrowed">> # <<>>
          /\ <<"own", "borrowed">> \in Seq({"ban", "own", "borrowed"}) /\ <<"own", "borrowed">> # <<>>
          /\ <<"borrowed", "own">> \in Seq({"ban", "own", "borrowed"}) /\ <<"borrowed", "own">> # <<>>
      OBVIOUS
    <3> QED BY <3>1 DEF Statements
  <2>3. sweep' \in SweepRecords /\ sweep'.who = p /\ sweep'.todo = Statements(kind) /\ sweep'.kind = kind
    BY <2>1, <2>2, RestingRecords DEF SweepRecords
  <2>4. changes' \in 0..MaxChanges
    BY <1>1, <2>1
  <2> QED BY <1>1, <2>1, <2>2, <2>3, <2>4, BorrowSoundNext DEF access
<1>8. ASSUME NEW rows, Deleting(rows)
      PROVE  /\ \A s \in sessions' : RowSound(s)
             /\ borrow' \in [Borrows -> BorrowRecords] /\ \A q \in Borrows : AskSound(borrow'[q])
  <2>1. /\ sessions' \subseteq sessions /\ borrow' \in [Borrows -> BorrowRecords]
        /\ \A q \in Borrows : borrow'[q] = borrow[q] \/ borrow'[q] = Delayed(borrow[q]) \/ borrow'[q] = NoBorrow
    BY <1>8, DeletingDoes
  <2>2. ASSUME NEW q \in Borrows PROVE AskSound(borrow'[q])
    <3>1. CASE borrow'[q] = Delayed(borrow[q])
      <4>1. borrow[q] \in BorrowRecords /\ AskSound(borrow[q])
        BY <1>1
      <4> QED BY <3>1, <4>1, DelayedRequest DEF AskSound, RowSound
    <3> QED BY <1>1, <2>1, <3>1, RestingRecords
  <2> QED BY <1>1, <2>1, <2>2
<1>9. ASSUME SweepStatement PROVE BorrowSound'
  <2>1. sweep # NoSweep /\ SweptAfter(sweep.whole) /\ UNCHANGED <<enrolled, granted, tenants, inactive, changes>>
    BY <1>9 DEF SweepStatement
  <2>2. sweep.whole \in BOOLEAN
    BY <1>1 DEF SweepRecords
  <2>3. /\ sweep' \in SweepRecords /\ contained' \in [People -> {"none", "ban", "revoke_all", "reset"}]
        /\ sweep' = NoSweep \/ (sweep'.who = sweep.who /\ sweep'.kind = sweep.kind /\ sweep'.todo # <<>>)
    BY <2>1, <2>2, SweptDoes
  <2>4. CASE banned' = banned \cup {sweep.who} /\ UNCHANGED <<sessions, borrow>>
    BY <1>1, <2>1, <2>3, <2>4, BorrowSoundNext
  <2>5. CASE Deleting(RowsOf(sweep.who, Head(sweep.todo))) /\ UNCHANGED banned
    BY <1>1, <1>8, <2>1, <2>3, <2>5, BorrowSoundNext
  <2> QED BY <1>9, <2>4, <2>5 DEF SweepStatement
<1>10. ASSUME SweepFails PROVE BorrowSound'
  <2>1. sweep # NoSweep /\ UNCHANGED <<access, sessions, borrow, changes>>
    BY <1>10 DEF SweepFails
  <2>2. /\ sweep' \in SweepRecords /\ contained' \in [People -> {"none", "ban", "revoke_all", "reset"}]
        /\ sweep' = NoSweep \/ (sweep'.who = sweep.who /\ sweep'.kind = sweep.kind /\ sweep'.todo # <<>>)
    <3>1. CASE sweep.kind = "reset"
      <4>1. SweptAfter(FALSE)
        BY <1>10, <3>1 DEF SweepFails
      <4>2. ASSUME NEW w \in BOOLEAN, SweptAfter(w)
            PROVE  /\ sweep' \in SweepRecords /\ contained' \in [People -> {"none", "ban", "revoke_all", "reset"}]
                   /\ sweep' = NoSweep \/ (sweep'.who = sweep.who /\ sweep'.kind = sweep.kind /\ sweep'.todo # <<>>)
        BY <2>1, <4>2, SweptDoes
      <4> QED BY <4>1, <4>2, Zenon
    <3>2. CASE sweep.kind # "reset"
      BY <1>1, <1>10, <3>2, RestingRecords DEF SweepFails
    <3> QED BY <3>1, <3>2
  <2> QED BY <1>1, <2>1, <2>2, BorrowSoundNext DEF access
<1>11. ASSUME NEW p \in People, OwnSweep(p) PROVE BorrowSound'
  <2>1. Deleting(RowsOf(p, "borrowed")) /\ UNCHANGED <<access, sweep, changes, contained>>
    BY <1>11 DEF OwnSweep
  <2> QED BY <1>1, <1>8, <2>1, BorrowSoundNext DEF access
<1>12. ASSUME NEW gains, NEW loses, Shifting(gains, loses), Change,
              enrolled' \in [People \X Tenants -> {"none", "active", "suspended"}],
              granted' \subseteq People \X Tenants \X Permissions,
              UNCHANGED <<tenants, inactive, banned>>
       PROVE  BorrowSound'
  <2>1. changes' \in 0..MaxChanges /\ sweep' = sweep
    BY <1>1, <1>12 DEF Change
  <2>2. \A s \in sessions' : RowSound(s)
    BY <1>1, <1>12, ShiftingDoes DEF RowSound
  <2>3. borrow' \in [Borrows -> BorrowRecords]
    BY <1>12, ShiftingDoes
  <2>4. \A q \in Borrows : AskSound(borrow'[q])
    BY <1>1, <1>12, ShiftingDoes DEF AskSound, RowSound
  <2>5. contained' = contained
    BY <1>12 DEF Shifting
  <2> QED BY <1>1, <1>12, <2>1, <2>2, <2>3, <2>4, <2>5, BorrowSoundNext
<1>13. ASSUME NEW p \in People, NEW o \in Tenants, NEW k \in Permissions, RoleGranted(p, o, k) \/ RoleRevoked(p, o, k)
       PROVE  BorrowSound'
  <2>1. granted' \subseteq People \X Tenants \X Permissions /\ UNCHANGED <<enrolled, tenants, inactive, banned>> /\ Change
    BY <1>1, <1>13 DEF RoleGranted, RoleRevoked
  <2>2. Shifting({p}, {}) \/ Shifting({}, {p})
    BY <1>13 DEF RoleGranted, RoleRevoked
  <2> QED BY <1>1, <1>12, <2>1, <2>2
<1>14. ASSUME NEW p \in People, NEW o \in Tenants, MembershipActivated(p, o) PROVE BorrowSound'
  <2>1. enrolled' \in [People \X Tenants -> {"none", "active", "suspended"}] /\ UNCHANGED <<granted, tenants, inactive, banned>>
        /\ Change /\ Shifting({p}, {p})
    BY <1>1, <1>14 DEF MembershipActivated
  <2> QED BY <1>1, <1>12, <2>1
<1>15. ASSUME NEW p \in People, NEW o \in Tenants, MembershipSuspended(p, o) PROVE BorrowSound'
  <2>1. enrolled' \in [People \X Tenants -> {"none", "active", "suspended"}] /\ changes' \in 0..MaxChanges
    BY <1>1, <1>15 DEF MembershipSuspended, Change
  <2> QED BY <1>1, <1>15, <2>1, BorrowDirectorySteps DEF MembershipSuspended, Change
<1>16. ASSUME NEW o \in Tenants, TenantToggled(o) PROVE BorrowSound'
  <2>1. changes' \in 0..MaxChanges
    BY <1>1, <1>16 DEF TenantToggled, Change
  <2> QED BY <1>1, <1>16, <2>1, BorrowDirectorySteps DEF TenantToggled, Change
<1>17. ASSUME NEW p \in People, AccountToggled(p) \/ Unbanned(p) PROVE BorrowSound'
  <2>1. changes' \in 0..MaxChanges
    BY <1>1, <1>17 DEF AccountToggled, Unbanned, Change
  <2> QED BY <1>1, <1>17, <2>1, BorrowDirectorySteps DEF AccountToggled, Unbanned, Change
<1>18. ASSUME NEW p \in People, SignIn(p) PROVE BorrowSound'
  <2>1. /\ changes' \in 0..MaxChanges /\ sessions' = sessions \cup {Own(p)}
        /\ sweep' = IF sweep.who = p THEN [sweep EXCEPT !.whole = FALSE] ELSE sweep
        /\ contained' = [contained EXCEPT ![p] = "none"] /\ UNCHANGED <<access, borrow>>
    BY <1>1, <1>18 DEF SignIn
  <2>2. /\ sweep' \in SweepRecords /\ sweep'.who = sweep.who /\ sweep'.todo = sweep.todo /\ sweep'.kind = sweep.kind
        /\ (sweep.who = p \/ sweep' = sweep)
    BY <1>1, <2>1 DEF SweepRecords
  <2>3. sweep' # NoSweep => sweep # NoSweep
    BY <2>2, RestingRecords
  <2>4. (\A s \in sessions' : RowSound(s)) /\ contained' \in [People -> {"none", "ban", "revoke_all", "reset"}]
    BY <1>1, <2>1, RestingRecords
  <2> QED BY <1>1, <2>1, <2>2, <2>3, <2>4, BorrowSoundNext DEF access
<1>19. CASE UNCHANGED borrowVars
  BY <1>1, <1>19, BorrowSoundNext DEF borrowVars, access
<1>20. ASSUME NEW q \in Borrows, Impersonate(q) PROVE BorrowSound'
  BY <1>2, <1>3, <1>4, <1>5, <1>20 DEF Impersonate
<1>21. ASSUME Contain PROVE BorrowSound'
  BY <1>7, <1>9, <1>10, <1>21 DEF Contain
<1>22. ASSUME NEW p \in People, Elsewhere(p) PROVE BorrowSound'
  BY <1>11, <1>13, <1>14, <1>15, <1>17, <1>18, <1>22 DEF Elsewhere
<1> QED BY <1>6, <1>16, <1>19, <1>20, <1>21, <1>22 DEF BorrowNext

(* Every row and request has its type. *)
THEOREM BorrowTyped == BorrowSpec => []BorrowTypeOK
<1>1. BorrowSound => BorrowTypeOK
  BY DEF BorrowSound
<1>2. BorrowSound /\ [BorrowNext]_borrowVars => BorrowSound'
  BY BorrowSoundSteps
<1> QED BY <1>1, <1>2, BorrowStarts, PTL DEF BorrowSpec

(* In a directory with memberships e and grants g: v is no superuser in a    *)
(* tenant that it belongs to, and holds nothing in a tenant it shares with p *)
(* that p does not hold there.                                               *)
Plain(v, e, g) == \A o \in Tenants : e[<<v, o>>] = "active" => <<v, o, "superuser">> \notin g

Below(v, p, e, g) ==
  \A o \in Tenants, k \in Permissions :
    e[<<p, o>>] = "active" /\ e[<<v, o>>] = "active" /\ <<v, o, k>> \in g => <<p, o, k>> \in g

RowRanked(s, e, g) ==
  s.by # NoOne /\ s.judged /\ ~s.shifted => Plain(s.user, e, g) /\ Below(s.user, s.human, e, g)

(* How far a request has compared, unless its caller is a superuser. *)
AskRanked(b, e, g) ==
  b.at # "rest" /\ ~b.cross =>
    /\ "superuser" \notin b.powers
    /\ ~b.cookie.shifted /\ b.at # "union" =>
         /\ Plain(b.target, e, g)
         /\ b.at # "shared" => Below(b.target, b.cookie.human, e, g)

BorrowRanked ==
  /\ \A s \in sessions : RowRanked(s, enrolled, granted)
  /\ \A q \in Borrows : AskRanked(borrow[q], enrolled, granted)

(* A directory in which the ranks of those who neither gain nor lose are as  *)
(* they were.                                                                *)
Settled(gains, loses, e, g, f, h) ==
  /\ \A v \in People \ gains : Plain(v, e, g) => Plain(v, f, h)
  /\ \A v \in People \ gains, p \in People \ loses : Below(v, p, e, g) => Below(v, p, f, h)

(* The steps that shift ranks name everybody whose rank they shift. *)
LEMMA RanksSettle ==
  ASSUME BorrowTypeOK, NEW p \in People, NEW o \in Tenants, NEW k \in Permissions
  PROVE  /\ RoleGranted(p, o, k) => Settled({p}, {}, enrolled, granted, enrolled', granted')
         /\ RoleRevoked(p, o, k) => Settled({}, {p}, enrolled, granted, enrolled', granted')
         /\ MembershipActivated(p, o) => Settled({p}, {p}, enrolled, granted, enrolled', granted')
         /\ MembershipSuspended(p, o) => Settled({}, {}, enrolled, granted, enrolled', granted')
<1>1. ASSUME RoleGranted(p, o, k) PROVE Settled({p}, {}, enrolled, granted, enrolled', granted')
  <2>1. granted' = granted \cup {<<p, o, k>>} /\ enrolled' = enrolled
    BY <1>1 DEF RoleGranted
  <2>2. granted \subseteq granted' /\ \A v \in People \ {p}, t \in Tenants, j \in Permissions :
           <<v, t, j>> \in granted' => <<v, t, j>> \in granted
    BY <2>1
  <2> QED BY <2>1, <2>2 DEF Settled, Plain, Below, Permissions
<1>2. ASSUME RoleRevoked(p, o, k) PROVE Settled({}, {p}, enrolled, granted, enrolled', granted')
  <2>1. granted' = granted \ {<<p, o, k>>} /\ enrolled' = enrolled
    BY <1>2 DEF RoleRevoked
  <2>2. granted' \subseteq granted /\ \A v \in People \ {p}, t \in Tenants, j \in Permissions :
           <<v, t, j>> \in granted => <<v, t, j>> \in granted'
    BY <2>1
  <2> QED BY <2>1, <2>2 DEF Settled, Plain, Below, Permissions
<1>3. ASSUME MembershipActivated(p, o) PROVE Settled({p}, {p}, enrolled, granted, enrolled', granted')
  <2>1. enrolled' = [enrolled EXCEPT ![<<p, o>>] = "active"] /\ granted' = granted
    BY <1>3 DEF MembershipActivated
  <2>2. \A v \in People \ {p}, t \in Tenants : enrolled'[<<v, t>>] = enrolled[<<v, t>>]
    BY <2>1 DEF BorrowTypeOK
  <2> QED BY <2>1, <2>2 DEF Settled, Plain, Below
<1>4. ASSUME MembershipSuspended(p, o) PROVE Settled({}, {}, enrolled, granted, enrolled', granted')
  <2>1. enrolled' = [enrolled EXCEPT ![<<p, o>>] = "suspended"] /\ granted' = granted
    BY <1>4 DEF MembershipSuspended
  <2>2. \A v \in People, t \in Tenants : enrolled'[<<v, t>>] = "active" => enrolled[<<v, t>>] = "active"
    BY <2>1 DEF BorrowTypeOK
  <2> QED BY <2>1, <2>2 DEF Settled, Plain, Below
<1> QED BY <1>1, <1>2, <1>3, <1>4

(* Rows and requests that a shift touches are marked; the others rank as     *)
(* before.                                                                   *)
LEMMA ShiftKeepsRanks ==
  ASSUME BorrowSound, BorrowRanked, NEW gains, NEW loses, Shifting(gains, loses),
         Settled(gains, loses, enrolled, granted, enrolled', granted')
  PROVE  BorrowRanked'
<1>1. ASSUME NEW s \in sessions' PROVE RowRanked(s, enrolled', granted')
  <2>1. PICK t \in sessions :
          /\ s.user = t.user /\ s.by = t.by /\ s.human = t.human /\ s.judged = t.judged
          /\ s.by # NoOne => s.shifted = (t.shifted \/ t.user \in gains \/ t.human \in loses)
    BY <1>1, ShiftingDoes
  <2>2. RowRanked(t, enrolled, granted) /\ RowSound(t)
    BY DEF BorrowRanked, BorrowSound
  <2>3. t.user \in People /\ t.human \in People
    BY <2>2 DEF RowSound
  <2>4. SUFFICES ASSUME s.by # NoOne, s.judged, ~s.shifted
                 PROVE  Plain(s.user, enrolled', granted') /\ Below(s.user, s.human, enrolled', granted')
    BY DEF RowRanked
  <2>5. ~t.shifted /\ t.user \notin gains /\ t.human \notin loses /\ t.by # NoOne /\ t.judged
    BY <2>1, <2>4
  <2>6. Plain(t.user, enrolled, granted) /\ Below(t.user, t.human, enrolled, granted)
    BY <2>2, <2>5 DEF RowRanked
  <2> QED BY <2>1, <2>3, <2>5, <2>6 DEF Settled
<1>2. ASSUME NEW q \in Borrows PROVE AskRanked(borrow'[q], enrolled', granted')
  <2>1. /\ borrow'[q].at = borrow[q].at /\ borrow'[q].target = borrow[q].target
        /\ borrow'[q].powers = borrow[q].powers /\ borrow'[q].cross = borrow[q].cross
        /\ borrow'[q].cookie.human = borrow[q].cookie.human
        /\ borrow[q].at # "rest" =>
             borrow'[q].cookie.shifted = (borrow[q].cookie.shifted \/ borrow[q].target \in gains
                                            \/ borrow[q].cookie.human \in loses)
    BY ShiftingDoes
  <2>2. AskRanked(borrow[q], enrolled, granted) /\ AskSound(borrow[q])
    BY DEF BorrowRanked, BorrowSound
  <2>3. SUFFICES ASSUME borrow'[q].at # "rest", ~borrow'[q].cross
                 PROVE  /\ "superuser" \notin borrow'[q].powers
                        /\ ~borrow'[q].cookie.shifted /\ borrow'[q].at # "union" =>
                             /\ Plain(borrow'[q].target, enrolled', granted')
                             /\ borrow'[q].at # "shared" =>
                                  Below(borrow'[q].target, borrow'[q].cookie.human, enrolled', granted')
    BY DEF AskRanked
  <2>4. borrow[q].target \in People /\ borrow[q].cookie.human \in People
    BY <2>1, <2>2, <2>3 DEF AskSound, RowSound
  <2>5. "superuser" \notin borrow'[q].powers
    BY <2>1, <2>2, <2>3 DEF AskRanked
  <2>6. ASSUME ~borrow'[q].cookie.shifted, borrow'[q].at # "union"
        PROVE  Plain(borrow'[q].target, enrolled', granted')
    <3>1. ~borrow[q].cookie.shifted /\ borrow[q].target \notin gains
      BY <2>1, <2>3, <2>6
    <3>2. Plain(borrow[q].target, enrolled, granted)
      BY <2>1, <2>2, <2>3, <2>6, <3>1 DEF AskRanked
    <3> QED BY <2>1, <2>4, <3>1, <3>2 DEF Settled
  <2>7. ASSUME ~borrow'[q].cookie.shifted, borrow'[q].at # "union", borrow'[q].at # "shared"
        PROVE  Below(borrow'[q].target, borrow'[q].cookie.human, enrolled', granted')
    <3>1. ~borrow[q].cookie.shifted /\ borrow[q].target \notin gains /\ borrow[q].cookie.human \notin loses
      BY <2>1, <2>3, <2>7
    <3>2. Below(borrow[q].target, borrow[q].cookie.human, enrolled, granted)
      BY <2>1, <2>2, <2>3, <2>7, <3>1 DEF AskRanked
    <3> QED BY <2>1, <2>4, <3>1, <3>2 DEF Settled
  <2> QED BY <2>5, <2>6, <2>7
<1> QED BY <1>1, <1>2 DEF BorrowRanked

(* So do they when nobody's rank shifts. *)
LEMMA StillKeepsRanks ==
  ASSUME BorrowSound, BorrowRanked, UNCHANGED <<sessions, borrow>>,
         Settled({}, {}, enrolled, granted, enrolled', granted')
  PROVE  BorrowRanked'
<1>1. ASSUME NEW s \in sessions PROVE RowRanked(s, enrolled', granted')
  <2>1. RowRanked(s, enrolled, granted) /\ RowSound(s)
    BY DEF BorrowRanked, BorrowSound
  <2> QED BY <2>1 DEF RowRanked, RowSound, Settled
<1>2. ASSUME NEW q \in Borrows PROVE AskRanked(borrow[q], enrolled', granted')
  <2>1. AskRanked(borrow[q], enrolled, granted) /\ AskSound(borrow[q])
    BY DEF BorrowRanked, BorrowSound
  <2>2. borrow[q].at # "rest" => borrow[q].target \in People /\ borrow[q].cookie.human \in People
    BY <2>1 DEF AskSound, RowSound
  <2> QED BY <2>1, <2>2 DEF AskRanked, Settled
<1> QED BY <1>1, <1>2 DEF BorrowRanked

(* Comparing establishes a rank, and the row that is opened has it. *)
LEMMA RanksKept ==
  ASSUME BorrowSound, BorrowRanked, [BorrowNext]_borrowVars
  PROVE  BorrowRanked'
<1>1. /\ BorrowTypeOK /\ borrow \in [Borrows -> BorrowRecords]
      /\ \A s \in sessions : RowSound(s) /\ RowRanked(s, enrolled, granted)
      /\ \A q \in Borrows : AskSound(borrow[q]) /\ AskRanked(borrow[q], enrolled, granted)
  BY BorrowTypes DEF BorrowSound, BorrowRanked
<1>2. AskRanked(NoBorrow, enrolled, granted)
  BY RestingRecords DEF AskRanked
<1>3. ASSUME UNCHANGED <<enrolled, granted>>, \A s \in sessions' : RowRanked(s, enrolled, granted),
             \A q \in Borrows : AskRanked(borrow'[q], enrolled, granted)
      PROVE  BorrowRanked'
  BY <1>3 DEF BorrowRanked
<1>4. ASSUME UNCHANGED <<enrolled, granted, sessions, borrow>> PROVE BorrowRanked'
  BY <1>1, <1>3, <1>4
<1>5. ASSUME NEW q \in Borrows, NEW s \in sessions, NEW v \in People, ImpersonateGuard(q, s, v) PROVE BorrowRanked'
  <2>1. /\ \A r \in Borrows \ {q} : borrow'[r] = borrow[r]
        /\ borrow'[q].at \in {"standing", "union"} /\ (borrow'[q].at = "standing" => borrow'[q].cross)
        /\ borrow'[q].cross = ("superuser" \in borrow'[q].powers)
        /\ UNCHANGED <<access, sessions, sweep, changes, contained>>
    BY <1>5, GuardDoes
  <2>2. AskRanked(borrow'[q], enrolled, granted)
    BY <2>1 DEF AskRanked
  <2> QED BY <1>1, <1>3, <2>1, <2>2 DEF access
<1>6. ASSUME NEW q \in Borrows, CompareUnion(q) PROVE BorrowRanked'
  <2>1. BorrowStep(q, "union", "shared") /\ HeldInAnyOrg(borrow[q].target) \subseteq borrow[q].powers
    BY <1>6 DEF CompareUnion
  <2>2. /\ \A r \in Borrows \ {q} : borrow'[r] = borrow[r]
        /\ borrow'[q].at = "shared" /\ borrow[q].at = "union"
        /\ borrow'[q].cookie = borrow[q].cookie /\ borrow'[q].target = borrow[q].target
        /\ borrow'[q].powers = borrow[q].powers /\ borrow'[q].cross = borrow[q].cross
        /\ UNCHANGED <<access, sessions, sweep, changes, contained>>
    BY <2>1, BorrowStepDoes
  <2>3. "superuser" \notin borrow[q].powers => Plain(borrow[q].target, enrolled, granted)
    <3> DEFINE v == borrow[q].target
    <3>1. \A o \in Tenants : Member(v, o) /\ <<v, o, "superuser">> \in granted => "superuser" \in HeldInAnyOrg(v)
      BY DEF HeldInAnyOrg, HeldIn, Permissions
    <3> QED BY <2>1, <3>1 DEF Plain, Member
  <2>4. AskRanked(borrow'[q], enrolled, granted)
    BY <1>1, <2>2, <2>3 DEF AskRanked
  <2> QED BY <1>1, <1>3, <2>2, <2>4 DEF access
<1>7. ASSUME NEW q \in Borrows, CompareShared(q) PROVE BorrowRanked'
  <2>1. /\ BorrowStep(q, "shared", "standing")
        /\ \A o \in SharedTenants(borrow[q].cookie.user, borrow[q].target) :
             HeldIn(borrow[q].target, o) \subseteq HeldIn(borrow[q].cookie.user, o)
    BY <1>7 DEF CompareShared
  <2>2. /\ \A r \in Borrows \ {q} : borrow'[r] = borrow[r]
        /\ borrow'[q].at = "standing" /\ borrow[q].at = "shared"
        /\ borrow'[q].cookie = borrow[q].cookie /\ borrow'[q].target = borrow[q].target
        /\ borrow'[q].powers = borrow[q].powers /\ borrow'[q].cross = borrow[q].cross
        /\ UNCHANGED <<access, sessions, sweep, changes, contained>>
    BY <2>1, BorrowStepDoes
  <2>3. borrow[q].cookie.human = borrow[q].cookie.user
    BY <1>1, <2>2 DEF AskSound, RowSound
  <2>4. Below(borrow[q].target, borrow[q].cookie.user, enrolled, granted)
    BY <2>1 DEF Below, SharedTenants, Member, HeldIn
  <2>5. AskRanked(borrow'[q], enrolled, granted)
    BY <1>1, <2>2, <2>3, <2>4 DEF AskRanked
  <2> QED BY <1>1, <1>3, <2>2, <2>5 DEF access
<1>8. ASSUME NEW q \in Borrows, CheckStanding(q) \/ VendorReads(q) PROVE BorrowRanked'
  <2>1. BorrowStep(q, "standing", "ready") \/ BorrowStep(q, "ready", "opening")
    BY <1>8 DEF CheckStanding, VendorReads
  <2>2. /\ \A r \in Borrows \ {q} : borrow'[r] = borrow[r]
        /\ borrow'[q].at \in {"ready", "opening"} /\ borrow[q].at \in {"standing", "ready"}
        /\ borrow'[q].cookie = borrow[q].cookie /\ borrow'[q].target = borrow[q].target
        /\ borrow'[q].powers = borrow[q].powers /\ borrow'[q].cross = borrow[q].cross
        /\ UNCHANGED <<access, sessions, sweep, changes, contained>>
    BY <2>1, BorrowStepDoes
  <2>3. AskRanked(borrow'[q], enrolled, granted)
    BY <1>1, <2>2 DEF AskRanked
  <2> QED BY <1>1, <1>3, <2>2, <2>3 DEF access
<1>9. ASSUME NEW q \in Borrows, VendorOpens(q) PROVE BorrowRanked'
  <2>1. PICK s \in SessionRows :
           /\ s.user = borrow[q].target /\ s.by = borrow[q].cookie.user /\ s.human = borrow[q].cookie.human
           /\ s.judged = ~borrow[q].cross /\ s.shifted = borrow[q].cookie.shifted
           /\ sessions' = sessions \cup {s} /\ borrow[q].at = "opening"
           /\ borrow' = [borrow EXCEPT ![q] = NoBorrow]
           /\ UNCHANGED <<access, sweep, changes, contained>>
    BY <1>9, OpensDoes
  <2>2. RowRanked(s, enrolled, granted)
    <3>1. AskRanked(borrow[q], enrolled, granted)
      BY <1>1
    <3> QED BY <2>1, <3>1 DEF RowRanked, AskRanked
  <2>3. \A r \in Borrows : borrow'[r] = IF r = q THEN NoBorrow ELSE borrow[r]
    BY <1>1, <2>1
  <2> QED BY <1>1, <1>2, <1>3, <2>1, <2>2, <2>3 DEF access
<1>10. ASSUME NEW q \in Borrows, BorrowEnds(q) PROVE BorrowRanked'
  <2>1. borrow' = [borrow EXCEPT ![q] = NoBorrow] /\ UNCHANGED <<access, sessions, sweep, changes, contained>>
    BY <1>10 DEF BorrowEnds
  <2>2. \A r \in Borrows : borrow'[r] = IF r = q THEN NoBorrow ELSE borrow[r]
    BY <1>1, <2>1
  <2> QED BY <1>1, <1>2, <1>3, <2>1, <2>2 DEF access
<1>11. ASSUME NEW s \in sessions, StopImpersonating(s) PROVE BorrowRanked'
  <2>1. /\ sessions' \subseteq sessions /\ UNCHANGED <<access, sweep, changes, contained>>
        /\ \A q \in Borrows : borrow'[q] = NoBorrow \/ borrow'[q] = borrow[q]
    BY <1>11 DEF StopImpersonating
  <2> QED BY <1>1, <1>2, <1>3, <2>1 DEF access
<1>12. ASSUME NEW rows, Deleting(rows), UNCHANGED <<enrolled, granted>> PROVE BorrowRanked'
  <2>1. /\ sessions' \subseteq sessions
        /\ \A q \in Borrows : borrow'[q] = borrow[q] \/ borrow'[q] = Delayed(borrow[q]) \/ borrow'[q] = NoBorrow
    BY <1>12, DeletingDoes
  <2>2. ASSUME NEW q \in Borrows PROVE AskRanked(Delayed(borrow[q]), enrolled, granted)
    <3>1. AskRanked(borrow[q], enrolled, granted) /\ borrow[q] \in BorrowRecords
      BY <1>1
    <3> QED BY <3>1, DelayedRequest DEF AskRanked
  <2>3. \A q \in Borrows : AskRanked(borrow'[q], enrolled, granted)
    BY <1>1, <1>2, <2>1, <2>2
  <2> QED BY <1>1, <1>3, <1>12, <2>1, <2>3
<1>13. ASSUME Contain PROVE BorrowRanked'
  <2>1. ASSUME NEW p \in People, NEW kind \in {"ban", "revoke_all", "reset"}, SweepStarts(p, kind) PROVE BorrowRanked'
    BY <1>4, <2>1 DEF SweepStarts, access
  <2>2. CASE SweepStatement
    <3>1. UNCHANGED <<enrolled, granted>>
      BY <2>2 DEF SweepStatement
    <3>2. UNCHANGED <<sessions, borrow>> \/ Deleting(RowsOf(sweep.who, Head(sweep.todo)))
      BY <2>2 DEF SweepStatement
    <3> QED BY <1>4, <1>12, <3>1, <3>2
  <2>3. CASE SweepFails
    BY <1>4, <2>3 DEF SweepFails, access
  <2> QED BY <1>13, <2>1, <2>2, <2>3 DEF Contain
<1>14. ASSUME NEW p \in People, OwnSweep(p) PROVE BorrowRanked'
  <2>1. Deleting(RowsOf(p, "borrowed")) /\ UNCHANGED <<enrolled, granted>>
    BY <1>14 DEF OwnSweep, access
  <2> QED BY <1>12, <2>1
<1>15. ASSUME NEW p \in People, NEW o \in Tenants, NEW k \in Permissions, RoleGranted(p, o, k) \/ RoleRevoked(p, o, k)
       PROVE  BorrowRanked'
  <2>1. CASE RoleGranted(p, o, k)
    <3>1. Shifting({p}, {})
      BY <2>1 DEF RoleGranted
    <3> QED BY <1>1, <2>1, <3>1, RanksSettle, ShiftKeepsRanks
  <2>2. CASE RoleRevoked(p, o, k)
    <3>1. Shifting({}, {p})
      BY <2>2 DEF RoleRevoked
    <3> QED BY <1>1, <2>2, <3>1, RanksSettle, ShiftKeepsRanks
  <2> QED BY <1>15, <2>1, <2>2
<1>16. ASSUME NEW p \in People, NEW o \in Tenants, MembershipActivated(p, o) \/ MembershipSuspended(p, o)
       PROVE  BorrowRanked'
  <2>1. CASE MembershipActivated(p, o)
    <3>1. Shifting({p}, {p})
      BY <2>1 DEF MembershipActivated
    <3>2. "impersonate" \in Permissions
      BY DEF Permissions
    <3> QED BY <1>1, <2>1, <3>1, <3>2, RanksSettle, ShiftKeepsRanks
  <2>2. CASE MembershipSuspended(p, o)
    <3>1. UNCHANGED <<sessions, borrow>>
      BY <2>2 DEF MembershipSuspended
    <3>2. "impersonate" \in Permissions
      BY DEF Permissions
    <3> QED BY <1>1, <2>2, <3>1, <3>2, RanksSettle, StillKeepsRanks
  <2> QED BY <1>16, <2>1, <2>2
<1>17. ASSUME NEW p \in People, AccountToggled(p) \/ Unbanned(p) PROVE BorrowRanked'
  BY <1>4, <1>17 DEF AccountToggled, Unbanned
<1>18. ASSUME NEW p \in People, SignIn(p) PROVE BorrowRanked'
  <2>1. sessions' = sessions \cup {Own(p)} /\ UNCHANGED <<enrolled, granted, borrow>>
    BY <1>18 DEF SignIn, access
  <2>2. RowRanked(Own(p), enrolled, granted)
    BY RestingRecords DEF RowRanked
  <2> QED BY <1>1, <1>3, <2>1, <2>2
<1>19. ASSUME NEW o \in Tenants, TenantToggled(o) PROVE BorrowRanked'
  BY <1>4, <1>19 DEF TenantToggled
<1>20. CASE UNCHANGED borrowVars
  BY <1>4, <1>20 DEF borrowVars, access
<1>21. ASSUME NEW q \in Borrows, Impersonate(q) PROVE BorrowRanked'
  BY <1>5, <1>6, <1>7, <1>8, <1>9, <1>10, <1>21 DEF Impersonate
<1>22. ASSUME NEW p \in People, Elsewhere(p) PROVE BorrowRanked'
  BY <1>14, <1>15, <1>16, <1>17, <1>18, <1>22 DEF Elsewhere
<1> QED BY <1>11, <1>13, <1>19, <1>20, <1>21, <1>22 DEF BorrowNext

(* An account that is signed out: it has no session of its own, and what it  *)
(* asks for with one that it had is late.                                    *)
OwnOut(p, rows, asks) ==
  /\ \A s \in rows : s.by = NoOne => s.user # p
  /\ \A q \in Borrows : asks[q].at # "rest" /\ asks[q].cookie.user = p => asks[q].cookie.late

DrivesNone(p, rows) == \A s \in rows : s.human = p => s.late

(* What an administrator's sweep has still to do. *)
SweepInOrder ==
  sweep.kind \in {"ban", "revoke_all"} =>
    /\ sweep.todo \in {<<"borrowed">>, <<"own", "borrowed">>, <<"ban", "own", "borrowed">>}
    /\ sweep.todo = <<"borrowed">> /\ sweep.whole => OwnOut(sweep.who, sessions, borrow)

BorrowContained ==
  /\ \A p \in People : contained[p] \in {"ban", "revoke_all"} =>
       OwnOut(p, sessions, borrow) /\ DrivesNone(p, sessions)
  /\ SweepInOrder

(* An account that is out stays out, whatever others do, until it signs in. *)
OutStays(p) ==
  /\ OwnOut(p, sessions, borrow) => OwnOut(p, sessions', borrow')
  /\ OwnOut(p, sessions, borrow) /\ DrivesNone(p, sessions) => DrivesNone(p, sessions')

LEMMA DeletingKeepsOut ==
  ASSUME BorrowSound, NEW rows, Deleting(rows), NEW p \in People
  PROVE  OutStays(p)
<1>1. borrow \in [Borrows -> BorrowRecords]
  BY BorrowTypes DEF BorrowSound
<1>2. /\ sessions' \subseteq sessions
      /\ \A q \in Borrows : borrow'[q] = borrow[q] \/ borrow'[q] = Delayed(borrow[q]) \/ borrow'[q] = NoBorrow
  BY DeletingDoes
<1>3. \A q \in Borrows : Delayed(borrow[q]).cookie.late = TRUE
  BY <1>1, DelayedRequest
<1> QED BY <1>2, <1>3, RestingRecords DEF OutStays, OwnOut, DrivesNone

LEMMA ShiftingKeepsOut ==
  ASSUME BorrowSound, NEW gains, NEW loses, Shifting(gains, loses), NEW p \in People
  PROVE  OutStays(p)
<1>1. \A s \in sessions' : \E t \in sessions :
        s.user = t.user /\ s.by = t.by /\ s.human = t.human /\ s.late = t.late
  BY ShiftingDoes
<1>2. \A q \in Borrows :
        /\ borrow'[q].at = borrow[q].at /\ borrow'[q].cookie.user = borrow[q].cookie.user
        /\ borrow'[q].cookie.late = borrow[q].cookie.late
  BY ShiftingDoes
<1> QED BY <1>1, <1>2 DEF OutStays, OwnOut, DrivesNone

(* What a request does keeps out whoever is out. *)
LEMMA RequestsKeepOut ==
  ASSUME BorrowSound, NEW p \in People, NEW q \in Borrows, Impersonate(q)
  PROVE  OutStays(p) /\ UNCHANGED <<sweep, contained>>
<1>1. borrow \in [Borrows -> BorrowRecords]
  BY BorrowTypes DEF BorrowSound
<1>2. ASSUME NEW s \in sessions, NEW v \in People, ImpersonateGuard(q, s, v)
      PROVE  OutStays(p) /\ UNCHANGED <<sweep, contained>>
  <2>1. /\ \A r \in Borrows \ {q} : borrow'[r] = borrow[r]
        /\ s.by = NoOne /\ borrow'[q].cookie = s
        /\ UNCHANGED <<access, sessions, sweep, changes, contained>>
    BY <1>2, GuardDoes
  <2> QED BY <2>1 DEF OutStays, OwnOut, DrivesNone
<1>3. ASSUME CompareUnion(q) \/ CompareShared(q) \/ CheckStanding(q) \/ VendorReads(q)
      PROVE  OutStays(p) /\ UNCHANGED <<sweep, contained>>
  <2>1. PICK from \in {"union", "shared", "standing", "ready"}, to \in {"shared", "standing", "ready", "opening"} :
          BorrowStep(q, from, to)
    BY <1>3 DEF CompareUnion, CompareShared, CheckStanding, VendorReads
  <2>2. /\ \A r \in Borrows \ {q} : borrow'[r] = borrow[r]
        /\ borrow[q].at = from /\ borrow'[q].cookie = borrow[q].cookie
        /\ UNCHANGED <<access, sessions, sweep, changes, contained>>
    BY <2>1, BorrowStepDoes
  <2> QED BY <2>2 DEF OutStays, OwnOut, DrivesNone
<1>4. ASSUME VendorOpens(q) PROVE OutStays(p) /\ UNCHANGED <<sweep, contained>>
  <2>1. PICK s \in SessionRows :
           /\ s.human = borrow[q].cookie.human /\ s.late = borrow[q].cookie.late /\ s.by # NoOne
           /\ sessions' = sessions \cup {s} /\ borrow[q].at = "opening" /\ borrow' = [borrow EXCEPT ![q] = NoBorrow]
           /\ UNCHANGED <<access, sweep, changes, contained>>
    BY <1>4, OpensDoes
  <2>2. borrow[q].cookie.human = borrow[q].cookie.user
    BY <2>1 DEF BorrowSound, AskSound, RowSound
  <2>3. \A r \in Borrows : borrow'[r] = IF r = q THEN NoBorrow ELSE borrow[r]
    BY <1>1, <2>1
  <2> QED BY <2>1, <2>2, <2>3, RestingRecords DEF OutStays, OwnOut, DrivesNone
<1>5. ASSUME BorrowEnds(q) PROVE OutStays(p) /\ UNCHANGED <<sweep, contained>>
  <2>1. borrow' = [borrow EXCEPT ![q] = NoBorrow] /\ UNCHANGED <<access, sessions, sweep, changes, contained>>
    BY <1>5 DEF BorrowEnds
  <2>2. \A r \in Borrows : borrow'[r] = IF r = q THEN NoBorrow ELSE borrow[r]
    BY <1>1, <2>1
  <2> QED BY <2>1, <2>2, RestingRecords DEF OutStays, OwnOut, DrivesNone
<1> QED BY <1>2, <1>3, <1>4, <1>5 DEF Impersonate

(* A sweep ends the sessions of its account, and then what those have        *)
(* borrowed.                                                                 *)
LEMMA SweepPuts ==
  ASSUME BorrowSound, NEW p \in People
  PROVE  /\ Deleting(RowsOf(p, "own")) => OwnOut(p, sessions', borrow')
         /\ OwnOut(p, sessions, borrow) /\ Deleting(RowsOf(p, "borrowed")) => DrivesNone(p, sessions')
<1>1. /\ borrow \in [Borrows -> BorrowRecords] /\ \A s \in sessions : RowSound(s)
      /\ \A q \in Borrows : AskSound(borrow[q])
  BY BorrowTypes DEF BorrowSound
<1>2. ASSUME Deleting(RowsOf(p, "own")) PROVE OwnOut(p, sessions', borrow')
  <2> DEFINE rows == RowsOf(p, "own")
  <2>1. /\ sessions' \subseteq sessions /\ \A s \in sessions' : Row(s) \notin rows
        /\ \A q \in Borrows :
              \/ borrow'[q] = borrow[q] /\ Row(borrow[q].cookie) \notin rows
              \/ borrow'[q] = Delayed(borrow[q])
              \/ borrow'[q] = NoBorrow
    BY <1>2, DeletingDoes
  <2>2. <<p, NoOne>> \in rows
    BY DEF RowsOf, Someone
  <2> HIDE DEF rows
  <2>3. \A s \in sessions' : s.by = NoOne => s.user # p
    BY <2>1, <2>2 DEF Row
  <2>4. ASSUME NEW q \in Borrows, borrow'[q].at # "rest", borrow'[q].cookie.user = p
        PROVE  borrow'[q].cookie.late
    <3>1. CASE borrow'[q] = borrow[q] /\ Row(borrow[q].cookie) \notin rows
      <4>1. borrow[q].cookie.by = NoOne
        BY <1>1, <2>4, <3>1 DEF AskSound
      <4> QED BY <2>2, <2>4, <3>1, <4>1 DEF Row
    <3>2. CASE borrow'[q] = Delayed(borrow[q])
      BY <1>1, <3>2, DelayedRequest
    <3> QED BY <2>1, <2>4, <3>1, <3>2, RestingRecords
  <2> QED BY <2>3, <2>4 DEF OwnOut
<1>3. ASSUME OwnOut(p, sessions, borrow), Deleting(RowsOf(p, "borrowed")) PROVE DrivesNone(p, sessions')
  <2>1. sessions' \subseteq sessions /\ \A s \in sessions' : Row(s) \notin RowsOf(p, "borrowed")
    BY <1>3, DeletingDoes
  <2>2. ASSUME NEW s \in sessions', s.human = p PROVE FALSE
    <3>1. RowSound(s) /\ s \in sessions
      BY <1>1, <2>1
    <3>2. s.by # NoOne
      BY <1>3, <2>2, <3>1 DEF RowSound, OwnOut
    <3>3. s.by = p /\ s.user \in People
      BY <2>2, <3>1, <3>2 DEF RowSound
    <3>4. Row(s) \in RowsOf(p, "borrowed")
      BY <3>3 DEF Row, RowsOf
    <3> QED BY <2>1, <3>4
  <2> QED BY <2>2 DEF DrivesNone
<1> QED BY <1>2, <1>3

(* A step that leaves the sweep alone and keeps everybody out. *)
LEMMA ContainedStays ==
  ASSUME BorrowSound, BorrowContained, UNCHANGED <<sweep, contained>>, \A p \in People : OutStays(p)
  PROVE  BorrowContained'
<1>1. sweep.kind \in {"ban", "revoke_all"} => sweep.who \in People
  BY RestingRecords DEF BorrowSound, NoSweep
<1> QED BY <1>1 DEF BorrowContained, SweepInOrder, OutStays

(* A statement of an administrator's sweep brings it nearer to its end, and  *)
(* after its last the account is out.                                        *)
LEMMA StatementContains ==
  ASSUME BorrowSound, BorrowContained, SweepStatement
  PROVE  BorrowContained'
<1> DEFINE rows == RowsOf(sweep.who, Head(sweep.todo))
<1>1. /\ sweep # NoSweep /\ sweep \in SweepRecords /\ sweep.who \in People /\ sweep.todo # <<>> /\ sweep.whole \in BOOLEAN
      /\ contained \in [People -> {"none", "ban", "revoke_all", "reset"}]
  BY BorrowTypes DEF SweepStatement, BorrowSound, BorrowTypeOK, SweepRecords
<1>2. /\ \/ /\ Tail(sweep.todo) # <<>> /\ contained' = contained
            /\ sweep'.who = sweep.who /\ sweep'.kind = sweep.kind
            /\ sweep'.todo = Tail(sweep.todo) /\ sweep'.whole = sweep.whole
         \/ /\ Tail(sweep.todo) = <<>> /\ sweep' = NoSweep
            /\ contained' = IF sweep.whole THEN [contained EXCEPT ![sweep.who] = sweep.kind] ELSE contained
  <2>1. SweptAfter(sweep.whole)
    BY DEF SweepStatement
  <2> QED BY <1>1, <2>1, SweptDoes
<1>3. \/ Head(sweep.todo) = "ban" /\ UNCHANGED <<sessions, borrow>>
      \/ Head(sweep.todo) # "ban" /\ Deleting(rows)
  BY DEF SweepStatement
<1>4. \A p \in People : OutStays(p)
  <2>1. CASE UNCHANGED <<sessions, borrow>>
    BY <2>1 DEF OutStays
  <2>2. CASE Deleting(rows)
    BY <2>2, DeletingKeepsOut
  <2> QED BY <1>3, <2>1, <2>2
<1>5. ASSUME NEW p \in People, contained'[p] \in {"ban", "revoke_all"}
      PROVE  OwnOut(p, sessions', borrow') /\ DrivesNone(p, sessions')
  <2>1. CASE contained[p] \in {"ban", "revoke_all"}
    BY <1>4, <2>1 DEF BorrowContained, OutStays
  <2>2. CASE contained[p] \notin {"ban", "revoke_all"}
    <3>1. /\ Tail(sweep.todo) = <<>> /\ sweep.whole /\ p = sweep.who /\ sweep.kind \in {"ban", "revoke_all"}
      BY <1>1, <1>2, <1>5, <2>2
    <3>2. sweep.todo = <<"borrowed">>
      <4>1. Tail(<<"own", "borrowed">>) # <<>> /\ Tail(<<"ban", "own", "borrowed">>) # <<>>
        OBVIOUS
      <4> QED BY <3>1, <4>1 DEF BorrowContained, SweepInOrder
    <3>3. OwnOut(p, sessions, borrow)
      BY <3>1, <3>2 DEF BorrowContained, SweepInOrder
    <3>4. Deleting(RowsOf(p, "borrowed"))
      <4>1. Head(<<"borrowed">>) = "borrowed"
        OBVIOUS
      <4> QED BY <1>3, <3>1, <3>2, <4>1
    <3> QED BY <1>4, <3>3, <3>4, SweepPuts DEF OutStays
  <2> QED BY <2>1, <2>2
<1>6. SweepInOrder'
  <2>1. CASE sweep' = NoSweep
    BY <2>1 DEF SweepInOrder, NoSweep
  <2>2. CASE sweep' # NoSweep
    <3>1. /\ sweep'.who = sweep.who /\ sweep'.kind = sweep.kind
          /\ sweep'.todo = Tail(sweep.todo) /\ sweep'.whole = sweep.whole /\ Tail(sweep.todo) # <<>>
      BY <1>2, <2>2
    <3>2. /\ Tail(<<"borrowed">>) = <<>> /\ Tail(<<"own", "borrowed">>) = <<"borrowed">>
          /\ Tail(<<"ban", "own", "borrowed">>) = <<"own", "borrowed">> /\ <<"own", "borrowed">> # <<"borrowed">>
          /\ Head(<<"own", "borrowed">>) = "own"
      OBVIOUS
    <3>3. ASSUME sweep.kind \in {"ban", "revoke_all"}
          PROVE  /\ sweep'.todo \in {<<"borrowed">>, <<"own", "borrowed">>}
                 /\ sweep'.todo = <<"borrowed">> => OwnOut(sweep'.who, sessions', borrow')
      <4>1. CASE sweep.todo = <<"own", "borrowed">>
        <5>1. Deleting(RowsOf(sweep.who, "own"))
          BY <1>3, <3>2, <4>1
        <5> QED BY <1>1, <3>1, <3>2, <4>1, <5>1, SweepPuts
      <4>2. CASE sweep.todo = <<"ban", "own", "borrowed">>
        BY <3>1, <3>2, <4>2
      <4> QED BY <3>1, <3>2, <3>3, <4>1, <4>2 DEF BorrowContained, SweepInOrder
    <3> QED BY <3>1, <3>3 DEF SweepInOrder
  <2> QED BY <2>1, <2>2
<1> QED BY <1>5, <1>6 DEF BorrowContained

(* Who has been contained stays out until they sign in. *)
LEMMA ContainmentKept ==
  ASSUME BorrowSound, BorrowContained, [BorrowNext]_borrowVars
  PROVE  BorrowContained'
<1>1. /\ borrow \in [Borrows -> BorrowRecords] /\ sweep \in SweepRecords
      /\ contained \in [People -> {"none", "ban", "revoke_all", "reset"}]
      /\ \A s \in sessions : RowSound(s)
      /\ sweep # NoSweep => sweep.who \in People /\ sweep.todo # <<>>
  BY BorrowTypes DEF BorrowSound, BorrowTypeOK
<1>2. ASSUME UNCHANGED <<sessions, borrow, sweep, contained>> PROVE BorrowContained'
  <2>1. \A p \in People : OutStays(p)
    BY <1>2 DEF OutStays
  <2> QED BY <1>2, <2>1, ContainedStays
<1>3. ASSUME NEW q \in Borrows, Impersonate(q) PROVE BorrowContained'
  <2>1. (\A p \in People : OutStays(p) /\ UNCHANGED <<sweep, contained>>) /\ UNCHANGED <<sweep, contained>>
    <3>1. \A p \in People : OutStays(p)
      BY <1>3, RequestsKeepOut
    <3>2. UNCHANGED <<sweep, contained>>
      BY <1>3 DEF Impersonate, ImpersonateGuard, CompareUnion, CompareShared, CheckStanding, VendorReads,
                  VendorOpens, BorrowEnds, BorrowStep
    <3> QED BY <3>1, <3>2
  <2> QED BY <2>1, ContainedStays
<1>4. ASSUME NEW s \in sessions, StopImpersonating(s) PROVE BorrowContained'
  <2>1. /\ sessions' \subseteq sessions /\ UNCHANGED <<access, sweep, changes, contained>>
        /\ \A q \in Borrows : borrow'[q] = NoBorrow \/ borrow'[q] = borrow[q]
    BY <1>4 DEF StopImpersonating
  <2>2. \A p \in People : OutStays(p)
    BY <2>1, RestingRecords DEF OutStays, OwnOut, DrivesNone
  <2> QED BY <2>1, <2>2, ContainedStays
<1>5. ASSUME NEW p \in People, NEW kind \in {"ban", "revoke_all", "reset"}, SweepStarts(p, kind)
      PROVE  BorrowContained'
  <2>1. /\ sweep'.kind = kind /\ sweep'.todo = Statements(kind)
        /\ UNCHANGED <<sessions, borrow, contained>>
    BY <1>5 DEF SweepStarts
  <2>2. SweepInOrder'
    <3>1. <<"own", "borrowed">> # <<"borrowed">> /\ <<"ban", "own", "borrowed">> # <<"borrowed">>
      OBVIOUS
    <3> QED BY <2>1, <3>1 DEF SweepInOrder, Statements
  <2> QED BY <2>1, <2>2 DEF BorrowContained
<1>6. ASSUME SweepFails PROVE BorrowContained'
  <2>1. sweep # NoSweep /\ UNCHANGED <<sessions, borrow>>
    BY <1>6 DEF SweepFails, access
  <2>2. /\ sweep'.kind \in {"none", "reset"}
        /\ \A p \in People : contained'[p] = contained[p] \/ contained'[p] = "reset"
    <3>1. CASE sweep.kind = "reset"
      <4>1. SweptAfter(FALSE)
        BY <1>6, <3>1 DEF SweepFails
      <4>2. ASSUME NEW w \in BOOLEAN, SweptAfter(w)
            PROVE  /\ sweep'.kind \in {"none", "reset"}
                   /\ \A p \in People : contained'[p] = contained[p] \/ contained'[p] = "reset"
        <5>1. \/ contained' = contained /\ sweep'.kind = sweep.kind
              \/ sweep' = NoSweep /\ contained' = IF w THEN [contained EXCEPT ![sweep.who] = sweep.kind] ELSE contained
          BY <2>1, <4>2, SweptDoes
        <5> QED BY <1>1, <3>1, <5>1 DEF NoSweep
      <4> QED BY <4>1, <4>2, Zenon
    <3>2. CASE sweep.kind # "reset"
      BY <1>6, <3>2 DEF SweepFails, NoSweep
    <3> QED BY <3>1, <3>2
  <2>3. SweepInOrder'
    BY <2>2 DEF SweepInOrder
  <2>4. \A p \in People : contained'[p] \in {"ban", "revoke_all"} =>
          OwnOut(p, sessions', borrow') /\ DrivesNone(p, sessions')
    BY <2>1, <2>2 DEF BorrowContained
  <2> QED BY <2>3, <2>4 DEF BorrowContained
<1>7. ASSUME NEW p \in People, OwnSweep(p) PROVE BorrowContained'
  <2>1. Deleting(RowsOf(p, "borrowed")) /\ UNCHANGED <<sweep, contained>>
    BY <1>7 DEF OwnSweep
  <2>2. \A r \in People : OutStays(r)
    BY <2>1, DeletingKeepsOut
  <2> QED BY <2>1, <2>2, ContainedStays
<1>8. ASSUME NEW p \in People, NEW o \in Tenants, NEW k \in Permissions,
             RoleGranted(p, o, k) \/ RoleRevoked(p, o, k) \/ MembershipActivated(p, o)
      PROVE  BorrowContained'
  <2>1. PICK gains \in {{}, {p}}, loses \in {{}, {p}} : Shifting(gains, loses)
    BY <1>8 DEF RoleGranted, RoleRevoked, MembershipActivated
  <2>2. UNCHANGED <<sweep, contained>>
    BY <1>8, <2>1 DEF RoleGranted, RoleRevoked, MembershipActivated, Change, Shifting
  <2>3. \A r \in People : OutStays(r)
    BY <2>1, ShiftingKeepsOut
  <2> QED BY <2>2, <2>3, ContainedStays
<1>9. ASSUME NEW p \in People, NEW o \in Tenants, MembershipSuspended(p, o) PROVE BorrowContained'
  BY <1>2, <1>9 DEF MembershipSuspended, Change
<1>10. ASSUME NEW p \in People, AccountToggled(p) \/ Unbanned(p) PROVE BorrowContained'
  BY <1>2, <1>10 DEF AccountToggled, Unbanned, Change
<1>11. ASSUME NEW o \in Tenants, TenantToggled(o) PROVE BorrowContained'
  BY <1>2, <1>11 DEF TenantToggled, Change
<1>12. ASSUME NEW p \in People, SignIn(p) PROVE BorrowContained'
  <2>1. /\ sessions' = sessions \cup {Own(p)} /\ borrow' = borrow
        /\ sweep' = IF sweep.who = p THEN [sweep EXCEPT !.whole = FALSE] ELSE sweep
        /\ contained' = [contained EXCEPT ![p] = "none"]
    BY <1>12 DEF SignIn
  <2>2. \A r \in People \ {p} : OutStays(r)
    BY <2>1, RestingRecords DEF OutStays, OwnOut, DrivesNone
  <2>3. ASSUME NEW r \in People, contained'[r] \in {"ban", "revoke_all"}
        PROVE  OwnOut(r, sessions', borrow') /\ DrivesNone(r, sessions')
    <3>1. r # p /\ contained'[r] = contained[r]
      BY <1>1, <2>1, <2>3
    <3> QED BY <2>2, <2>3, <3>1 DEF BorrowContained, OutStays
  <2>4. SweepInOrder'
    <3>1. CASE sweep.who = p
      <4>1. sweep'.kind = sweep.kind /\ sweep'.todo = sweep.todo /\ sweep'.whole = FALSE
        BY <1>1, <2>1, <3>1 DEF SweepRecords
      <4> QED BY <4>1 DEF BorrowContained, SweepInOrder
    <3>2. CASE sweep.who # p
      <4>1. sweep' = sweep
        BY <2>1, <3>2
      <4>2. sweep.kind \in {"ban", "revoke_all"} => sweep.who \in People \ {p}
        BY <1>1, <3>2 DEF NoSweep
      <4> QED BY <2>2, <4>1, <4>2 DEF BorrowContained, SweepInOrder, OutStays
    <3> QED BY <3>1, <3>2
  <2> QED BY <2>3, <2>4 DEF BorrowContained
<1>13. CASE UNCHANGED borrowVars
  BY <1>2, <1>13 DEF borrowVars
<1>14. ASSUME Contain PROVE BorrowContained'
  BY <1>5, <1>6, <1>14, StatementContains DEF Contain
<1>15. ASSUME NEW p \in People, Elsewhere(p) PROVE BorrowContained'
  <2>1. "impersonate" \in Permissions
    BY DEF Permissions
  <2> QED BY <1>7, <1>8, <1>9, <1>10, <1>12, <1>15, <2>1 DEF Elsewhere
<1> QED BY <1>3, <1>4, <1>11, <1>13, <1>14, <1>15 DEF BorrowNext

BorrowInvariant == BorrowSound /\ BorrowRanked /\ BorrowContained

LEMMA BorrowInvariantStarts == BorrowInit => BorrowInvariant
<1> SUFFICES ASSUME BorrowInit PROVE BorrowInvariant
  OBVIOUS
<1>1. /\ sessions = {Own(p) : p \in People} /\ borrow = [q \in Borrows |-> NoBorrow] /\ sweep = NoSweep
      /\ contained = [p \in People |-> "none"]
  BY DEF BorrowInit
<1>2. BorrowRanked
  BY <1>1, RestingRecords DEF BorrowRanked, RowRanked, AskRanked
<1>3. BorrowContained
  BY <1>1 DEF BorrowContained, SweepInOrder, NoSweep
<1> QED BY <1>2, <1>3, BorrowStarts DEF BorrowInvariant

(* What the invariant says of a borrowed session: the human behind it is its *)
(* borrower, so its reach is the human's; and where it goes that human       *)
(* belongs, or is a superuser.                                               *)
LEMMA BoundedByInvariant == BorrowInvariant => BorrowedSessionsBounded
<1> SUFFICES ASSUME BorrowInvariant PROVE BorrowedSessionsBounded
  OBVIOUS
<1>1. BorrowTypeOK /\ BorrowRanked /\ BorrowContained /\ \A s \in sessions : RowSound(s)
  BY DEF BorrowInvariant, BorrowSound
<1>2. \A s \in Borrowed : s \in sessions /\ s.by # NoOne /\ s.human = s.by /\ s.human \in People /\ s.user \in People
  BY <1>1 DEF Borrowed, RowSound
<1>3. ReachIsTheHumans
  BY <1>2 DEF ReachIsTheHumans, Resolves
<1>4. ASSUME NEW s \in Borrowed, s.judged, ~s.shifted, NEW o \in Resolves(s)
      PROVE  Power(s.user, o) \subseteq Power(s.human, o)
  <2> DEFINE v == s.user
  <2> DEFINE p == s.human
  <2>1. Plain(v, enrolled, granted) /\ Below(v, p, enrolled, granted)
    BY <1>1, <1>2, <1>4 DEF BorrowRanked, RowRanked
  <2>2. ~GlobalSuperuser(v)
    BY <1>1, <2>1 DEF GlobalSuperuser, Plain, HeldIn, Member, BorrowTypeOK
  <2>3. Power(v, o) = HeldIn(v, o)
    BY <2>2 DEF Power
  <2>4. o \in tenants /\ Member(v, o) /\ o \in Reachable(p)
    BY <1>2 DEF Resolves, ActiveTenants
  <2>5. o \in Tenants
    BY <1>1, <2>4 DEF BorrowTypeOK
  <2>6. CASE GlobalSuperuser(p)
    BY <2>3, <2>6 DEF Power, HeldIn
  <2>7. CASE ~GlobalSuperuser(p)
    <3>1. Member(p, o)
      BY <2>4, <2>7 DEF Reachable, ActiveTenants
    <3>2. HeldIn(v, o) \subseteq HeldIn(p, o)
      BY <2>1, <2>4, <2>5, <3>1 DEF Below, HeldIn, Member
    <3> QED BY <2>3, <3>2 DEF Power
  <2> QED BY <2>6, <2>7
<1>5. RankIsTheHumans
  BY <1>4 DEF RankIsTheHumans
<1>6. ContainedIsOut
  BY <1>1 DEF ContainedIsOut, BorrowContained, DrivesNone, RowSound
<1> QED BY <1>3, <1>5, <1>6 DEF BorrowedSessionsBounded

(* A borrowed session reaches nowhere and does nothing that the human behind *)
(* it could not reach or do, and ends with the human's own sessions          *)
(* (users/[id]/impersonate, impersonation-reach.server.ts,                   *)
(* impersonation-sessions.server.ts).                                        *)
THEOREM BorrowedAreBounded == BorrowSpec => []BorrowedSessionsBounded
<1>1. BorrowInvariant /\ [BorrowNext]_borrowVars => BorrowInvariant'
  BY BorrowSoundSteps, RanksKept, ContainmentKept DEF BorrowInvariant
<1> QED BY <1>1, BorrowInvariantStarts, BoundedByInvariant, PTL DEF BorrowSpec

-----------------------------------------------------------------------------
(* The administrator console *)

Memberships == Users \X Orgs

(* What a request of each kind names. *)
Assignments == {x \in Users \X Orgs \X Roles : RoleOrg[x[3]] \in {x[2], Global}}

Copies == {x \in Roles \X Roles : RoleOrg[x[1]] = RoleOrg[x[2]]}

GroupEdits ==
  {x \in Groups \X (SUBSET Roles) \X (SUBSET Roles) : \A r \in x[2] : RoleOrg[r] = GroupOrg[x[1]]}

Standings == {"active", "inactive"}

Named(op, x) ==
  /\ op \in {"assign_role", "revoke_role"} => x \in Assignments
  /\ op \in {"create_role", "delete_role"} => x \in Roles
  /\ op = "duplicate_role" => x \in Copies
  /\ op = "edit_permissions" => x \in Roles \X (SUBSET Keys) \X (SUBSET Keys)
  /\ op \in {"create_group", "delete_group"} => x \in Groups
  /\ op = "edit_group_roles" => x \in GroupEdits
  /\ op \in {"add_group_members", "remove_group_members"} => x \in Groups \X (SUBSET Users)
  /\ op = "add_membership" => x \in Users \X Orgs \X Standings
  /\ op = "set_memberships" => x \in (SUBSET Users) \X Orgs \X Standings
  /\ op = "remove_memberships" => x \in (SUBSET Users) \X Orgs
  /\ op \in {"create_permission", "delete_permission"} => x \in Keys

(* Everything that a request may name; only that there is such a set counts. *)
Arguments ==
  {<<>>} \cup Assignments \cup Roles \cup Copies \cup (Roles \X (SUBSET Keys) \X (SUBSET Keys))
    \cup Groups \cup GroupEdits \cup (Groups \X (SUBSET Users)) \cup (Users \X Orgs \X Standings)
    \cup ((SUBSET Users) \X Orgs \X Standings) \cup ((SUBSET Users) \X Orgs) \cup Keys

TaskRecords ==
  [op : Operations \cup {"rest"}, held : SUBSET Keys, arg : Arguments,
   parted : SUBSET Memberships, outrun : BOOLEAN, blessed : BOOLEAN]

(* The rows of the directory refer to rows that are there, and a role or a   *)
(* group that is not there has nothing.                                      *)
DirectorySound ==
  /\ catalogue \subseteq Keys /\ roles \subseteq Roles
  /\ perms \in [Roles -> SUBSET Keys]
  /\ \A r \in Roles : perms[r] \subseteq catalogue
  /\ \A r \in Roles \ roles : perms[r] = {}
  /\ assigned \subseteq Assignments /\ \A x \in assigned : x[3] \in roles
  /\ groups \subseteq Groups
  /\ groupRoles \subseteq Groups \X Roles
  /\ \A x \in groupRoles : x[1] \in groups /\ x[2] \in roles /\ RoleOrg[x[2]] = GroupOrg[x[1]]
  /\ groupMembers \subseteq Groups \X Users /\ \A x \in groupMembers : x[1] \in groups
  /\ joined \in [Memberships -> {"none", "active", "inactive"}]

RequestsSound ==
  /\ task \in [Tasks -> TaskRecords] /\ tasks \in 0..MaxTasks
  /\ \A t \in Tasks : Named(task[t].op, task[t].arg)
  /\ vested \in [Orgs -> SUBSET Keys] /\ late \subseteq Memberships

(* What a request has been found to confer is vested where it confers it. *)
Conferred(op, x) ==
  /\ op = "assign_role" => perms[x[3]] \subseteq vested[x[2]]
  /\ op = "duplicate_role" => RoleOrg[x[1]] \in Orgs /\ perms[x[1]] \subseteq vested[RoleOrg[x[1]]]
  /\ op = "edit_permissions" => RoleOrg[x[1]] \in Orgs /\ x[2] \subseteq vested[RoleOrg[x[1]]]
  /\ op = "edit_group_roles" => \A r \in x[2] : perms[r] \subseteq vested[GroupOrg[x[1]]]
  /\ op = "add_group_members" => PermissionKeysForGroup(x[1]) \subseteq vested[GroupOrg[x[1]]]

(* What a request takes away its caller holds. *)
Measured(op, x, held) ==
  /\ op = "revoke_role" => perms[x[3]] \subseteq held
  /\ op = "edit_permissions" => x[3] \subseteq held
  /\ op = "delete_group" => PermissionKeysForGroup(x) \subseteq held
  /\ op = "remove_group_members" => PermissionKeysForGroup(x[1]) \subseteq held
  /\ op = "edit_group_roles" => \A r \in x[3] : perms[r] \subseteq held

(* Those whom a request grants something are members, or have parted since. *)
Expected(op, x, parted) ==
  /\ op = "assign_role" => joined[<<x[1], x[2]>>] # "none" \/ <<x[1], x[2]>> \in parted
  /\ op = "add_group_members" =>
       \A u \in x[2] : joined[<<u, GroupOrg[x[1]]>>] # "none" \/ <<u, GroupOrg[x[1]]>> \in parted

TaskConferred(t) ==
  IsSuperadmin(task[t].held) \/ task[t].blessed \/ Conferred(task[t].op, task[t].arg)

TaskMeasured(t) ==
  IsSuperadmin(task[t].held) \/ task[t].outrun \/ Measured(task[t].op, task[t].arg, task[t].held)

TaskExpected(t) == Expected(task[t].op, task[t].arg, task[t].parted)

ConsoleInvariant ==
  /\ DirectorySound /\ RequestsSound
  /\ \A t \in Tasks : TaskConferred(t) /\ TaskMeasured(t) /\ TaskExpected(t)
  /\ NoEscalation /\ NoDormantGrant

LEMMA ConsoleTypes == DirectorySound /\ RequestsSound => ConsoleTypeOK
<1> SUFFICES ASSUME DirectorySound, RequestsSound PROVE ConsoleTypeOK
  OBVIOUS
<1>1. perms \in [Roles -> SUBSET catalogue]
  BY DEF DirectorySound
<1>2. assigned \subseteq Users \X Orgs \X roles
  BY DEF DirectorySound, Assignments
<1>3. groupRoles \subseteq {x \in groups \X roles : RoleOrg[x[2]] = GroupOrg[x[1]]}
  BY DEF DirectorySound
<1>4. groupMembers \subseteq groups \X Users
  BY DEF DirectorySound
<1>5. \A t \in Tasks : task[t].op \in Operations \cup {"rest"} /\ task[t].held \subseteq Keys
  BY DEF RequestsSound, TaskRecords
<1> QED BY <1>1, <1>2, <1>3, <1>4, <1>5 DEF ConsoleTypeOK, DirectorySound, RequestsSound, Memberships

(* A request at rest names nothing and confers nothing. *)
LEMMA RestingTask ==
  /\ Rest \in TaskRecords /\ Rest.op = "rest" /\ Rest.outrun = FALSE
  /\ Named("rest", <<>>) /\ Named(Rest.op, Rest.arg)
  /\ Rest.held = {} /\ Rest.arg = <<>>
BY DEF Rest, TaskRecords, Arguments, Named

LEMMA NamedIsArgument ==
  ASSUME NEW op \in Operations, NEW x, Named(op, x)
  PROVE  x \in Arguments
<1>1. CASE op \in {"assign_role", "revoke_role", "create_role", "delete_role", "duplicate_role", "edit_permissions"}
  BY <1>1 DEF Named, Arguments
<1>2. CASE op \in {"create_group", "delete_group", "edit_group_roles", "add_group_members", "remove_group_members"}
  BY <1>2 DEF Named, Arguments
<1>3. CASE op \in {"add_membership", "set_memberships", "remove_memberships", "create_permission", "delete_permission"}
  BY <1>3 DEF Named, Arguments
<1> QED BY <1>1, <1>2, <1>3 DEF Operations

(* A key that somebody is granted comes from a role that they have. *)
HasRole(u, o, r) ==
  \/ <<u, o, r>> \in assigned
  \/ \E g \in groups : GroupOrg[g] = o /\ <<g, r>> \in groupRoles /\ <<g, u>> \in groupMembers

LEMMA GrantedByRoles ==
  /\ \A u, o, k : k \in Granted(u, o) <=> \E r \in roles : HasRole(u, o, r) /\ k \in perms[r]
  /\ \A g, k : k \in PermissionKeysForGroup(g) <=> \E r \in roles : <<g, r>> \in groupRoles /\ k \in perms[r]
<1>1. \A u, o, k : k \in Granted(u, o) <=> \E r \in GrantedRoles(u, o) : k \in perms[r]
  BY DEF Granted, PermissionKeysForRoles
<1>2. \A u, o, r : r \in GrantedRoles(u, o) <=> r \in roles /\ HasRole(u, o, r)
  BY DEF GrantedRoles, HasRole
<1>3. \A g, k : k \in PermissionKeysForGroup(g) <=> \E r \in {r \in roles : <<g, r>> \in groupRoles} : k \in perms[r]
  BY DEF PermissionKeysForGroup, PermissionKeysForRoles
<1> QED BY <1>1, <1>2, <1>3

(* The seed's grants are vested, and nobody has any where they are no member. *)
LEMMA ConsoleStarts == ConsoleInit => ConsoleInvariant
<1> SUFFICES ASSUME ConsoleInit PROVE ConsoleInvariant
  OBVIOUS
<1>1. /\ catalogue = Keys /\ roles = SeedRoles
      /\ perms = [r \in Roles |-> IF r \in SeedRoles THEN SeedPerms[r] ELSE {}]
      /\ assigned = SeedAssigned /\ groups \in SUBSET Groups /\ groupRoles = {}
      /\ groupMembers \in SUBSET {x \in groups \X Users : joined[<<x[2], GroupOrg[x[1]]>>] = "active"}
      /\ task = [t \in Tasks |-> Rest] /\ tasks = MaxTasks /\ late = {}
      /\ vested = [o \in Orgs |-> UNION {Granted(u, o) : u \in Users}]
  BY DEF ConsoleInit
<1>2. joined = [x \in Users \X Orgs |->
                 IF \E a \in SeedAssigned : a[1] = x[1] /\ a[2] = x[2] THEN "active" ELSE "none"]
  BY DEF ConsoleInit
<1>3. SeedRoles \subseteq Roles /\ SeedPerms \in [Roles -> SUBSET Keys] /\ MaxTasks \in Nat
      /\ SeedAssigned \subseteq {x \in Users \X Orgs \X SeedRoles : RoleOrg[x[3]] \in {x[2], Global}}
  BY ConsoleAssumption
<1>4. DirectorySound
  <2>1. perms \in [Roles -> SUBSET Keys] /\ \A r \in Roles : perms[r] \subseteq catalogue
    BY <1>1, <1>3
  <2>2. assigned \subseteq Assignments /\ \A x \in assigned : x[3] \in roles
    BY <1>1, <1>3 DEF Assignments
  <2>3. joined \in [Memberships -> {"none", "active", "inactive"}]
    BY <1>2 DEF Memberships
  <2>4. groupMembers \subseteq Groups \X Users /\ \A x \in groupMembers : x[1] \in groups
    BY <1>1
  <2> QED BY <1>1, <1>3, <2>1, <2>2, <2>3, <2>4 DEF DirectorySound
<1>5. \A u \in Users, o \in Orgs : Granted(u, o) \subseteq Keys
  BY <1>4, GrantedByRoles DEF DirectorySound
<1>6. RequestsSound
  <2>1. vested \in [Orgs -> SUBSET Keys]
    BY <1>1, <1>5
  <2> QED BY <1>1, <1>3, <2>1, RestingTask DEF RequestsSound
<1>7. \A t \in Tasks : TaskConferred(t) /\ TaskMeasured(t) /\ TaskExpected(t)
  <2>1. \A t \in Tasks : task[t].op = "rest"
    BY <1>1, RestingTask
  <2>2. \A t \in Tasks : TaskConferred(t)
    BY <2>1 DEF TaskConferred, Conferred
  <2>3. \A t \in Tasks : TaskMeasured(t)
    BY <2>1 DEF TaskMeasured, Measured
  <2>4. \A t \in Tasks : TaskExpected(t)
    BY <2>1 DEF TaskExpected, Expected
  <2> QED BY <2>2, <2>3, <2>4
<1>8. NoEscalation
  BY <1>1 DEF NoEscalation
<1>9. NoDormantGrant
  <2>1. \A x \in assigned : joined[<<x[1], x[2]>>] = "active"
    BY <1>1, <1>2, <1>3
  <2>2. \A x \in groupMembers : joined[<<x[2], GroupOrg[x[1]]>>] = "active"
    BY <1>1
  <2> QED BY <2>1, <2>2 DEF NoDormantGrant, HasGrant
<1> QED BY <1>4, <1>6, <1>7, <1>8, <1>9 DEF ConsoleInvariant

(* A request that has passed its checks. *)
LEMMA CheckedKeeps ==
  ASSUME ConsoleInvariant, NEW t \in Tasks, NEW held \in SUBSET Keys, NEW op \in Operations, NEW x,
         Checked(t, held, op, x), tasks > 0, Named(op, x),
         IsSuperadmin(held) \/ (Conferred(op, x) /\ Measured(op, x, held)), Expected(op, x, {})
  PROVE  ConsoleInvariant' /\ task'[t].op # "rest" /\ \A s \in Tasks \ {t} : task'[s] = task[s]
<1>1. task \in [Tasks -> TaskRecords] /\ tasks \in 0..MaxTasks
  BY DEF ConsoleInvariant, RequestsSound
<1> DEFINE new == [op |-> op, held |-> held, arg |-> x, parted |-> {}, outrun |-> FALSE, blessed |-> FALSE]
<1>2. /\ new \in TaskRecords /\ new.op = op /\ new.held = held /\ new.arg = x /\ new.parted = {}
      /\ new.outrun = FALSE /\ new.blessed = FALSE
  BY NamedIsArgument DEF TaskRecords
<1>3. task' = [task EXCEPT ![t] = new] /\ tasks' = tasks - 1 /\ UNCHANGED <<directory, vested, late>>
  BY DEF Checked
<1> HIDE DEF new
<1>4. task' \in [Tasks -> TaskRecords] /\ task'[t] = new /\ \A s \in Tasks \ {t} : task'[s] = task[s]
  BY <1>1, <1>2, <1>3
<1>5. tasks' \in 0..MaxTasks
  BY <1>1, <1>3, ConsoleAssumption
<1>6. DirectorySound' /\ NoEscalation' /\ NoDormantGrant'
  <2>1. UNCHANGED <<catalogue, roles, perms, assigned, groups, groupRoles, groupMembers, joined, vested, late>>
    BY <1>3 DEF directory
  <2>2. DirectorySound'
    BY <2>1 DEF ConsoleInvariant, DirectorySound
  <2>3. NoEscalation'
    <3>1. \A u \in Users, p \in Orgs : Granted(u, p)' = Granted(u, p)
      BY <2>1 DEF Granted, PermissionKeysForRoles, GrantedRoles
    <3> QED BY <2>1, <3>1 DEF ConsoleInvariant, NoEscalation
  <2>4. NoDormantGrant'
    BY <2>1 DEF ConsoleInvariant, NoDormantGrant, HasGrant
  <2> QED BY <2>2, <2>3, <2>4
<1>7. RequestsSound'
  BY <1>2, <1>3, <1>4, <1>5 DEF ConsoleInvariant, RequestsSound
<1>8. ASSUME NEW s \in Tasks \ {t} PROVE TaskConferred(s)' /\ TaskMeasured(s)' /\ TaskExpected(s)'
  <2>1. task'[s] = task[s] /\ TaskConferred(s) /\ TaskMeasured(s) /\ TaskExpected(s)
    BY <1>4 DEF ConsoleInvariant
  <2>2. UNCHANGED <<roles, perms, groupRoles, joined, vested>>
    BY <1>3 DEF directory
  <2>3. TaskConferred(s)'
    BY <2>1, <2>2 DEF TaskConferred, Conferred, IsSuperadmin, PermissionKeysForGroup, PermissionKeysForRoles
  <2>4. TaskMeasured(s)'
    BY <2>1, <2>2 DEF TaskMeasured, Measured, IsSuperadmin, PermissionKeysForGroup, PermissionKeysForRoles
  <2>5. TaskExpected(s)'
    BY <2>1, <2>2 DEF TaskExpected, Expected
  <2> QED BY <2>3, <2>4, <2>5
<1>9. TaskConferred(t)' /\ TaskMeasured(t)' /\ TaskExpected(t)'
  <2>1. UNCHANGED <<roles, perms, groupRoles, joined, vested>>
    BY <1>3 DEF directory
  <2>2. TaskConferred(t)'
    BY <1>2, <1>4, <2>1 DEF TaskConferred, Conferred, IsSuperadmin, PermissionKeysForGroup, PermissionKeysForRoles
  <2>3. TaskMeasured(t)'
    <3>1. \A g : PermissionKeysForGroup(g)' = PermissionKeysForGroup(g)
      BY <2>1 DEF PermissionKeysForGroup, PermissionKeysForRoles
    <3>2. Measured(op, x, held) => Measured(op, x, held)'
      BY <2>1, <3>1 DEF Measured
    <3>3. IsSuperadmin(held) \/ Measured(op, x, held)'
      BY <3>2
    <3>4. QED
      BY <1>2, <1>4, <3>3 DEF TaskMeasured, IsSuperadmin
  <2>4. TaskExpected(t)'
    BY <1>2, <1>4, <2>1 DEF TaskExpected, Expected
  <2> QED BY <2>2, <2>3, <2>4
<1>10. op # "rest"
  BY DEF Operations
<1> QED BY <1>2, <1>4, <1>6, <1>7, <1>8, <1>9, <1>10 DEF ConsoleInvariant

(* The request goes on to do what its caller may. *)
Passes(t, held) ==
  \E op, x :
    /\ op \in Operations
    /\ Checked(t, held, op, x) /\ Named(op, x) /\ Expected(op, x, {})
    /\ IsSuperadmin(held) \/ (Conferred(op, x) /\ Measured(op, x, held))

LEMMA RoleChecksPass ==
  ASSUME DirectorySound, NEW t \in Tasks, NEW held \in SUBSET Keys, NEW o \in Orgs,
         IsSuperadmin(held) \/ held \subseteq vested[o],
         \/ AssignRoleCheck(t, held, o) \/ RevokeRoleCheck(t, held, o)
         \/ CreateRoleCheck(t, held, o) \/ DuplicateRoleCheck(t, held, o) \/ DeleteRoleCheck(t, held, o)
         \/ GrantPermissionCheck(t, held, o) \/ RevokePermissionCheck(t, held, o) \/ EditPermissionsCheck(t, held, o)
  PROVE  Passes(t, held)
<1>1. \A keys : Unheld(held, keys) = {} /\ ~IsSuperadmin(held) => keys \subseteq held /\ keys \subseteq vested[o]
  BY DEF Unheld
<1>2. \A p : CanAccessOrg(held, o, p) /\ ~IsSuperadmin(held) => p = o
  BY DEF CanAccessOrg
<1>3. /\ roles \subseteq Roles /\ catalogue \subseteq Keys /\ perms \in [Roles -> SUBSET Keys]
      /\ assigned \subseteq Assignments
      /\ {"assign_role", "revoke_role", "create_role", "duplicate_role", "edit_permissions", "delete_role"} \subseteq Operations
  BY DEF DirectorySound, Operations
<1>4. ASSUME NEW op \in Operations, NEW x, Checked(t, held, op, x), Named(op, x), Expected(op, x, {}),
             IsSuperadmin(held) \/ (Conferred(op, x) /\ Measured(op, x, held))
      PROVE  Passes(t, held)
  BY <1>4 DEF Passes
<1>5. CASE AssignRoleCheck(t, held, o)
  <2>1. PICK u \in Users, p \in Orgs, r \in roles :
          /\ CanAccessOrg(held, o, p) /\ RoleOrg[r] \in {p, Global} /\ Unheld(held, perms[r]) = {}
          /\ joined[<<u, p>>] = "active" /\ Checked(t, held, "assign_role", <<u, p, r>>)
    BY <1>5 DEF AssignRoleCheck
  <2> DEFINE x == <<u, p, r>>
  <2>2. Named("assign_role", x) /\ Expected("assign_role", x, {})
    BY <1>3, <2>1 DEF Named, Assignments, Expected
  <2>3. IsSuperadmin(held) \/ (Conferred("assign_role", x) /\ Measured("assign_role", x, held))
    BY <1>1, <1>2, <2>1 DEF Conferred, Measured
  <2> QED BY <1>3, <1>4, <2>1, <2>2, <2>3
<1>6. CASE RevokeRoleCheck(t, held, o)
  <2>1. PICK x \in assigned : Unheld(held, perms[x[3]]) = {} /\ Checked(t, held, "revoke_role", x)
    BY <1>6 DEF RevokeRoleCheck
  <2>2. Named("revoke_role", x) /\ Expected("revoke_role", x, {})
    BY <1>3, <2>1 DEF Named, Expected
  <2>3. IsSuperadmin(held) \/ (Conferred("revoke_role", x) /\ Measured("revoke_role", x, held))
    BY <1>1, <2>1 DEF Conferred, Measured
  <2> QED BY <1>3, <1>4, <2>1, <2>2, <2>3
<1>7. CASE CreateRoleCheck(t, held, o)
  <2>1. PICK x \in Roles : Checked(t, held, "create_role", x)
    BY <1>7 DEF CreateRoleCheck
  <2>2. Named("create_role", x) /\ Expected("create_role", x, {})
    BY <2>1 DEF Named, Expected
  <2>3. IsSuperadmin(held) \/ (Conferred("create_role", x) /\ Measured("create_role", x, held))
    BY DEF Conferred, Measured
  <2> QED BY <1>3, <1>4, <2>1, <2>2, <2>3
<1>8. CASE DuplicateRoleCheck(t, held, o)
  <2>1. PICK r \in roles, new \in Roles \ roles :
          /\ RoleOrg[new] = RoleOrg[r] /\ CanAccessOrg(held, o, RoleOrg[r]) /\ Unheld(held, perms[r]) = {}
          /\ Checked(t, held, "duplicate_role", <<r, new>>)
    BY <1>8 DEF DuplicateRoleCheck
  <2> DEFINE x == <<r, new>>
  <2>2. Named("duplicate_role", x) /\ Expected("duplicate_role", x, {})
    BY <1>3, <2>1 DEF Named, Copies, Expected
  <2>3. IsSuperadmin(held) \/ (Conferred("duplicate_role", x) /\ Measured("duplicate_role", x, held))
    BY <1>1, <1>2, <2>1 DEF Conferred, Measured
  <2> QED BY <1>3, <1>4, <2>1, <2>2, <2>3
<1>9. CASE DeleteRoleCheck(t, held, o)
  <2>1. PICK x \in roles : Checked(t, held, "delete_role", x)
    BY <1>9 DEF DeleteRoleCheck
  <2>2. Named("delete_role", x) /\ Expected("delete_role", x, {})
    BY <1>3, <2>1 DEF Named, Expected
  <2>3. IsSuperadmin(held) \/ (Conferred("delete_role", x) /\ Measured("delete_role", x, held))
    BY DEF Conferred, Measured
  <2> QED BY <1>3, <1>4, <2>1, <2>2, <2>3
<1>10. ASSUME NEW r \in roles, NEW add \in SUBSET catalogue, NEW remove \in SUBSET catalogue,
              CanAccessOrg(held, o, RoleOrg[r]), Unheld(held, add \cup remove) = {},
              Checked(t, held, "edit_permissions", <<r, add, remove>>)
       PROVE  Passes(t, held)
  <2> DEFINE x == <<r, add, remove>>
  <2>1. Named("edit_permissions", x) /\ Expected("edit_permissions", x, {})
    BY <1>3 DEF Named, Expected
  <2>2. IsSuperadmin(held) \/ (Conferred("edit_permissions", x) /\ Measured("edit_permissions", x, held))
    BY <1>1, <1>2, <1>10 DEF Conferred, Measured
  <2> QED BY <1>3, <1>4, <1>10, <2>1, <2>2
<1>11. CASE GrantPermissionCheck(t, held, o)
  <2>1. PICK r \in roles, k \in catalogue :
          /\ CanAccessOrg(held, o, RoleOrg[r]) /\ Unheld(held, {k}) = {}
          /\ Checked(t, held, "edit_permissions", <<r, {k}, {}>>)
    BY <1>11 DEF GrantPermissionCheck
  <2>2. {k} \cup {} = {k} /\ {k} \in SUBSET catalogue /\ {} \in SUBSET catalogue
    OBVIOUS
  <2> QED BY <1>10, <2>1, <2>2
<1>12. CASE RevokePermissionCheck(t, held, o)
  <2>1. PICK r \in roles, k \in catalogue :
          /\ CanAccessOrg(held, o, RoleOrg[r]) /\ Unheld(held, {k}) = {}
          /\ Checked(t, held, "edit_permissions", <<r, {}, {k}>>)
    BY <1>12 DEF RevokePermissionCheck
  <2>2. {} \cup {k} = {k} /\ {k} \in SUBSET catalogue /\ {} \in SUBSET catalogue
    OBVIOUS
  <2> QED BY <1>10, <2>1, <2>2
<1>13. CASE EditPermissionsCheck(t, held, o)
  <2>1. PICK r \in roles, add \in catalogue, remove \in catalogue :
          /\ CanAccessOrg(held, o, RoleOrg[r]) /\ Unheld(held, {add, remove}) = {}
          /\ Checked(t, held, "edit_permissions", <<r, {add}, {remove}>>)
    BY <1>13 DEF EditPermissionsCheck
  <2>2. {add} \cup {remove} = {add, remove} /\ {add} \in SUBSET catalogue /\ {remove} \in SUBSET catalogue
    OBVIOUS
  <2> QED BY <1>10, <2>1, <2>2
<1> QED BY <1>5, <1>6, <1>7, <1>8, <1>9, <1>11, <1>12, <1>13

LEMMA GroupChecksPass ==
  ASSUME DirectorySound, NEW t \in Tasks, NEW held \in SUBSET Keys, NEW o \in Orgs,
         IsSuperadmin(held) \/ held \subseteq vested[o],
         \/ CreateGroupCheck(t, held, o) \/ DeleteGroupCheck(t, held, o)
         \/ GrantGroupRoleCheck(t, held, o) \/ RevokeGroupRoleCheck(t, held, o) \/ EditGroupRolesCheck(t, held, o)
         \/ AddGroupMembersCheck(t, held, o) \/ JoinGroupCheck(t, held, o)
         \/ RemoveGroupMembersCheck(t, held, o) \/ LeaveGroupCheck(t, held, o)
  PROVE  Passes(t, held)
<1>1. \A keys : Unheld(held, keys) = {} /\ ~IsSuperadmin(held) => keys \subseteq held /\ keys \subseteq vested[o]
  BY DEF Unheld
<1>2. \A p : CanAccessOrg(held, o, p) /\ ~IsSuperadmin(held) => p = o
  BY DEF CanAccessOrg
<1>3. /\ roles \subseteq Roles /\ groups \subseteq Groups
      /\ {"create_group", "delete_group", "edit_group_roles", "add_group_members", "remove_group_members"} \subseteq Operations
  BY DEF DirectorySound, Operations
<1>4. ASSUME NEW op \in Operations, NEW x, Checked(t, held, op, x), Named(op, x), Expected(op, x, {}),
             IsSuperadmin(held) \/ (Conferred(op, x) /\ Measured(op, x, held))
      PROVE  Passes(t, held)
  BY <1>4 DEF Passes
<1>5. CASE CreateGroupCheck(t, held, o)
  <2>1. PICK x \in Groups : Checked(t, held, "create_group", x)
    BY <1>5 DEF CreateGroupCheck
  <2>2. Named("create_group", x) /\ Expected("create_group", x, {})
    BY DEF Named, Expected
  <2>3. IsSuperadmin(held) \/ (Conferred("create_group", x) /\ Measured("create_group", x, held))
    BY DEF Conferred, Measured
  <2> QED BY <1>3, <1>4, <2>1, <2>2, <2>3
<1>6. CASE DeleteGroupCheck(t, held, o)
  <2>1. PICK x \in groups : Unheld(held, PermissionKeysForGroup(x)) = {} /\ Checked(t, held, "delete_group", x)
    BY <1>6 DEF DeleteGroupCheck
  <2>2. Named("delete_group", x) /\ Expected("delete_group", x, {})
    BY <1>3 DEF Named, Expected
  <2>3. IsSuperadmin(held) \/ (Conferred("delete_group", x) /\ Measured("delete_group", x, held))
    BY <1>1, <2>1 DEF Conferred, Measured
  <2> QED BY <1>3, <1>4, <2>1, <2>2, <2>3
<1>7. ASSUME NEW g \in groups, NEW add \in SUBSET roles, NEW remove \in SUBSET roles,
             CanAccessOrg(held, o, GroupOrg[g]), \A r \in add : RoleOrg[r] = GroupOrg[g],
             \A r \in add \cup remove : Unheld(held, perms[r]) = {},
             Checked(t, held, "edit_group_roles", <<g, add, remove>>)
      PROVE  Passes(t, held)
  <2> DEFINE x == <<g, add, remove>>
  <2>1. Named("edit_group_roles", x) /\ Expected("edit_group_roles", x, {})
    BY <1>3, <1>7 DEF Named, GroupEdits, Expected
  <2>2. IsSuperadmin(held) \/ (Conferred("edit_group_roles", x) /\ Measured("edit_group_roles", x, held))
    BY <1>1, <1>2, <1>7 DEF Conferred, Measured
  <2> QED BY <1>3, <1>4, <1>7, <2>1, <2>2
<1>8. CASE GrantGroupRoleCheck(t, held, o)
  <2>1. PICK g \in groups, r \in roles :
          /\ CanAccessOrg(held, o, GroupOrg[g]) /\ RoleOrg[r] = GroupOrg[g] /\ Unheld(held, perms[r]) = {}
          /\ Checked(t, held, "edit_group_roles", <<g, {r}, {}>>)
    BY <1>8 DEF GrantGroupRoleCheck
  <2>2. {r} \in SUBSET roles /\ {} \in SUBSET roles /\ {r} \cup {} = {r}
    OBVIOUS
  <2> QED BY <1>7, <2>1, <2>2
<1>9. CASE RevokeGroupRoleCheck(t, held, o)
  <2>1. PICK g \in groups, r \in roles :
          /\ CanAccessOrg(held, o, GroupOrg[g]) /\ Unheld(held, perms[r]) = {}
          /\ Checked(t, held, "edit_group_roles", <<g, {}, {r}>>)
    BY <1>9 DEF RevokeGroupRoleCheck
  <2>2. {r} \in SUBSET roles /\ {} \in SUBSET roles /\ {} \cup {r} = {r}
    OBVIOUS
  <2> QED BY <1>7, <2>1, <2>2
<1>10. CASE EditGroupRolesCheck(t, held, o)
  <2>1. PICK g \in groups, add \in roles, remove \in roles :
          /\ CanAccessOrg(held, o, GroupOrg[g]) /\ RoleOrg[add] = GroupOrg[g]
          /\ Unheld(held, PermissionKeysForRoles({add, remove})) = {}
          /\ Checked(t, held, "edit_group_roles", <<g, {add}, {remove}>>)
    BY <1>10 DEF EditGroupRolesCheck
  <2>2. {add} \in SUBSET roles /\ {remove} \in SUBSET roles /\ {add} \cup {remove} = {add, remove}
    OBVIOUS
  <2>3. perms[add] \subseteq PermissionKeysForRoles({add, remove}) /\ perms[remove] \subseteq PermissionKeysForRoles({add, remove})
    BY DEF PermissionKeysForRoles
  <2>4. \A r \in {add, remove} : Unheld(held, perms[r]) = {}
    BY <2>1, <2>3 DEF Unheld
  <2> QED BY <1>7, <2>1, <2>2, <2>4
<1>11. ASSUME NEW g \in groups, NEW us \in SUBSET Users, CanAccessOrg(held, o, GroupOrg[g]),
              Unheld(held, PermissionKeysForGroup(g)) = {}, \A u \in us : joined[<<u, GroupOrg[g]>>] = "active",
              Checked(t, held, "add_group_members", <<g, us>>)
       PROVE  Passes(t, held)
  <2> DEFINE x == <<g, us>>
  <2>1. Named("add_group_members", x) /\ Expected("add_group_members", x, {})
    BY <1>3, <1>11 DEF Named, Expected
  <2>2. IsSuperadmin(held) \/ (Conferred("add_group_members", x) /\ Measured("add_group_members", x, held))
    BY <1>1, <1>2, <1>11 DEF Conferred, Measured
  <2> QED BY <1>3, <1>4, <1>11, <2>1, <2>2
<1>12. CASE AddGroupMembersCheck(t, held, o)
  BY <1>11, <1>12 DEF AddGroupMembersCheck
<1>13. CASE JoinGroupCheck(t, held, o)
  <2>1. PICK g \in groups, u \in Users :
          /\ CanAccessOrg(held, o, GroupOrg[g]) /\ Unheld(held, PermissionKeysForGroup(g)) = {}
          /\ joined[<<u, GroupOrg[g]>>] = "active" /\ Checked(t, held, "add_group_members", <<g, {u}>>)
    BY <1>13 DEF JoinGroupCheck
  <2>2. {u} \in SUBSET Users
    OBVIOUS
  <2> QED BY <1>11, <2>1, <2>2
<1>14. ASSUME NEW g \in groups, NEW us \in SUBSET Users, Unheld(held, PermissionKeysForGroup(g)) = {},
              Checked(t, held, "remove_group_members", <<g, us>>)
       PROVE  Passes(t, held)
  <2> DEFINE x == <<g, us>>
  <2>1. Named("remove_group_members", x) /\ Expected("remove_group_members", x, {})
    BY <1>3 DEF Named, Expected
  <2>2. IsSuperadmin(held) \/ (Conferred("remove_group_members", x) /\ Measured("remove_group_members", x, held))
    BY <1>1, <1>14 DEF Conferred, Measured
  <2> QED BY <1>3, <1>4, <1>14, <2>1, <2>2
<1>15. CASE RemoveGroupMembersCheck(t, held, o)
  BY <1>14, <1>15 DEF RemoveGroupMembersCheck
<1>16. CASE LeaveGroupCheck(t, held, o)
  <2>1. PICK g \in groups, u \in Users :
          Unheld(held, PermissionKeysForGroup(g)) = {} /\ Checked(t, held, "remove_group_members", <<g, {u}>>)
    BY <1>16 DEF LeaveGroupCheck
  <2>2. {u} \in SUBSET Users
    OBVIOUS
  <2> QED BY <1>14, <2>1, <2>2
<1> QED BY <1>5, <1>6, <1>8, <1>9, <1>10, <1>12, <1>13, <1>15, <1>16

(* The others confer nothing and measure what they take when they write. *)
LEMMA OtherChecksPass ==
  ASSUME DirectorySound, NEW t \in Tasks, NEW held \in SUBSET Keys, NEW o \in Orgs,
         \/ AddMembershipCheck(t, held, o) \/ SetMembershipCheck(t, held, o) \/ SetMembersCheck(t, held, o)
         \/ RemoveMembershipCheck(t, held, o) \/ RemoveMembersCheck(t, held, o)
         \/ CreatePermissionCheck(t, held, o) \/ DeletePermissionCheck(t, held, o)
  PROVE  Passes(t, held)
<1>1. ASSUME NEW op \in {"add_membership", "set_memberships", "remove_memberships", "create_permission", "delete_permission"},
             NEW x, Named(op, x), Checked(t, held, op, x)
      PROVE  Passes(t, held)
  <2>1. op \in Operations
    BY DEF Operations
  <2>2. Expected(op, x, {}) /\ Conferred(op, x) /\ Measured(op, x, held)
    BY DEF Expected, Conferred, Measured
  <2> QED BY <1>1, <2>1, <2>2 DEF Passes
<1>2. CASE AddMembershipCheck(t, held, o)
  <2>1. PICK u \in Users, p \in Orgs, s \in Standings : Checked(t, held, "add_membership", <<u, p, s>>)
    BY <1>2 DEF AddMembershipCheck, Standings
  <2>2. Named("add_membership", <<u, p, s>>)
    BY DEF Named
  <2> QED BY <1>1, <2>1, <2>2
<1>3. CASE SetMembershipCheck(t, held, o) \/ SetMembersCheck(t, held, o)
  <2>1. PICK us \in SUBSET Users, p \in Orgs, s \in Standings : Checked(t, held, "set_memberships", <<us, p, s>>)
    BY <1>3 DEF SetMembershipCheck, SetMembersCheck, Standings
  <2>2. Named("set_memberships", <<us, p, s>>)
    BY DEF Named
  <2> QED BY <1>1, <2>1, <2>2
<1>4. CASE RemoveMembershipCheck(t, held, o) \/ RemoveMembersCheck(t, held, o)
  <2>1. PICK us \in SUBSET Users, p \in Orgs : Checked(t, held, "remove_memberships", <<us, p>>)
    BY <1>4 DEF RemoveMembershipCheck, RemoveMembersCheck
  <2>2. Named("remove_memberships", <<us, p>>)
    BY DEF Named
  <2> QED BY <1>1, <2>1, <2>2
<1>5. CASE CreatePermissionCheck(t, held, o)
  <2>1. PICK k \in Keys : Checked(t, held, "create_permission", k)
    BY <1>5 DEF CreatePermissionCheck
  <2>2. Named("create_permission", k)
    BY DEF Named
  <2> QED BY <1>1, <2>1, <2>2
<1>6. CASE DeletePermissionCheck(t, held, o)
  <2>1. PICK k \in Keys : Checked(t, held, "delete_permission", k)
    BY <1>6 DEF DeletePermissionCheck, DirectorySound
  <2>2. Named("delete_permission", k)
    BY DEF Named
  <2> QED BY <1>1, <2>1, <2>2
<1> QED BY <1>2, <1>3, <1>4, <1>5, <1>6

(* What an administrator holds in an organization is vested there. *)
LEMMA CheckKeeps ==
  ASSUME ConsoleInvariant, NEW t \in Tasks, NEW a \in Actors, NEW o \in Orgs, tasks > 0, Check(t, Held(a, o), o)
  PROVE  ConsoleInvariant' /\ \A s \in Tasks \ {t} : task'[s] = task[s]
<1> DEFINE held == Held(a, o)
<1>1. DirectorySound /\ NoEscalation /\ a \in Users /\ Superuser \in Keys
  BY ConsoleAssumption DEF ConsoleInvariant
<1>2. held \in SUBSET Keys
  <2>1. \A u, p : HeldInOrg(u, p) \subseteq Granted(u, p)
    BY DEF HeldInOrg
  <2>2. Granted(a, o) \subseteq Keys
    BY <1>1, GrantedByRoles DEF DirectorySound
  <2> QED BY <1>1, <2>1, <2>2 DEF Held
<1>3. IsSuperadmin(held) \/ held \subseteq vested[o]
  <2>1. HeldInOrg(a, o) \subseteq Granted(a, o) /\ Granted(a, o) \subseteq vested[o]
    BY <1>1 DEF HeldInOrg, NoEscalation
  <2>2. ASSUME ~IsSuperadmin(held) PROVE held = HeldInOrg(a, o)
    BY <2>2 DEF IsSuperadmin, Held
  <2> QED BY <2>1, <2>2
<1> HIDE DEF held
<1>4. Passes(t, held)
  <2>1. Check(t, held, o)
    BY DEF held
  <2> QED BY <1>1, <1>2, <1>3, <2>1, RoleChecksPass, GroupChecksPass, OtherChecksPass DEF Check
<1>5. PICK op, x :
        /\ op \in Operations
        /\ Checked(t, held, op, x) /\ Named(op, x) /\ Expected(op, x, {})
        /\ IsSuperadmin(held) \/ (Conferred(op, x) /\ Measured(op, x, held))
  BY <1>4 DEF Passes
<1> QED BY <1>2, <1>5, CheckedKeeps

LEMMA GrantedByRolesNext ==
  /\ \A u, o, k : k \in Granted(u, o)' <=> \E r \in roles' : HasRole(u, o, r)' /\ k \in perms'[r]
  /\ \A g, k : k \in PermissionKeysForGroup(g)' <=> \E r \in roles' : <<g, r>> \in groupRoles' /\ k \in perms'[r]
<1>1. \A u, o, k : k \in Granted(u, o)' <=> \E r \in GrantedRoles(u, o)' : k \in perms'[r]
  BY DEF Granted, PermissionKeysForRoles
<1>2. \A u, o, r : r \in GrantedRoles(u, o)' <=> r \in roles' /\ HasRole(u, o, r)'
  BY DEF GrantedRoles, HasRole
<1>3. \A g, k : k \in PermissionKeysForGroup(g)'
                  <=> \E r \in {r \in roles' : <<g, r>> \in groupRoles'} : k \in perms'[r]
  BY DEF PermissionKeysForGroup, PermissionKeysForRoles
<1> QED BY <1>1, <1>2, <1>3

(* A superadmin's request, or one that such a request has overtaken. *)
Sovereign(t) == IsSuperadmin(task[t].held) \/ task[t].blessed

LEMMA WrittenDoes ==
  ASSUME RequestsSound, NEW t \in Tasks, Written(t)
  PROVE  /\ task' \in [Tasks -> TaskRecords] /\ task'[t] = Rest /\ tasks' = tasks
         /\ \A s \in Tasks \ {t} :
              \/ task[s] = Rest /\ task'[s] = Rest
              \/ /\ task'[s].op = task[s].op /\ task'[s].held = task[s].held /\ task'[s].arg = task[s].arg
                 /\ task'[s].outrun = TRUE /\ task'[s].blessed = (task[s].blessed \/ Sovereign(t))
                 /\ \A x \in Memberships : joined'[x] = "none" => x \in task'[s].parted
         /\ vested' = IF Sovereign(t)
                        THEN [o \in Orgs |-> vested[o] \cup UNION {Granted(u, o)' : u \in Users}]
                        ELSE vested
<1> DEFINE gone == {x \in Users \X Orgs : joined'[x] = "none"}
<1> DEFINE y(s) == (task[s].blessed \/ Sovereign(t))
<1> DEFINE passed(s) == [task[s] EXCEPT !.outrun = TRUE, !.blessed = y(s), !.parted = @ \cup gone]
<1>1. task \in [Tasks -> TaskRecords]
  BY DEF RequestsSound
<1>2. /\ task' = [s \in Tasks |-> CASE s = t -> Rest [] s # t /\ task[s] = Rest -> Rest [] OTHER -> passed(s)]
      /\ tasks' = tasks
      /\ vested' = IF Sovereign(t)
                     THEN [o \in Orgs |-> vested[o] \cup UNION {Granted(u, o)' : u \in Users}] ELSE vested
  BY <1>1 DEF Written, Sovereign, TaskRecords
<1>3. \A s \in Tasks : y(s) \in BOOLEAN
  OBVIOUS
<1>4. gone \subseteq Memberships /\ \A x \in Memberships : joined'[x] = "none" => x \in gone
  BY DEF Memberships
<1> HIDE DEF gone, y
<1>5. ASSUME NEW s \in Tasks
      PROVE  /\ passed(s) \in TaskRecords /\ passed(s).op = task[s].op /\ passed(s).held = task[s].held
             /\ passed(s).arg = task[s].arg /\ passed(s).outrun = TRUE /\ passed(s).blessed = y(s)
             /\ passed(s).parted = task[s].parted \cup gone
  <2>1. task[s] \in TaskRecords /\ y(s) \in BOOLEAN
    BY <1>1, <1>3
  <2> DEFINE b == y(s)
  <2> HIDE DEF b
  <2>2. b \in BOOLEAN /\ passed(s) = [task[s] EXCEPT !.outrun = TRUE, !.blessed = b, !.parted = @ \cup gone]
    BY <2>1 DEF b
  <2>3. (task[s].parted \cup gone) \in SUBSET Memberships
    BY <1>4, <2>1 DEF TaskRecords
  <2> HIDE DEF passed
  <2> QED BY <2>1, <2>2, <2>3 DEF TaskRecords, b
<1> HIDE DEF passed
<1>6. task' \in [Tasks -> TaskRecords] /\ task'[t] = Rest
  BY <1>2, <1>5, RestingTask
<1>7. \A s \in Tasks \ {t} : (task[s] = Rest /\ task'[s] = Rest) \/ task'[s] = passed(s)
  BY <1>2
<1> QED BY <1>2, <1>4, <1>5, <1>6, <1>7 DEF y

(* A write by anybody else confers only what is vested where it confers it. *)
Modest ==
  /\ \A r \in Roles : \/ perms'[r] \subseteq perms[r]
                      \/ RoleOrg[r] \in Orgs /\ perms'[r] \subseteq perms[r] \cup vested[RoleOrg[r]]
  /\ \A x \in assigned' : x \in assigned \/ (x[3] \in roles /\ perms[x[3]] \subseteq vested[x[2]])
  /\ \A x \in groupRoles' : x \in groupRoles \/ perms[x[2]] \subseteq vested[GroupOrg[x[1]]]
  /\ \A x \in groupMembers' : x \in groupMembers \/ PermissionKeysForGroup(x[1]) \subseteq vested[GroupOrg[x[1]]]

LEMMA ModestKeepsVested ==
  ASSUME DirectorySound, DirectorySound', NoEscalation, Modest, vested' = vested
  PROVE  NoEscalation'
<1> SUFFICES ASSUME NEW o \in Orgs, NEW u \in Users, NEW k \in Granted(u, o)' PROVE k \in vested[o]
  BY DEF NoEscalation
<1>1. PICK r \in roles' : HasRole(u, o, r)' /\ k \in perms'[r]
  BY GrantedByRolesNext
<1>2. r \in Roles
  BY DEF DirectorySound
<1>3. RoleOrg[r] \in {o, Global} => (k \in perms[r] \/ k \in vested[o])
  BY <1>1, <1>2, ConsoleAssumption DEF Modest
<1>4. CASE <<u, o, r>> \in assigned'
  <2>1. RoleOrg[r] \in {o, Global}
    BY <1>4 DEF DirectorySound, Assignments
  <2>2. CASE <<u, o, r>> \in assigned
    <3>1. r \in roles /\ HasRole(u, o, r)
      BY <2>2 DEF DirectorySound, HasRole
    <3> QED BY <1>3, <2>1, <3>1, GrantedByRoles DEF NoEscalation
  <2>3. CASE <<u, o, r>> \notin assigned
    <3>1. perms[r] \subseteq vested[o]
      BY <1>4, <2>3 DEF Modest
    <3> QED BY <1>3, <2>1, <3>1
  <2> QED BY <2>2, <2>3
<1>5. ASSUME NEW g \in groups', GroupOrg[g] = o, <<g, r>> \in groupRoles', <<g, u>> \in groupMembers'
      PROVE  k \in vested[o]
  <2>1. RoleOrg[r] = o
    BY <1>5 DEF DirectorySound
  <2>2. SUFFICES ASSUME k \in perms[r] PROVE k \in vested[o]
    BY <1>3, <2>1
  <2>3. CASE <<g, r>> \notin groupRoles
    BY <1>5, <2>2, <2>3 DEF Modest
  <2>4. CASE <<g, r>> \in groupRoles /\ <<g, u>> \notin groupMembers
    <3>1. r \in roles
      BY <2>4 DEF DirectorySound
    <3>2. k \in PermissionKeysForGroup(g)
      BY <2>2, <2>4, <3>1, GrantedByRoles
    <3> QED BY <1>5, <2>4, <3>2 DEF Modest
  <2>5. CASE <<g, r>> \in groupRoles /\ <<g, u>> \in groupMembers
    <3>1. r \in roles /\ HasRole(u, o, r)
      BY <1>5, <2>5 DEF DirectorySound, HasRole
    <3> QED BY <2>2, <3>1, GrantedByRoles DEF NoEscalation
  <2> QED BY <2>3, <2>4, <2>5
<1> QED BY <1>1, <1>4, <1>5 DEF HasRole

(* It leaves what the others have been found to confer vested. *)
LEMMA ModestKeepsConferred ==
  ASSUME DirectorySound, DirectorySound', Modest, vested' = vested,
         NEW op \in Operations, NEW x, Named(op, x), Conferred(op, x)
  PROVE  Conferred(op, x)'
<1>1. ASSUME op = "assign_role" PROVE perms'[x[3]] \subseteq vested[x[2]]
  <2>1. x[3] \in Roles /\ RoleOrg[x[3]] \in {x[2], Global} /\ perms[x[3]] \subseteq vested[x[2]]
    BY <1>1 DEF Named, Assignments, Conferred
  <2> QED BY <2>1, ConsoleAssumption DEF Modest
<1>2. ASSUME op = "duplicate_role"
      PROVE  RoleOrg[x[1]] \in Orgs /\ perms'[x[1]] \subseteq vested[RoleOrg[x[1]]]
  <2>1. x[1] \in Roles /\ RoleOrg[x[1]] \in Orgs /\ perms[x[1]] \subseteq vested[RoleOrg[x[1]]]
    BY <1>2 DEF Named, Copies, Conferred
  <2> QED BY <2>1 DEF Modest
<1>3. ASSUME op = "edit_group_roles", NEW r \in x[2] PROVE perms'[r] \subseteq vested[GroupOrg[x[1]]]
  <2>1. r \in Roles /\ RoleOrg[r] = GroupOrg[x[1]] /\ perms[r] \subseteq vested[GroupOrg[x[1]]]
    BY <1>3 DEF Named, GroupEdits, Conferred
  <2> QED BY <2>1 DEF Modest
<1>4. ASSUME op = "add_group_members", NEW k \in PermissionKeysForGroup(x[1])' PROVE k \in vested[GroupOrg[x[1]]]
  <2>1. PICK r \in roles' : <<x[1], r>> \in groupRoles' /\ k \in perms'[r]
    BY <1>4, GrantedByRolesNext
  <2>2. r \in Roles /\ RoleOrg[r] = GroupOrg[x[1]]
    BY <2>1 DEF DirectorySound
  <2>3. PermissionKeysForGroup(x[1]) \subseteq vested[GroupOrg[x[1]]]
    BY <1>4 DEF Conferred
  <2>4. perms[r] \subseteq vested[GroupOrg[x[1]]]
    <3>1. CASE <<x[1], r>> \in groupRoles
      <4>1. r \in roles
        BY <3>1 DEF DirectorySound
      <4> QED BY <2>3, <3>1, <4>1, GrantedByRoles
    <3>2. CASE <<x[1], r>> \notin groupRoles
      BY <2>1, <3>2 DEF Modest
    <3> QED BY <3>1, <3>2
  <2> QED BY <2>1, <2>2, <2>4 DEF Modest
<1>5. op = "edit_permissions" => RoleOrg[x[1]] \in Orgs /\ x[2] \subseteq vested[RoleOrg[x[1]]]
  BY DEF Conferred
<1>6. op = "add_group_members" => PermissionKeysForGroup(x[1])' \subseteq vested[GroupOrg[x[1]]]
  BY <1>4
<1> QED BY <1>1, <1>2, <1>3, <1>5, <1>6 DEF Conferred

(* Of the grants that a write takes from anyone, its caller holds the keys. *)
Taken(t) == \A u, o, k : k \in Granted(u, o) /\ k \notin Granted(u, o)' => k \in task[t].held

(* What is to be shown of each write. *)
WriteIsSound(t) ==
  /\ DirectorySound' /\ NoDormantGrant' /\ late' \subseteq Memberships
  /\ Written(t)
  /\ Sovereign(t) \/ Modest
  /\ \/ IsSuperadmin(task[t].held)
     \/ task[t].outrun /\ task[t].op # "remove_memberships"
     \/ Taken(t)

LEMMA WrittenKeeps ==
  ASSUME ConsoleInvariant, NEW t \in Tasks, WriteIsSound(t)
  PROVE  ConsoleInvariant'
<1>1. DirectorySound /\ RequestsSound /\ NoEscalation /\ task \in [Tasks -> TaskRecords]
  BY DEF ConsoleInvariant, RequestsSound
<1>2. /\ DirectorySound' /\ NoDormantGrant' /\ late' \subseteq Memberships /\ Written(t)
      /\ Sovereign(t) \/ Modest
  BY DEF WriteIsSound
<1>3. /\ task' \in [Tasks -> TaskRecords] /\ task'[t] = Rest /\ tasks' = tasks
      /\ \A s \in Tasks \ {t} :
           \/ task[s] = Rest /\ task'[s] = Rest
           \/ /\ task'[s].op = task[s].op /\ task'[s].held = task[s].held /\ task'[s].arg = task[s].arg
              /\ task'[s].outrun = TRUE /\ task'[s].blessed = (task[s].blessed \/ Sovereign(t))
              /\ \A x \in Memberships : joined'[x] = "none" => x \in task'[s].parted
      /\ vested' = IF Sovereign(t)
                     THEN [o \in Orgs |-> vested[o] \cup UNION {Granted(u, o)' : u \in Users}] ELSE vested
  BY <1>1, <1>2, WrittenDoes
<1>4. vested' \in [Orgs -> SUBSET Keys]
  <2>1. \A u, o : Granted(u, o)' \subseteq Keys
    BY <1>2, GrantedByRolesNext DEF DirectorySound
  <2>2. vested \in [Orgs -> SUBSET Keys]
    BY <1>1 DEF RequestsSound
  <2> QED BY <1>3, <2>1, <2>2
<1>5. RequestsSound'
  <2>1. \A s \in Tasks : Named(task'[s].op, task'[s].arg)
    BY <1>1, <1>3, RestingTask DEF RequestsSound
  <2>2. tasks' \in 0..MaxTasks
    BY <1>1, <1>3 DEF RequestsSound
  <2> QED BY <1>2, <1>3, <1>4, <2>1, <2>2 DEF RequestsSound
<1>6. NoEscalation'
  <2>1. CASE Sovereign(t)
    <3>1. vested' = [o \in Orgs |-> vested[o] \cup UNION {Granted(u, o)' : u \in Users}]
      BY <1>3, <2>1
    <3> QED BY <3>1 DEF NoEscalation
  <2>2. CASE ~Sovereign(t)
    BY <1>1, <1>2, <1>3, <2>2, ModestKeepsVested
  <2> QED BY <2>1, <2>2
<1>7. ASSUME NEW s \in Tasks, task'[s].op = "rest" PROVE TaskConferred(s)' /\ TaskMeasured(s)' /\ TaskExpected(s)'
  BY <1>7 DEF TaskConferred, TaskMeasured, TaskExpected, Conferred, Measured, Expected
<1>8. ASSUME NEW s \in Tasks \ {t}, task'[s].op # "rest"
      PROVE  TaskConferred(s)' /\ TaskMeasured(s)' /\ TaskExpected(s)'
  <2>1. /\ task'[s].op = task[s].op /\ task'[s].held = task[s].held /\ task'[s].arg = task[s].arg
        /\ task'[s].outrun = TRUE /\ task'[s].blessed = (task[s].blessed \/ Sovereign(t))
        /\ \A x \in Memberships : joined'[x] = "none" => x \in task'[s].parted
    BY <1>3, <1>8, RestingTask
  <2>2. task[s].op \in Operations /\ Named(task[s].op, task[s].arg) /\ TaskConferred(s)
    BY <1>1, <1>8, <2>1 DEF ConsoleInvariant, RequestsSound, TaskRecords
  <2>3. TaskMeasured(s)'
    BY <2>1 DEF TaskMeasured
  <2>4. TaskExpected(s)'
    <3>2. CASE task[s].op = "assign_role"
      <4>1. <<task[s].arg[1], task[s].arg[2]>> \in Memberships
        BY <2>2, <3>2 DEF Named, Assignments, Memberships
      <4> QED BY <2>1, <3>2, <4>1 DEF TaskExpected, Expected
    <3>3. CASE task[s].op = "add_group_members"
      <4>1. \A u \in task[s].arg[2] : <<u, GroupOrg[task[s].arg[1]]>> \in Memberships
        BY <2>2, <3>3, ConsoleAssumption DEF Named, Memberships
      <4> QED BY <2>1, <3>3, <4>1 DEF TaskExpected, Expected
    <3> QED BY <2>1, <3>2, <3>3 DEF TaskExpected, Expected
  <2>5. TaskConferred(s)'
    <3>1. CASE IsSuperadmin(task[s].held) \/ task[s].blessed \/ Sovereign(t)
      BY <2>1, <3>1 DEF TaskConferred, IsSuperadmin
    <3>2. CASE ~(IsSuperadmin(task[s].held) \/ task[s].blessed \/ Sovereign(t))
      <4>1. PICK p, y : p \in Operations /\ p = task[s].op /\ y = task[s].arg
        BY <2>2
      <4>2. Named(p, y) /\ Conferred(p, y) /\ Modest /\ vested' = vested
        BY <1>2, <1>3, <2>2, <3>2, <4>1 DEF TaskConferred
      <4>3. Conferred(p, y)'
        BY <1>1, <1>2, <4>1, <4>2, ModestKeepsConferred
      <4>4. p = task'[s].op /\ y = task'[s].arg
        BY <2>1, <4>1
      <4> QED BY <4>3, <4>4 DEF TaskConferred, Conferred
    <3> QED BY <3>1, <3>2
  <2> QED BY <2>3, <2>4, <2>5
<1>9. \A s \in Tasks : TaskConferred(s)' /\ TaskMeasured(s)' /\ TaskExpected(s)'
  BY <1>3, <1>7, <1>8, RestingTask
<1> QED BY <1>2, <1>5, <1>6, <1>9 DEF ConsoleInvariant

(* Grants that only go where they were leave nothing dormant. *)
LEMMA NothingDormant ==
  ASSUME NoDormantGrant, late' = late, assigned' \subseteq assigned, groupMembers' \subseteq groupMembers,
         \A u \in Users, o \in Orgs : joined'[<<u, o>>] = "none" => joined[<<u, o>>] = "none"
  PROVE  NoDormantGrant'
<1>1. \A u \in Users, o \in Orgs : HasGrant(u, o)' => HasGrant(u, o)
  BY DEF HasGrant
<1> QED BY <1>1 DEF NoDormantGrant

(* A directory that only grows takes nothing. *)
LEMMA NothingTaken ==
  ASSUME NEW t \in Tasks, roles \subseteq roles', assigned \subseteq assigned', groups \subseteq groups',
         groupRoles \subseteq groupRoles', groupMembers \subseteq groupMembers',
         \A r \in roles : perms[r] \subseteq perms'[r]
  PROVE  Taken(t)
<1>1. ASSUME NEW u, NEW o, NEW k, k \in Granted(u, o) PROVE k \in Granted(u, o)'
  <2>1. PICK r \in roles : HasRole(u, o, r) /\ k \in perms[r]
    BY <1>1, GrantedByRoles
  <2>2. HasRole(u, o, r)' /\ r \in roles' /\ k \in perms'[r]
    BY <2>1 DEF HasRole
  <2> QED BY <2>2, GrantedByRolesNext
<1> QED BY <1>1 DEF Taken

(* What the invariant says of the request that writes. *)
LEMMA Writer ==
  ASSUME ConsoleInvariant, NEW t \in Tasks
  PROVE  /\ DirectorySound /\ NoDormantGrant /\ late \subseteq Memberships
         /\ Named(task[t].op, task[t].arg)
         /\ Sovereign(t) \/ Conferred(task[t].op, task[t].arg)
         /\ IsSuperadmin(task[t].held) \/ task[t].outrun \/ Measured(task[t].op, task[t].arg, task[t].held)
         /\ Expected(task[t].op, task[t].arg, task[t].parted)
BY DEF ConsoleInvariant, RequestsSound, TaskConferred, TaskMeasured, TaskExpected, Sovereign

LEMMA AssignRoleSound ==
  ASSUME ConsoleInvariant, NEW t \in Tasks, AssignRole(t)
  PROVE  WriteIsSound(t)
<1> DEFINE x == task[t].arg
<1>1. /\ task[t].op = "assign_role" /\ x[3] \in roles /\ assigned' = assigned \cup {x} /\ Written(t)
      /\ late' = late \cup (({x[1]} \X {x[2]}) \cap task[t].parted)
      /\ UNCHANGED <<catalogue, roles, perms, groups, groupRoles, groupMembers, joined>>
  BY DEF AssignRole, Receives
<1> HIDE DEF x
<1>2. x \in Assignments /\ DirectorySound /\ NoDormantGrant /\ late \subseteq Memberships
  BY <1>1, Writer DEF Named, x
<1>3. DirectorySound'
  BY <1>1, <1>2 DEF DirectorySound
<1>4. joined[<<x[1], x[2]>>] # "none" \/ <<x[1], x[2]>> \in task[t].parted
  BY <1>1, Writer DEF Expected, x
<1>5. <<x[1], x[2]>> \in Memberships /\ x[1] \in Users /\ x[2] \in Orgs /\ x[3] \in Roles
  BY <1>2 DEF Assignments, Memberships
<1>6. late' \subseteq Memberships /\ late \subseteq late'
  BY <1>1, <1>2, <1>5
<1>7. NoDormantGrant'
  <2> SUFFICES ASSUME NEW u \in Users, NEW o \in Orgs, joined[<<u, o>>] = "none", HasGrant(u, o)'
               PROVE  <<u, o>> \in late'
    BY <1>1 DEF NoDormantGrant
  <2>1. CASE HasGrant(u, o)
    BY <1>2, <1>6, <2>1 DEF NoDormantGrant
  <2>2. CASE ~HasGrant(u, o)
    <3>1. u = x[1] /\ o = x[2]
      BY <1>1, <2>2 DEF HasGrant
    <3> QED BY <1>1, <1>4, <3>1
  <2> QED BY <2>1, <2>2
<1>8. Sovereign(t) \/ Modest
  <2>1. Sovereign(t) \/ perms[x[3]] \subseteq vested[x[2]]
    BY <1>1, Writer DEF Conferred, x
  <2> QED BY <1>1, <2>1 DEF Modest
<1>9. Taken(t)
  BY <1>1, NothingTaken
<1> QED BY <1>1, <1>3, <1>6, <1>7, <1>8, <1>9 DEF WriteIsSound

LEMMA RevokeRoleSound ==
  ASSUME ConsoleInvariant, NEW t \in Tasks, RevokeRole(t)
  PROVE  WriteIsSound(t)
<1> DEFINE x == task[t].arg
<1>1. /\ task[t].op = "revoke_role" /\ assigned' = assigned \ {x} /\ Written(t)
      /\ UNCHANGED <<catalogue, roles, perms, groups, groupRoles, groupMembers, joined, late>>
  BY DEF RevokeRole
<1> HIDE DEF x
<1>2. x \in Assignments /\ DirectorySound /\ NoDormantGrant /\ late \subseteq Memberships
  BY <1>1, Writer DEF Named, x
<1>3. DirectorySound'
  BY <1>1, <1>2 DEF DirectorySound
<1>4. NoDormantGrant'
  BY <1>1, <1>2, NothingDormant
<1>5. Modest
  BY <1>1 DEF Modest
<1>6. ASSUME ~IsSuperadmin(task[t].held), ~task[t].outrun PROVE Taken(t)
  <2>1. perms[x[3]] \subseteq task[t].held
    BY <1>1, <1>6, Writer DEF Measured, x
  <2>2. SUFFICES ASSUME NEW u, NEW o, NEW k, k \in Granted(u, o), k \notin Granted(u, o)' PROVE k \in task[t].held
    BY DEF Taken
  <2>3. PICK r \in roles : HasRole(u, o, r) /\ k \in perms[r]
    BY <2>2, GrantedByRoles
  <2>4. ~HasRole(u, o, r)'
    BY <1>1, <2>2, <2>3, GrantedByRolesNext
  <2>5. x = <<u, o, r>>
    BY <1>1, <2>3, <2>4 DEF HasRole
  <2> QED BY <2>1, <2>3, <2>5
<1> QED BY <1>1, <1>2, <1>3, <1>4, <1>5, <1>6 DEF WriteIsSound

LEMMA CreateRoleSound ==
  ASSUME ConsoleInvariant, NEW t \in Tasks, CreateRole(t)
  PROVE  WriteIsSound(t)
<1>1. /\ task[t].op = "create_role" /\ roles' = roles \cup {task[t].arg} /\ Written(t)
      /\ UNCHANGED <<catalogue, perms, assigned, groups, groupRoles, groupMembers, joined, late>>
  BY DEF CreateRole
<1>2. task[t].arg \in Roles /\ DirectorySound /\ NoDormantGrant /\ late \subseteq Memberships
  BY <1>1, Writer DEF Named
<1>3. DirectorySound'
  BY <1>1, <1>2 DEF DirectorySound
<1>4. NoDormantGrant'
  BY <1>1, <1>2, NothingDormant
<1>5. Modest
  BY <1>1 DEF Modest
<1>6. Taken(t)
  BY <1>1, NothingTaken
<1> QED BY <1>1, <1>2, <1>3, <1>4, <1>5, <1>6 DEF WriteIsSound

LEMMA DuplicateRoleSound ==
  ASSUME ConsoleInvariant, NEW t \in Tasks, DuplicateRole(t)
  PROVE  WriteIsSound(t)
<1> DEFINE r == task[t].arg[1]
<1> DEFINE new == task[t].arg[2]
<1>1. /\ task[t].op = "duplicate_role" /\ new \notin roles /\ roles' = roles \cup {new}
      /\ perms' = [perms EXCEPT ![new] = perms[r]] /\ Written(t)
      /\ UNCHANGED <<catalogue, assigned, groups, groupRoles, groupMembers, joined, late>>
  BY DEF DuplicateRole
<1>2. r \in Roles /\ new \in Roles /\ RoleOrg[r] = RoleOrg[new] /\ DirectorySound /\ NoDormantGrant /\ late \subseteq Memberships
  BY <1>1, Writer DEF Named, Copies
<1>3. Sovereign(t) \/ (RoleOrg[r] \in Orgs /\ perms[r] \subseteq vested[RoleOrg[r]])
  BY <1>1, Writer DEF Conferred
<1> HIDE DEF r, new
<1>4. \A s \in Roles : perms'[s] = IF s = new THEN perms[r] ELSE perms[s]
  BY <1>1, <1>2 DEF DirectorySound
<1>5. DirectorySound'
  <2>1. perms' \in [Roles -> SUBSET Keys]
    BY <1>1, <1>2 DEF DirectorySound
  <2>2. \A s \in Roles : perms'[s] \subseteq catalogue'
    BY <1>1, <1>2, <1>4 DEF DirectorySound
  <2>3. \A s \in Roles \ roles' : perms'[s] = {}
    BY <1>1, <1>2, <1>4 DEF DirectorySound
  <2> QED BY <1>1, <1>2, <2>1, <2>2, <2>3 DEF DirectorySound
<1>6. NoDormantGrant'
  BY <1>1, <1>2, NothingDormant
<1>7. Sovereign(t) \/ Modest
  BY <1>1, <1>2, <1>3, <1>4 DEF Modest
<1>8. Taken(t)
  <2>1. \A s \in roles : perms[s] \subseteq perms'[s]
    BY <1>1, <1>2, <1>4 DEF DirectorySound
  <2> QED BY <1>1, <2>1, NothingTaken
<1> QED BY <1>1, <1>2, <1>5, <1>6, <1>7, <1>8 DEF WriteIsSound

LEMMA EditPermissionsSound ==
  ASSUME ConsoleInvariant, NEW t \in Tasks, EditPermissions(t)
  PROVE  WriteIsSound(t)
<1> DEFINE r == task[t].arg[1]
<1> DEFINE add == task[t].arg[2]
<1> DEFINE remove == task[t].arg[3]
<1>1. /\ task[t].op = "edit_permissions" /\ (r \in roles \/ add = {}) /\ add \subseteq catalogue
      /\ perms' = [perms EXCEPT ![r] = (@ \cup add) \ remove] /\ Written(t)
      /\ UNCHANGED <<catalogue, roles, assigned, groups, groupRoles, groupMembers, joined, late>>
  BY DEF EditPermissions
<1>2. r \in Roles /\ add \subseteq Keys /\ remove \subseteq Keys /\ DirectorySound /\ NoDormantGrant /\ late \subseteq Memberships
  BY <1>1, Writer DEF Named
<1>3. Sovereign(t) \/ (RoleOrg[r] \in Orgs /\ add \subseteq vested[RoleOrg[r]])
  BY <1>1, Writer DEF Conferred
<1>4. IsSuperadmin(task[t].held) \/ task[t].outrun \/ remove \subseteq task[t].held
  BY <1>1, Writer DEF Measured
<1> HIDE DEF r, add, remove
<1>5. \A s \in Roles : perms'[s] = IF s = r THEN (perms[r] \cup add) \ remove ELSE perms[s]
  BY <1>1, <1>2 DEF DirectorySound
<1>6. DirectorySound'
  <2>1. perms' \in [Roles -> SUBSET Keys]
    BY <1>1, <1>2 DEF DirectorySound
  <2>2. \A s \in Roles : perms'[s] \subseteq catalogue'
    BY <1>1, <1>2, <1>5 DEF DirectorySound
  <2>3. \A s \in Roles \ roles' : perms'[s] = {}
    BY <1>1, <1>2, <1>5 DEF DirectorySound
  <2> QED BY <1>1, <1>2, <2>1, <2>2, <2>3 DEF DirectorySound
<1>7. NoDormantGrant'
  BY <1>1, <1>2, NothingDormant
<1>8. Sovereign(t) \/ Modest
  BY <1>1, <1>2, <1>3, <1>5 DEF Modest
<1>9. ASSUME remove \subseteq task[t].held PROVE Taken(t)
  <2>1. SUFFICES ASSUME NEW u, NEW o, NEW k, k \in Granted(u, o), k \notin Granted(u, o)' PROVE k \in task[t].held
    BY DEF Taken
  <2>2. PICK s \in roles : HasRole(u, o, s) /\ k \in perms[s]
    BY <2>1, GrantedByRoles
  <2>3. HasRole(u, o, s)' /\ s \in roles'
    BY <1>1, <2>2 DEF HasRole
  <2>4. k \notin perms'[s] /\ s \in Roles
    BY <1>2, <2>1, <2>3, GrantedByRolesNext DEF DirectorySound
  <2> QED BY <1>5, <1>9, <2>2, <2>4
<1> QED BY <1>1, <1>2, <1>4, <1>6, <1>7, <1>8, <1>9 DEF WriteIsSound

LEMMA DeleteRoleSound ==
  ASSUME ConsoleInvariant, NEW t \in Tasks, DeleteRole(t)
  PROVE  WriteIsSound(t)
<1> DEFINE r == task[t].arg
<1>1. /\ task[t].op = "delete_role" /\ ~RoleInUse(r) /\ roles' = roles \ {r}
      /\ perms' = [perms EXCEPT ![r] = {}] /\ groupRoles' = {x \in groupRoles : x[2] # r} /\ Written(t)
      /\ UNCHANGED <<catalogue, assigned, groups, groupMembers, joined, late>>
  BY DEF DeleteRole
<1>2. r \in Roles /\ DirectorySound /\ NoDormantGrant /\ late \subseteq Memberships
  BY <1>1, Writer DEF Named
<1> HIDE DEF r
<1>3. \A s \in Roles : perms'[s] = IF s = r THEN {} ELSE perms[s]
  BY <1>1, <1>2 DEF DirectorySound
<1>4. (\A x \in assigned : x[3] # r) /\ groupRoles' = groupRoles /\ \A x \in groupRoles : x[2] # r
  BY <1>1 DEF RoleInUse
<1>5. DirectorySound'
  <2>1. perms' \in [Roles -> SUBSET Keys]
    BY <1>1, <1>2 DEF DirectorySound
  <2>2. \A s \in Roles : perms'[s] \subseteq catalogue'
    BY <1>1, <1>2, <1>3 DEF DirectorySound
  <2>3. \A s \in Roles \ roles' : perms'[s] = {}
    BY <1>1, <1>2, <1>3 DEF DirectorySound
  <2> QED BY <1>1, <1>2, <1>4, <2>1, <2>2, <2>3 DEF DirectorySound
<1>6. NoDormantGrant'
  BY <1>1, <1>2, NothingDormant
<1>7. Modest
  BY <1>1, <1>2, <1>3, <1>4 DEF Modest
<1>8. Taken(t)
  <2>1. SUFFICES ASSUME NEW u, NEW o, NEW k, k \in Granted(u, o) PROVE k \in Granted(u, o)'
    BY DEF Taken
  <2>2. PICK s \in roles : HasRole(u, o, s) /\ k \in perms[s]
    BY <2>1, GrantedByRoles
  <2>3. s # r /\ s \in Roles
    BY <1>2, <1>4, <2>2 DEF HasRole, DirectorySound
  <2>4. HasRole(u, o, s)' /\ s \in roles' /\ k \in perms'[s]
    BY <1>1, <1>3, <1>4, <2>2, <2>3 DEF HasRole
  <2> QED BY <2>4, GrantedByRolesNext
<1> QED BY <1>1, <1>2, <1>5, <1>6, <1>7, <1>8 DEF WriteIsSound

LEMMA CreateGroupSound ==
  ASSUME ConsoleInvariant, NEW t \in Tasks, CreateGroup(t)
  PROVE  WriteIsSound(t)
<1>1. /\ task[t].op = "create_group" /\ groups' = groups \cup {task[t].arg} /\ Written(t)
      /\ UNCHANGED <<catalogue, roles, perms, assigned, groupRoles, groupMembers, joined, late>>
  BY DEF CreateGroup
<1>2. task[t].arg \in Groups /\ DirectorySound /\ NoDormantGrant /\ late \subseteq Memberships
  BY <1>1, Writer DEF Named
<1>3. DirectorySound'
  BY <1>1, <1>2 DEF DirectorySound
<1>4. NoDormantGrant'
  BY <1>1, <1>2, NothingDormant
<1>5. Modest
  BY <1>1 DEF Modest
<1>6. Taken(t)
  BY <1>1, NothingTaken
<1> QED BY <1>1, <1>2, <1>3, <1>4, <1>5, <1>6 DEF WriteIsSound

LEMMA DeleteGroupSound ==
  ASSUME ConsoleInvariant, NEW t \in Tasks, DeleteGroup(t)
  PROVE  WriteIsSound(t)
<1> DEFINE g == task[t].arg
<1>1. /\ task[t].op = "delete_group" /\ groups' = groups \ {g}
      /\ groupRoles' = {x \in groupRoles : x[1] # g} /\ groupMembers' = {x \in groupMembers : x[1] # g} /\ Written(t)
      /\ UNCHANGED <<catalogue, roles, perms, assigned, joined, late>>
  BY DEF DeleteGroup
<1>2. g \in Groups /\ DirectorySound /\ NoDormantGrant /\ late \subseteq Memberships
  BY <1>1, Writer DEF Named
<1>3. IsSuperadmin(task[t].held) \/ task[t].outrun \/ PermissionKeysForGroup(g) \subseteq task[t].held
  BY <1>1, Writer DEF Measured
<1> HIDE DEF g
<1>4. DirectorySound'
  BY <1>1, <1>2 DEF DirectorySound
<1>5. NoDormantGrant'
  BY <1>1, <1>2, NothingDormant
<1>6. Modest
  BY <1>1 DEF Modest
<1>7. ASSUME PermissionKeysForGroup(g) \subseteq task[t].held PROVE Taken(t)
  <2>1. SUFFICES ASSUME NEW u, NEW o, NEW k, k \in Granted(u, o), k \notin Granted(u, o)' PROVE k \in task[t].held
    BY DEF Taken
  <2>2. PICK r \in roles : HasRole(u, o, r) /\ k \in perms[r]
    BY <2>1, GrantedByRoles
  <2>3. ~HasRole(u, o, r)'
    BY <1>1, <2>1, <2>2, GrantedByRolesNext
  <2>4. <<g, r>> \in groupRoles
    BY <1>1, <2>2, <2>3 DEF HasRole
  <2> QED BY <1>7, <2>2, <2>4, GrantedByRoles
<1> QED BY <1>1, <1>2, <1>3, <1>4, <1>5, <1>6, <1>7 DEF WriteIsSound

LEMMA EditGroupRolesSound ==
  ASSUME ConsoleInvariant, NEW t \in Tasks, EditGroupRoles(t)
  PROVE  WriteIsSound(t)
<1> DEFINE g == task[t].arg[1]
<1> DEFINE add == task[t].arg[2]
<1> DEFINE remove == task[t].arg[3]
<1>1. /\ task[t].op = "edit_group_roles" /\ (add # {} => g \in groups /\ add \subseteq roles)
      /\ groupRoles' = (groupRoles \cup ({g} \X add)) \ ({g} \X remove) /\ Written(t)
      /\ UNCHANGED <<catalogue, roles, perms, assigned, groups, groupMembers, joined, late>>
  BY DEF EditGroupRoles
<1>2. /\ g \in Groups /\ add \subseteq Roles /\ \A r \in add : RoleOrg[r] = GroupOrg[g]
      /\ DirectorySound /\ NoDormantGrant /\ late \subseteq Memberships
  BY <1>1, Writer DEF Named, GroupEdits
<1>3. Sovereign(t) \/ \A r \in add : perms[r] \subseteq vested[GroupOrg[g]]
  BY <1>1, Writer DEF Conferred
<1>4. IsSuperadmin(task[t].held) \/ task[t].outrun \/ \A r \in remove : perms[r] \subseteq task[t].held
  BY <1>1, Writer DEF Measured
<1> HIDE DEF g, add, remove
<1>5. DirectorySound'
  <2>1. groupRoles' \subseteq Groups \X Roles
    BY <1>1, <1>2 DEF DirectorySound
  <2>2. \A x \in groupRoles' : x[1] \in groups' /\ x[2] \in roles' /\ RoleOrg[x[2]] = GroupOrg[x[1]]
    BY <1>1, <1>2 DEF DirectorySound
  <2> QED BY <1>1, <1>2, <2>1, <2>2 DEF DirectorySound
<1>6. NoDormantGrant'
  BY <1>1, <1>2, NothingDormant
<1>7. Sovereign(t) \/ Modest
  BY <1>1, <1>3 DEF Modest
<1>8. ASSUME \A r \in remove : perms[r] \subseteq task[t].held PROVE Taken(t)
  <2>1. SUFFICES ASSUME NEW u, NEW o, NEW k, k \in Granted(u, o), k \notin Granted(u, o)' PROVE k \in task[t].held
    BY DEF Taken
  <2>2. PICK r \in roles : HasRole(u, o, r) /\ k \in perms[r]
    BY <2>1, GrantedByRoles
  <2>3. ~HasRole(u, o, r)'
    BY <1>1, <2>1, <2>2, GrantedByRolesNext
  <2>4. r \in remove
    BY <1>1, <2>2, <2>3 DEF HasRole
  <2> QED BY <1>8, <2>2, <2>4
<1> QED BY <1>1, <1>2, <1>4, <1>5, <1>6, <1>7, <1>8 DEF WriteIsSound

LEMMA AddGroupMembersSound ==
  ASSUME ConsoleInvariant, NEW t \in Tasks, AddGroupMembers(t)
  PROVE  WriteIsSound(t)
<1> DEFINE g == task[t].arg[1]
<1> DEFINE us == task[t].arg[2]
<1>1. /\ task[t].op = "add_group_members" /\ g \in groups
      /\ groupMembers' = groupMembers \cup ({g} \X us) /\ Written(t)
      /\ late' = late \cup ((us \X {GroupOrg[g]}) \cap task[t].parted)
      /\ UNCHANGED <<catalogue, roles, perms, assigned, groups, groupRoles, joined>>
  BY DEF AddGroupMembers, Receives
<1>2. g \in Groups /\ us \subseteq Users /\ DirectorySound /\ NoDormantGrant /\ late \subseteq Memberships
  BY <1>1, Writer DEF Named
<1>3. Sovereign(t) \/ PermissionKeysForGroup(g) \subseteq vested[GroupOrg[g]]
  BY <1>1, Writer DEF Conferred
<1>4. \A u \in us : joined[<<u, GroupOrg[g]>>] # "none" \/ <<u, GroupOrg[g]>> \in task[t].parted
  BY <1>1, Writer DEF Expected
<1> HIDE DEF g, us
<1>5. DirectorySound'
  BY <1>1, <1>2 DEF DirectorySound
<1>6. late' \subseteq Memberships /\ late \subseteq late'
  BY <1>1, <1>2, ConsoleAssumption DEF Memberships
<1>7. NoDormantGrant'
  <2> SUFFICES ASSUME NEW u \in Users, NEW o \in Orgs, joined[<<u, o>>] = "none", HasGrant(u, o)'
               PROVE  <<u, o>> \in late'
    BY <1>1 DEF NoDormantGrant
  <2>1. CASE HasGrant(u, o)
    BY <1>2, <1>6, <2>1 DEF NoDormantGrant
  <2>2. CASE ~HasGrant(u, o)
    <3>1. u \in us /\ o = GroupOrg[g]
      BY <1>1, <2>2 DEF HasGrant
    <3> QED BY <1>1, <1>4, <3>1
  <2> QED BY <2>1, <2>2
<1>8. Sovereign(t) \/ Modest
  BY <1>1, <1>3 DEF Modest
<1>9. Taken(t)
  BY <1>1, NothingTaken
<1> QED BY <1>1, <1>5, <1>6, <1>7, <1>8, <1>9 DEF WriteIsSound

LEMMA RemoveGroupMembersSound ==
  ASSUME ConsoleInvariant, NEW t \in Tasks, RemoveGroupMembers(t)
  PROVE  WriteIsSound(t)
<1> DEFINE g == task[t].arg[1]
<1> DEFINE us == task[t].arg[2]
<1>1. /\ task[t].op = "remove_group_members"
      /\ groupMembers' = groupMembers \ ({g} \X us) /\ Written(t)
      /\ UNCHANGED <<catalogue, roles, perms, assigned, groups, groupRoles, joined, late>>
  BY DEF RemoveGroupMembers
<1>2. DirectorySound /\ NoDormantGrant /\ late \subseteq Memberships
  BY Writer
<1>3. IsSuperadmin(task[t].held) \/ task[t].outrun \/ PermissionKeysForGroup(g) \subseteq task[t].held
  BY <1>1, Writer DEF Measured
<1> HIDE DEF g, us
<1>4. DirectorySound'
  BY <1>1, <1>2 DEF DirectorySound
<1>5. NoDormantGrant'
  BY <1>1, <1>2, NothingDormant
<1>6. Modest
  BY <1>1 DEF Modest
<1>7. ASSUME PermissionKeysForGroup(g) \subseteq task[t].held PROVE Taken(t)
  <2>1. SUFFICES ASSUME NEW u, NEW o, NEW k, k \in Granted(u, o), k \notin Granted(u, o)' PROVE k \in task[t].held
    BY DEF Taken
  <2>2. PICK r \in roles : HasRole(u, o, r) /\ k \in perms[r]
    BY <2>1, GrantedByRoles
  <2>3. ~HasRole(u, o, r)'
    BY <1>1, <2>1, <2>2, GrantedByRolesNext
  <2>4. <<g, r>> \in groupRoles
    BY <1>1, <2>2, <2>3 DEF HasRole
  <2> QED BY <1>7, <2>2, <2>4, GrantedByRoles
<1> QED BY <1>1, <1>2, <1>3, <1>4, <1>5, <1>6, <1>7 DEF WriteIsSound

LEMMA MembershipsSound ==
  ASSUME ConsoleInvariant, NEW t \in Tasks, AddMembership(t) \/ SetMemberships(t)
  PROVE  WriteIsSound(t)
<1> DEFINE x == task[t].arg
<1>1. /\ UNCHANGED <<catalogue, roles, perms, assigned, groups, groupRoles, groupMembers, late>> /\ Written(t)
  BY DEF AddMembership, SetMemberships
<1>2. /\ DirectorySound /\ NoDormantGrant /\ late \subseteq Memberships /\ Named(task[t].op, x)
      /\ joined \in [Memberships -> {"none", "active", "inactive"}]
  BY Writer DEF DirectorySound
<1>3. /\ joined' \in [Memberships -> {"none", "active", "inactive"}]
      /\ \A u \in Users, o \in Orgs : joined'[<<u, o>>] = "none" => joined[<<u, o>>] = "none"
  <2>1. CASE AddMembership(t)
    <3>1. task[t].op = "add_membership" /\ joined' = [joined EXCEPT ![<<x[1], x[2]>>] = x[3]]
      BY <2>1 DEF AddMembership
    <3>2. x[3] \in {"active", "inactive"} /\ <<x[1], x[2]>> \in Memberships
      BY <1>2, <3>1 DEF Named, Standings, Memberships
    <3> HIDE DEF x
    <3> QED BY <1>2, <3>1, <3>2 DEF Memberships
  <2>2. CASE SetMemberships(t)
    <3> DEFINE there == {u \in x[1] : joined[<<u, x[2]>>] # "none"}
    <3>1. task[t].op = "set_memberships"
          /\ joined' = [y \in Users \X Orgs |-> IF y \in there \X {x[2]} THEN x[3] ELSE joined[y]]
      BY <2>2 DEF SetMemberships
    <3>2. x[3] \in {"active", "inactive"}
      BY <1>2, <3>1 DEF Named, Standings
    <3> HIDE DEF x, there
    <3> QED BY <1>2, <3>1, <3>2 DEF Memberships
  <2> QED BY <2>1, <2>2
<1>4. DirectorySound'
  BY <1>1, <1>2, <1>3 DEF DirectorySound
<1>5. NoDormantGrant'
  BY <1>1, <1>2, <1>3, NothingDormant
<1>6. Modest
  BY <1>1 DEF Modest
<1>7. Taken(t)
  BY <1>1, NothingTaken
<1> QED BY <1>1, <1>2, <1>4, <1>5, <1>6, <1>7 DEF WriteIsSound

(* The removal of a membership takes every grant with it, and has measured   *)
(* them.                                                                     *)
LEMMA RemoveMembershipsSound ==
  ASSUME ConsoleInvariant, NEW t \in Tasks, RemoveMemberships(t)
  PROVE  WriteIsSound(t)
<1> DEFINE us == task[t].arg[1]
<1> DEFINE o == task[t].arg[2]
<1>1. /\ task[t].op = "remove_memberships" /\ ~RemovalRefused(t, us, o) /\ Written(t)
      /\ assigned' = {x \in assigned : x[1] \notin us \/ x[2] # o}
      /\ groupMembers' = {x \in groupMembers : x[2] \notin us \/ GroupOrg[x[1]] # o}
      /\ joined' = [y \in Users \X Orgs |-> IF y \in us \X {o} THEN "none" ELSE joined[y]]
      /\ UNCHANGED <<catalogue, roles, perms, groups, groupRoles, late>>
  BY DEF RemoveMemberships
<1>2. us \subseteq Users /\ o \in Orgs /\ DirectorySound /\ NoDormantGrant /\ late \subseteq Memberships
  BY <1>1, Writer DEF Named
<1> HIDE DEF us, o
<1>3. joined' \in [Memberships -> {"none", "active", "inactive"}]
  BY <1>1, <1>2 DEF DirectorySound, Memberships
<1>4. DirectorySound'
  <2>1. assigned' \subseteq assigned /\ groupMembers' \subseteq groupMembers
    BY <1>1
  <2> QED BY <1>1, <1>2, <1>3, <2>1 DEF DirectorySound
<1>5. NoDormantGrant'
  <2> SUFFICES ASSUME NEW u \in Users, NEW p \in Orgs, joined'[<<u, p>>] = "none", HasGrant(u, p)'
               PROVE  <<u, p>> \in late'
    BY DEF NoDormantGrant
  <2>1. ~(u \in us /\ p = o)
    BY <1>1 DEF HasGrant
  <2>2. joined[<<u, p>>] = "none"
    BY <1>1, <2>1
  <2>3. HasGrant(u, p)
    BY <1>1 DEF HasGrant
  <2> QED BY <1>1, <1>2, <2>2, <2>3 DEF NoDormantGrant
<1>6. Modest
  BY <1>1 DEF Modest
<1>7. ASSUME ~IsSuperadmin(task[t].held) PROVE Taken(t)
  <2>1. \A u \in us : Granted(u, o) \subseteq task[t].held
    BY <1>1, <1>7 DEF RemovalRefused, Unheld
  <2>2. SUFFICES ASSUME NEW u, NEW p, NEW k, k \in Granted(u, p), k \notin Granted(u, p)' PROVE k \in task[t].held
    BY DEF Taken
  <2>3. PICK r \in roles : HasRole(u, p, r) /\ k \in perms[r]
    BY <2>2, GrantedByRoles
  <2>4. ~HasRole(u, p, r)'
    BY <1>1, <2>2, <2>3, GrantedByRolesNext
  <2>5. u \in us /\ p = o
    BY <1>1, <2>3, <2>4 DEF HasRole
  <2> QED BY <2>1, <2>2, <2>5
<1> QED BY <1>1, <1>2, <1>4, <1>5, <1>6, <1>7 DEF WriteIsSound

LEMMA CatalogueSound ==
  ASSUME ConsoleInvariant, NEW t \in Tasks, CreatePermission(t) \/ DeletePermission(t)
  PROVE  WriteIsSound(t)
<1>1. UNCHANGED <<roles, perms, assigned, groups, groupRoles, groupMembers, joined, late>> /\ Written(t)
  BY DEF CreatePermission, DeletePermission
<1>2. DirectorySound /\ NoDormantGrant /\ late \subseteq Memberships /\ Named(task[t].op, task[t].arg)
  BY Writer
<1>3. catalogue' \subseteq Keys /\ \A r \in Roles : perms[r] \subseteq catalogue'
  <2>1. CASE CreatePermission(t)
    <3>1. task[t].arg \in Keys /\ catalogue' = catalogue \cup {task[t].arg}
      BY <1>2, <2>1 DEF CreatePermission, Named
    <3> QED BY <1>2, <3>1 DEF DirectorySound
  <2>2. CASE DeletePermission(t)
    <3>1. catalogue' = catalogue \ {task[t].arg} /\ \A r \in roles : task[t].arg \notin perms[r]
      BY <2>2 DEF DeletePermission
    <3> QED BY <1>2, <3>1 DEF DirectorySound
  <2> QED BY <2>1, <2>2
<1>4. DirectorySound'
  BY <1>1, <1>2, <1>3 DEF DirectorySound
<1>5. NoDormantGrant'
  BY <1>1, <1>2, NothingDormant
<1>6. Modest
  BY <1>1 DEF Modest
<1>7. Taken(t)
  BY <1>1, NothingTaken
<1> QED BY <1>1, <1>2, <1>4, <1>5, <1>6, <1>7 DEF WriteIsSound

LEMMA WritesAreSound ==
  ASSUME ConsoleInvariant, NEW t \in Tasks, Write(t)
  PROVE  WriteIsSound(t)
BY AssignRoleSound, RevokeRoleSound, CreateRoleSound, DuplicateRoleSound, EditPermissionsSound, DeleteRoleSound,
   CreateGroupSound, DeleteGroupSound, EditGroupRolesSound, AddGroupMembersSound, RemoveGroupMembersSound,
   MembershipsSound, RemoveMembershipsSound, CatalogueSound DEF Write

(* A request that ends without effect, and a step of nobody. *)
LEMMA IdleKeeps ==
  ASSUME ConsoleInvariant, UNCHANGED <<directory, tasks, vested, late>>,
         task' \in [Tasks -> TaskRecords], \A s \in Tasks : task'[s] = task[s] \/ task'[s] = Rest
  PROVE  ConsoleInvariant'
<1>1. UNCHANGED <<catalogue, roles, perms, assigned, groups, groupRoles, groupMembers, joined, vested, late, tasks>>
  BY DEF directory
<1>2. DirectorySound'
  BY <1>1 DEF ConsoleInvariant, DirectorySound
<1>3. RequestsSound'
  BY <1>1, RestingTask DEF ConsoleInvariant, RequestsSound
<1>4. NoEscalation'
  <2>1. \A u \in Users, o \in Orgs : Granted(u, o)' = Granted(u, o)
    BY <1>1 DEF Granted, PermissionKeysForRoles, GrantedRoles
  <2> QED BY <1>1, <2>1 DEF ConsoleInvariant, NoEscalation
<1>5. NoDormantGrant'
  BY <1>1 DEF ConsoleInvariant, NoDormantGrant, HasGrant
<1>6. ASSUME NEW s \in Tasks PROVE TaskConferred(s)' /\ TaskMeasured(s)' /\ TaskExpected(s)'
  <2>1. CASE task'[s] = Rest
    <3>1. task'[s].op = "rest"
      BY <2>1, RestingTask
    <3> QED BY <3>1 DEF TaskConferred, TaskMeasured, TaskExpected, Conferred, Measured, Expected
  <2>2. CASE task'[s] = task[s]
    <3>1. TaskConferred(s) /\ TaskMeasured(s) /\ TaskExpected(s)
      BY DEF ConsoleInvariant
    <3>2. TaskConferred(s)'
      BY <1>1, <2>2, <3>1 DEF TaskConferred, Conferred, IsSuperadmin, PermissionKeysForGroup, PermissionKeysForRoles
    <3>3. TaskMeasured(s)'
      BY <1>1, <2>2, <3>1 DEF TaskMeasured, Measured, IsSuperadmin, PermissionKeysForGroup, PermissionKeysForRoles
    <3>4. TaskExpected(s)'
      BY <1>1, <2>2, <3>1 DEF TaskExpected, Expected
    <3> QED BY <3>2, <3>3, <3>4
  <2> QED BY <2>1, <2>2
<1> QED BY <1>2, <1>3, <1>4, <1>5, <1>6 DEF ConsoleInvariant

LEMMA EndsDoes ==
  ASSUME ConsoleInvariant, NEW t \in Tasks, Ends(t)
  PROVE  /\ UNCHANGED <<directory, tasks, vested, late>> /\ task' \in [Tasks -> TaskRecords]
         /\ \A s \in Tasks : task'[s] = task[s] \/ task'[s] = Rest
<1>1. task \in [Tasks -> TaskRecords]
  BY DEF ConsoleInvariant, RequestsSound
<1> QED BY <1>1, RestingTask DEF Ends

LEMMA ConsoleSteps ==
  ASSUME ConsoleInvariant, [ConsoleNext]_consoleVars
  PROVE  ConsoleInvariant'
<1>1. ASSUME NEW t \in Tasks, Write(t) PROVE ConsoleInvariant'
  BY <1>1, WritesAreSound, WrittenKeeps
<1>2. ASSUME NEW t \in Tasks, Ends(t) PROVE ConsoleInvariant'
  BY <1>2, EndsDoes, IdleKeeps
<1>3. ASSUME NEW t \in Tasks, NEW a \in Actors, NEW o \in Orgs, tasks > 0, Check(t, Held(a, o), o) PROVE ConsoleInvariant'
  BY <1>3, CheckKeeps
<1>4. CASE UNCHANGED consoleVars
  <2>1. UNCHANGED <<directory, tasks, vested, late>> /\ task' = task
    BY <1>4 DEF consoleVars
  <2>2. task \in [Tasks -> TaskRecords]
    BY DEF ConsoleInvariant, RequestsSound
  <2> QED BY <2>1, <2>2, IdleKeeps
<1> QED BY <1>1, <1>2, <1>3, <1>4 DEF ConsoleNext

(* Every row of the directory has its type and refers to rows that are there. *)
THEOREM ConsoleTyped == ConsoleSpec => []ConsoleTypeOK
<1>1. ConsoleInvariant /\ [ConsoleNext]_consoleVars => ConsoleInvariant'
  BY ConsoleSteps
<1>2. ConsoleInvariant => ConsoleTypeOK
  BY ConsoleTypes DEF ConsoleInvariant
<1> QED BY <1>1, <1>2, ConsoleStarts, PTL DEF ConsoleSpec

(* AUTHZ-3: no interleaving of edits by administrators, however stale their  *)
(* checks, has the members of an organization granted a permission that none *)
(* of them had been granted and no superadmin gave (the conferral bound of   *)
(* the app-roles, roles, permissions and groups routes).                     *)
THEOREM NothingEscalates == ConsoleSpec => []NoEscalation
<1>1. ConsoleInvariant /\ [ConsoleNext]_consoleVars => ConsoleInvariant'
  BY ConsoleSteps
<1>2. ConsoleInvariant => NoEscalation
  BY DEF ConsoleInvariant
<1> QED BY <1>1, <1>2, ConsoleStarts, PTL DEF ConsoleSpec

(* F-12: who is no member of an organization has no grant there, unless it   *)
(* was checked before the removal and written after it.                      *)
THEOREM GrantsGoWithMembership == ConsoleSpec => []NoDormantGrant
<1>1. ConsoleInvariant /\ [ConsoleNext]_consoleVars => ConsoleInvariant'
  BY ConsoleSteps
<1>2. ConsoleInvariant => NoDormantGrant
  BY DEF ConsoleInvariant
<1> QED BY <1>1, <1>2, ConsoleStarts, PTL DEF ConsoleSpec

(* REVOKE-1, as a property of steps: a request that ends takes from nobody a *)
(* permission that its caller did not hold, unless the caller is a           *)
(* superadmin or had looked before another write; the removal of a           *)
(* membership has not even that excuse.                                      *)
THEOREM RevocationIsBounded == ConsoleSpec => BoundedRevocation
<1> DEFINE lost == UNION {Granted(u, o) \ Granted(u, o)' : u \in Users, o \in Orgs}
<1> DEFINE Excused(t) == \/ IsSuperadmin(task[t].held) \/ lost \subseteq task[t].held
                         \/ task[t].outrun /\ task[t].op # "remove_memberships"
<1>1. ConsoleInvariant /\ [ConsoleNext]_consoleVars => ConsoleInvariant'
  BY ConsoleSteps
<1>2. ASSUME ConsoleInvariant, ConsoleNext, NEW s \in Tasks, task[s] # Rest, task'[s] = Rest
      PROVE  Excused(s)
  <2>1. ASSUME NEW t \in Tasks, Write(t) PROVE Excused(s)
    <3>1. WriteIsSound(t)
      BY <1>2, <2>1, WritesAreSound
    <3>2. s = t
      <4>1. Written(t) /\ RequestsSound
        BY <1>2, <3>1 DEF WriteIsSound, ConsoleInvariant
      <4> QED BY <1>2, <4>1, WrittenDoes, RestingTask
    <3>3. CASE Taken(s)
      BY <3>3 DEF Taken
    <3> QED BY <3>1, <3>2, <3>3 DEF WriteIsSound
  <2>2. ASSUME NEW t \in Tasks, Ends(t) PROVE Excused(s)
    <3>1. UNCHANGED <<catalogue, roles, perms, assigned, groups, groupRoles, groupMembers, joined>>
      BY <2>2 DEF Ends, directory
    <3>2. \A u \in Users, o \in Orgs : Granted(u, o)' = Granted(u, o)
      BY <3>1 DEF Granted, PermissionKeysForRoles, GrantedRoles
    <3> QED BY <3>2
  <2>3. ASSUME NEW t \in Tasks, task[t] = Rest, tasks > 0, NEW a \in Actors, NEW o \in Orgs, Check(t, Held(a, o), o)
        PROVE  Excused(s)
    BY <1>2, <2>3, CheckKeeps
  <2> QED BY <1>2, <2>1, <2>2, <2>3 DEF ConsoleNext
<1>3. ConsoleInvariant /\ [ConsoleNext]_consoleVars =>
        [\A t \in Tasks : task[t] # Rest /\ task'[t] = Rest =>
           LET gone == UNION {Granted(u, o) \ Granted(u, o)' : u \in Users, o \in Orgs}
           IN \/ IsSuperadmin(task[t].held) \/ gone \subseteq task[t].held
              \/ task[t].outrun /\ task[t].op # "remove_memberships"]_consoleVars
  BY <1>2
<1> QED BY <1>1, <1>3, ConsoleStarts, PTL DEF ConsoleSpec, BoundedRevocation

(***************************************************************************)
(* Operations: the five parts side by side                                 *)
(***************************************************************************)
OperationsParts == {"access", "borrowing", "rate", "release", "logins"}

LEMMA OperationsStart ==
  ASSUME OperationsInit
  PROVE  /\ ConsoleInit /\ BorrowInit /\ RateInit /\ ReleaseInit /\ LoginInit
         /\ part \in OperationsParts
BY DEF OperationsInit, OperationsParts

(* A step of one part is none of another's. *)
LEMMA OperationsSteps ==
  ASSUME [OperationsNext]_operationsVars
  PROVE  /\ [ConsoleNext]_consoleVars /\ [BorrowNext]_borrowVars /\ [RateNext]_rateVars
         /\ [ReleaseNext]_releaseVars /\ [LoginNext]_loginVars
         /\ part' = part
<1>1. CASE ConsoleStep
  BY <1>1 DEF ConsoleStep
<1>2. CASE BorrowingStep
  BY <1>2 DEF BorrowingStep
<1>3. CASE RateStep
  BY <1>3 DEF RateStep
<1>4. CASE ReleaseStep
  BY <1>4 DEF ReleaseStep
<1>5. CASE LoginStep
  BY <1>5 DEF LoginStep
<1>6. CASE UNCHANGED operationsVars
  BY <1>6 DEF operationsVars
<1>7. QED
  BY <1>1, <1>2, <1>3, <1>4, <1>5, <1>6 DEF OperationsNext

(* Put together, every part still does only what its own specification       *)
(* allows: whatever is proved of a part alone is true of them all.           *)
THEOREM OperationsImplementParts ==
  OperationsSpec => /\ ConsoleSpec /\ BorrowSpec /\ RateSpec /\ ReleaseSpec /\ LoginSpec
BY OperationsStart, OperationsSteps, PTL
DEF OperationsSpec, ConsoleSpec, BorrowSpec, RateSpec, ReleaseSpec, LoginSpec

LEMMA OperationsPartIsFixed == OperationsSpec => [](part \in OperationsParts)
<1>1. (part \in OperationsParts) /\ [OperationsNext]_operationsVars => (part \in OperationsParts)'
  BY OperationsSteps
<1>2. QED
  BY <1>1, OperationsStart, PTL DEF OperationsSpec

(* The state of every part of the operations keeps its type. *)
THEOREM OperationsTyped == OperationsSpec => []OperationsTypeOK
<1>1. ASSUME part \in OperationsParts, ConsoleTypeOK, BorrowTypeOK, RateTypeOK, ReleaseTypeOK, LoginTypeOK
      PROVE  OperationsTypeOK
  BY <1>1 DEF OperationsParts, OperationsTypeOK
<1>2. QED
  BY <1>1, OperationsPartIsFixed, OperationsImplementParts, ConsoleTyped, BorrowTyped, RateTyped,
     ReleaseTyped, LoginTyped, PTL

(* What access, borrowed sessions, rate limits, releases and logins promise, *)
(* together and at every moment.                                             *)
THEOREM OperationsSafe ==
  OperationsSpec => [](/\ NoEscalation /\ NoDormantGrant /\ BorrowedSessionsBounded /\ FloorHeld
                       /\ ServedSchemaIsThere /\ ServedLoginStands)
BY OperationsImplementParts, NothingEscalates, GrantsGoWithMembership, BorrowedAreBounded, FloorIsHeld,
   SchemaPrecedesServing, ProductionCanConnect, PTL
=============================================================================
