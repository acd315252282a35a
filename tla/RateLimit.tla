------------------------------ MODULE RateLimit ------------------------------
(***************************************************************************)
(* The shared rate limit of one key: a token bucket that is one row in     *)
(* Postgres for all instances, each with a clock of its own, and the       *)
(* bucket in each instance's memory that stands in while the database      *)
(* cannot be reached.  Time is in units in which Refill tokens come.       *)
(***************************************************************************)
EXTENDS Integers

CONSTANTS Instances,
          Capacity, Refill,
          Stale,      \* SHARED_STALE_AFTER_MS and STALE_AFTER_MS
          Cooldown,   \* SHARED_FALLBACK_COOLDOWN_MS
          MaxLead,    \* how far a clock can be ahead
          MaxTime,    \* bound: the time that is looked at
          MaxFaults,  \* bound: failures, clock corrections, prunes and evictions
          NoBucket

(* assertPrunable *)
ASSUME RateLimitAssumption ==
  /\ {Capacity, Refill, Stale, Cooldown, MaxLead, MaxTime, MaxFaults} \subseteq Nat
  /\ Capacity >= 1 /\ Refill > 0 /\ Capacity <= Refill * Stale
  /\ "shared" \notin Instances /\ NoBucket \notin [tokens : Nat, at : Nat]

VARIABLES
  time,      \* true time
  lead,      \* by how much each instance's clock is ahead of it
  shared,    \* the row of app_rate_limits, or NoBucket
  local,     \* the bucket in each instance's memory, or NoBucket
  offUntil,  \* backendUnavailableUntilMs of each instance
  faults,    \* what is left of MaxFaults
  admitted,  \* requests let through by the row and by each memory (history)
  slack      \* what clocks and evictions have given away of each (history)

rateVars == <<time, lead, shared, local, offUntil, faults, admitted, slack>>

Buckets == Instances \cup {"shared"}

Rows == [tokens : 0..Capacity, at : 0..(MaxTime + MaxLead)] \cup {NoBucket}

RateTypeOK ==
  /\ time \in 0..MaxTime /\ lead \in [Instances -> 0..MaxLead]
  /\ shared \in Rows /\ local \in [Instances -> Rows]
  /\ offUntil \in [Instances -> 0..(MaxTime + MaxLead + Cooldown)]
  /\ faults \in 0..MaxFaults
  /\ admitted \in [Buckets -> Nat] /\ slack \in [Buckets -> Nat]

RateInit ==
  /\ time = 0 /\ lead \in [Instances -> 0..MaxLead]
  /\ shared = NoBucket /\ local = [i \in Instances |-> NoBucket]
  /\ offUntil = [i \in Instances |-> 0]
  /\ faults = MaxFaults
  /\ admitted = [b \in Buckets |-> 0] /\ slack = [b \in Buckets |-> 0]
-----------------------------------------------------------------------------
Clock(i) == time + lead[i]

Least(a, b) == IF a < b THEN a ELSE b
Greatest(a, b) == IF a > b THEN a ELSE b

(* What a bucket holds for a caller with this clock; one that is not there is full. *)
Refilled(b, clock) ==
  IF b = NoBucket THEN Capacity
  ELSE Least(Capacity, b.tokens + Greatest(0, clock - b.at) * Refill)

(* Mutant: the row's time is the last writer's. *)
ConsumeViaDatabase_OwnClock(b, clock) == [tokens |-> Refilled(b, clock) - 1, at |-> clock]

(* The row after an admitted request: its time never goes back. *)
ConsumeViaDatabase(b, clock) ==
  [tokens |-> Refilled(b, clock) - 1, at |-> IF b = NoBucket THEN clock ELSE Greatest(b.at, clock)]

(* Mutant: a token is taken where there is none. *)
ConsumeToken_NoFloor(b, clock) == [tokens |-> Refilled(b, clock) - 1, at |-> clock]

(* consumeToken: in memory the time is the caller's. *)
ConsumeToken(b, clock) ==
  LET held == Refilled(b, clock)
  IN [tokens |-> IF held >= 1 THEN held - 1 ELSE held, at |-> clock]

Admit(k) == admitted' = [admitted EXCEPT ![k] = @ + 1]

(* A request that the row admits; one that it denies changes nothing. *)
ConsumeShared(i) ==
  /\ Clock(i) >= offUntil[i]
  /\ Refilled(shared, Clock(i)) >= 1
  /\ shared' = ConsumeViaDatabase(shared, Clock(i))
  /\ Admit("shared")
  /\ UNCHANGED <<time, lead, local, offUntil, faults, slack>>

(* The in-process bucket, stale ones having been retired first. *)
FallBack(i) ==
  LET b == IF local[i] # NoBucket /\ Clock(i) - local[i].at > Stale THEN NoBucket ELSE local[i]
  IN /\ local' = [local EXCEPT ![i] = ConsumeToken(b, Clock(i))]
     /\ IF Refilled(b, Clock(i)) >= 1 THEN Admit(i) ELSE UNCHANGED admitted

(* The database fails: the request is answered from memory, and so are the   *)
(* ones to come for a while.                                                 *)
ConsumeFails(i) ==
  /\ Clock(i) >= offUntil[i] /\ faults > 0
  /\ offUntil' = [offUntil EXCEPT ![i] = Clock(i) + Cooldown]
  /\ FallBack(i)
  /\ faults' = faults - 1
  /\ UNCHANGED <<time, lead, shared, slack>>

ConsumeInCooldown(i) ==
  /\ Clock(i) < offUntil[i]
  /\ FallBack(i)
  /\ UNCHANGED <<time, lead, shared, offUntil, faults, slack>>

(* pruneStaleSharedBuckets, by any instance's clock.  The next caller's      *)
(* clock may be behind the one that pruned.                                  *)
Prune(i) ==
  /\ shared # NoBucket /\ shared.at < Clock(i) - Stale /\ faults > 0
  /\ shared' = NoBucket
  /\ slack' = [slack EXCEPT !["shared"] = @ + Refill * MaxLead]
  /\ faults' = faults - 1
  /\ UNCHANGED <<time, lead, local, offUntil, admitted>>

(* evictLeastRecentlyUsed, for the sake of another key; or a restart. *)
Evict(i) ==
  /\ local[i] # NoBucket /\ faults > 0
  /\ local' = [local EXCEPT ![i] = NoBucket]
  /\ slack' = [slack EXCEPT ![i] = @ + Capacity]
  /\ faults' = faults - 1
  /\ UNCHANGED <<time, lead, shared, offUntil, admitted>>
-----------------------------------------------------------------------------
TimePassesBy ==
  /\ time < MaxTime /\ time' = time + 1
  /\ UNCHANGED <<lead, shared, local, offUntil, faults, admitted, slack>>

(* A clock is corrected.  What the memory was given for the time that it     *)
(* takes back, it is given again.                                            *)
CorrectClock(i) ==
  /\ faults > 0
  /\ \E l \in (0..MaxLead) \ {lead[i]} :
       /\ lead' = [lead EXCEPT ![i] = l]
       /\ slack' = [slack EXCEPT ![i] = @ + Refill * Greatest(0, lead[i] - l)]
  /\ faults' = faults - 1
  /\ UNCHANGED <<time, shared, local, offUntil, admitted>>

RateNext ==
  \/ TimePassesBy
  \/ \E i \in Instances :
       \/ ConsumeShared(i) \/ ConsumeFails(i) \/ ConsumeInCooldown(i)
       \/ Prune(i) \/ Evict(i) \/ CorrectClock(i)

RateSpec == RateInit /\ [][RateNext]_rateVars
-----------------------------------------------------------------------------
(* Correctness *)

(* Review #98.  However requests of instances with different clocks mix,     *)
(* the row lets through no more than the burst and what has come in since,   *)
(* by the fastest clock: a clock that lags or is set back earns nothing      *)
(* twice, and only a prune gives away, once each time, what the clocks       *)
(* differ by.  An instance in fallback keeps to the same budget by itself,   *)
(* but for evictions and for time that its own clock lives through again.    *)
FloorHeld ==
  \A k \in Buckets : admitted[k] <= Capacity + Refill * (time + MaxLead) + slack[k]
=============================================================================
