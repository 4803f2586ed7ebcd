---------------------------- MODULE RateLimiter ----------------------------
(* The rate limit of API keys: RedisManager.check_rate_limit.  A counter    *)
(* per key prefix and minute lives in Redis, where INCR is atomic.  When    *)
(* the pipeline raises, the same counter is read, incremented and written   *)
(* back by the manager's get and set, each of which goes to Redis again     *)
(* and, if that raises too, to a dictionary of the worker.  A worker that   *)
(* had no Redis when it started has only its dictionary, and counts without *)
(* an await.                                                                *)
EXTENDS Naturals, FiniteSets

CONSTANTS Requests,       \* the requests that reach the limiter, once each
          Workers,
          WorkerOf,       \* the worker that runs a request
          Prefixes,
          PrefixOf,       \* the first 12 characters of the request's API key
          Limit,          \* RATE_LIMIT_PER_MINUTE
          MaxMinute,      \* the bound on the clock
          LastArrival,    \* the last minute in which requests come; a bound
          None

Redis == "redis"
Places == Workers \union {Redis}
Minutes == 0..MaxMinute
Buckets == Prefixes \X Minutes

ASSUME WorkersAssumption == Redis \notin Workers
ASSUME WorkerOfAssumption == WorkerOf \in [Requests -> Workers]
ASSUME PrefixOfAssumption == PrefixOf \in [Requests -> Prefixes]
ASSUME LimitAssumption == Limit \in Nat \ {0}
ASSUME MaxMinuteAssumption == MaxMinute \in Nat
ASSUME LastArrivalAssumption == LastArrival \in Minutes
ASSUME NoBucketAssumption == None \notin Buckets
ASSUME NoPlaceAssumption == None \notin Places

VARIABLES
  minute,     \* the current minute
  connected,  \* the workers that reached Redis when they started
  lim,        \* how far the limiter has got with each request
  bucket,     \* the counter of a request: its prefix and the minute it came in;
              \* kept when the limiter has answered, as a history of what it counted in
  seen,       \* the number a fallback has read
  source,     \* and where it read it
  count,      \* each counter in each place, 0 when it is not there
  admitted,   \* history: the requests let through, by counting pool and bucket
  refused,    \* history: the requests refused, likewise
  lost,       \* history: the INCRs that took effect and were not heard of
  resets      \* history: how often a bucket was counted by a fallback or expired in Redis

limiterVars == <<minute, connected, lim, bucket, seen, source, count, admitted, refused,
                 lost, resets>>
history == <<admitted, refused, lost, resets>>

Zeros == [b \in Buckets |-> 0]

LimiterTypeOK ==
  /\ minute \in Minutes
  /\ connected \subseteq Workers
  /\ lim \in [Requests -> {"outside", "count", "get", "set", "admitted", "refused"}]
  /\ bucket \in [Requests -> Buckets \union {None}]
  /\ seen \in [Requests -> Nat]
  /\ source \in [Requests -> Places \union {None}]
  /\ count \in [Places -> [Buckets -> Nat]]
  /\ admitted \in [Places -> [Buckets -> Nat]]
  /\ refused \in [Places -> [Buckets -> Nat]]
  /\ lost \in [Buckets -> Nat]
  /\ resets \in [Buckets -> Nat]

LimiterInit ==
  /\ minute = 0
  /\ connected \in SUBSET Workers
  /\ lim = [r \in Requests |-> "outside"]
  /\ bucket = [r \in Requests |-> None]
  /\ seen = [r \in Requests |-> 0]
  /\ source = [r \in Requests |-> None]
  /\ count = [p \in Places |-> Zeros]
  /\ admitted = [p \in Places |-> Zeros]
  /\ refused = [p \in Places |-> Zeros]
  /\ lost = Zeros
  /\ resets = Zeros

-----------------------------------------------------------------------------
\* Helpers

\* (A slip: one request too many.)
WithinLimitOneMore(n) == n <= Limit + 1

\* The n-th request of a bucket is let through.
WithinLimit(n) == n <= Limit

\* The workers that reach Redis count together, every other one by itself.
Pool(w) == IF w \in connected THEN Redis ELSE w

\* The request is the n-th of its bucket b, by the counter of its pool; the call
\* returns and forgets what it read.
Judge(r, b, n) ==
  LET p == Pool(WorkerOf[r]) IN
  /\ bucket' = [bucket EXCEPT ![r] = b]
  /\ seen' = [seen EXCEPT ![r] = 0]
  /\ source' = [source EXCEPT ![r] = None]
  /\ lim' = [lim EXCEPT ![r] = IF WithinLimit(n) THEN "admitted" ELSE "refused"]
  /\ admitted' = IF WithinLimit(n) THEN [admitted EXCEPT ![p][b] = @ + 1] ELSE admitted
  /\ refused' = IF WithinLimit(n) THEN refused ELSE [refused EXCEPT ![p][b] = @ + 1]

-----------------------------------------------------------------------------
\* check_rate_limit

\* The bucket is that of the moment of arrival, however long Redis takes.
Arrive(r) ==
  /\ lim[r] = "outside"
  /\ WorkerOf[r] \in connected
  /\ minute <= LastArrival
  /\ bucket' = [bucket EXCEPT ![r] = <<PrefixOf[r], minute>>]
  /\ lim' = [lim EXCEPT ![r] = "count"]
  /\ UNCHANGED <<minute, connected, seen, source, count, history>>

\* A worker without Redis reads, increments and writes its dictionary with
\* nothing in between.
CountAlone(r) ==
  LET w == WorkerOf[r]
      b == <<PrefixOf[r], minute>> IN
  /\ lim[r] = "outside"
  /\ w \notin connected
  /\ minute <= LastArrival
  /\ count' = [count EXCEPT ![w][b] = @ + 1]
  /\ Judge(r, b, count[w][b] + 1)
  /\ UNCHANGED <<minute, connected, lost, resets>>

\* INCR and EXPIRE in one MULTI.
Count(r) ==
  LET b == bucket[r] IN
  /\ lim[r] = "count"
  /\ count' = [count EXCEPT ![Redis][b] = @ + 1]
  /\ Judge(r, b, count[Redis][b] + 1)
  /\ UNCHANGED <<minute, connected, lost, resets>>

\* (A slip: the request that falls back is taken for one that was not counted.)
PipelineFailsUnseen(r, took) ==
  LET b == bucket[r] IN
  /\ lim[r] = "count"
  /\ count' = [count EXCEPT ![Redis][b] = IF took THEN @ + 1 ELSE @]
  /\ lim' = [lim EXCEPT ![r] = "get"]
  /\ UNCHANGED <<minute, connected, bucket, seen, source, admitted, refused, lost, resets>>

\* The pipeline raises, before or after it took effect.
PipelineFails(r, took) ==
  LET b == bucket[r] IN
  /\ lim[r] = "count"
  /\ count' = [count EXCEPT ![Redis][b] = IF took THEN @ + 1 ELSE @]
  /\ lost' = [lost EXCEPT ![b] = IF took THEN @ + 1 ELSE @]
  /\ lim' = [lim EXCEPT ![r] = "get"]
  /\ UNCHANGED <<minute, connected, bucket, seen, source, admitted, refused, resets>>

\* (A slip: what get returns is kept as it is, None for a counter that is not there.)
GetRaw(r, p) ==
  /\ lim[r] = "get"
  /\ seen' = [seen EXCEPT ![r] = IF count[p][bucket[r]] = 0 THEN None
                                                         ELSE count[p][bucket[r]]]
  /\ source' = [source EXCEPT ![r] = p]
  /\ lim' = [lim EXCEPT ![r] = "set"]
  /\ UNCHANGED <<minute, connected, bucket, count, history>>

\* get: from Redis, or if that raises from the dictionary.
Get(r, p) ==
  /\ lim[r] = "get"
  /\ seen' = [seen EXCEPT ![r] = count[p][bucket[r]]]
  /\ source' = [source EXCEPT ![r] = p]
  /\ lim' = [lim EXCEPT ![r] = "set"]
  /\ UNCHANGED <<minute, connected, bucket, count, history>>

\* set: to Redis, or if that raises to the dictionary; both hold the number when
\* only Redis's answer was lost.
Written(r) == {{Redis}, {WorkerOf[r]}, {Redis, WorkerOf[r]}}

Set(r, places) ==
  LET b == bucket[r] IN
  /\ lim[r] = "set"
  /\ count' = [p \in Places |-> IF p \in places THEN [count[p] EXCEPT ![b] = seen[r] + 1]
                                                ELSE count[p]]
  /\ resets' = [resets EXCEPT ![b] = @ + 1]
  /\ Judge(r, b, seen[r] + 1)
  /\ UNCHANGED <<minute, connected, lost>>

-----------------------------------------------------------------------------
\* Around it

Tick ==
  /\ minute < MaxMinute
  /\ minute' = minute + 1
  /\ UNCHANGED <<connected, lim, bucket, seen, source, count, history>>

\* A counter lives for two windows from its last write, so at least to the end of
\* the window after its own.
Expire(p, b) ==
  /\ count[p][b] > 0
  /\ minute >= b[2] + 2
  /\ count' = [count EXCEPT ![p][b] = 0]
  /\ resets' = IF p = Redis THEN [resets EXCEPT ![b] = @ + 1] ELSE resets
  /\ UNCHANGED <<minute, connected, lim, bucket, seen, source, admitted, refused, lost>>

Enter(r) == Arrive(r) \/ CountAlone(r)

Check(r) == \/ Count(r)
            \/ \E took \in BOOLEAN : PipelineFails(r, took)
            \/ \E p \in {Redis, WorkerOf[r]} : Get(r, p)
            \/ \E places \in Written(r) : Set(r, places)

Time == Tick \/ \E p \in Places, b \in Buckets : Expire(p, b)

LimiterNext == \/ \E r \in Requests : Enter(r) \/ Check(r)
               \/ Time

LimiterSpec == LimiterInit /\ [][LimiterNext]_limiterVars

-----------------------------------------------------------------------------
\* Properties

\* The workers that reach Redis let the limit through per prefix and minute, and
\* as much again for each fallback, which may put the counter back, and each expiry
\* under a request that took over a minute; a worker without Redis never exceeds it.
OverrunsAreExplained ==
  \A b \in Buckets :
    /\ admitted[Redis][b] <= Limit * (resets[b] + 1)
    /\ \A w \in Workers : w \notin connected => admitted[w][b] <= Limit

\* The requests let through that were counted in bucket b of pool p.
Admitted(p, b) ==
  {r \in Requests : lim[r] = "admitted" /\ bucket[r] = b /\ Pool(WorkerOf[r]) = p}

\* Nobody is refused before the limit of its PREFIX and minute was let through,
\* except for requests counted twice because the answer to their INCR was lost:
\* neither fallbacks nor late, repeated or overwritten counts make up requests.
\* What this is worth to the holder of one key, ApiKeys says.
RefusalsFollowLimit ==
  \A b \in Buckets :
    /\ refused[Redis][b] > 0 => admitted[Redis][b] + lost[b] >= Limit
    /\ \A w \in Workers : refused[w][b] > 0 => admitted[w][b] >= Limit
=============================================================================
