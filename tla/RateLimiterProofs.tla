------------------------- MODULE RateLimiterProofs -------------------------
(* Proofs about RateLimiter for any requests, workers, prefixes and limit.  *)
EXTENDS RateLimiter, FiniteSetTheorems, TLAPS

\* A request that is being counted by Redis has a bucket of its prefix, and a
\* fallback that has read has read in one of its two places.
Fits ==
  \A r \in Requests :
    /\ lim[r] \in {"count", "get", "set"} =>
         /\ WorkerOf[r] \in connected
         /\ \E m \in Minutes : bucket[r] = <<PrefixOf[r], m>>
    /\ lim[r] = "set" => source[r] \in {Redis, WorkerOf[r]}

\* What was let through is in the counter, but for what fallbacks and expiries took
\* out of it; they happen only to Redis's counters while those are in use.
Bounded ==
  \A b \in Buckets :
    /\ admitted[Redis][b] <= Limit * resets[b] + count[Redis][b]
    /\ admitted[Redis][b] <= Limit * resets[b] + Limit
    /\ \A w \in Workers : w \notin connected =>
         /\ admitted[w][b] <= Limit
         /\ minute < b[2] + 2 => admitted[w][b] <= count[w][b]

\* Whatever a counter holds, or a fallback has read of it, was counted or lost.
Counted ==
  /\ \A b \in Buckets :
       /\ count[Redis][b] <= admitted[Redis][b] + refused[Redis][b] + lost[b]
       /\ \A w \in connected : count[w][b] <= admitted[Redis][b] + refused[Redis][b] + lost[b]
       /\ \A w \in Workers :
            w \notin connected => count[w][b] <= admitted[w][b] + refused[w][b]
  /\ \A r \in Requests, b \in Buckets :
       lim[r] = "set" /\ bucket[r] = b =>
         seen[r] <= admitted[Redis][b] + refused[Redis][b] + lost[b]

\* The histories of a bucket are those of the requests judged in it.
Tallied ==
  /\ \A p \in Places, b \in Buckets :
       IsFiniteSet(Admitted(p, b)) /\ admitted[p][b] = Cardinality(Admitted(p, b))
  /\ \A r \in Requests :
       lim[r] = "refused" => /\ bucket[r] \in Buckets
                             /\ refused[Pool(WorkerOf[r])][bucket[r]] > 0

IInv == /\ LimiterTypeOK
        /\ Fits
        /\ Bounded
        /\ Counted
        /\ RefusalsFollowLimit
        /\ Tallied

-----------------------------------------------------------------------------
\* A request that is being counted has a bucket.
LEMMA BucketOf ==
  ASSUME Fits, NEW r \in Requests, lim[r] \in {"count", "get", "set"}
  PROVE  /\ bucket[r] \in Buckets
         /\ WorkerOf[r] \in connected
BY PrefixOfAssumption DEF Fits, Buckets

LEMMA NewBucket ==
  ASSUME NEW r \in Requests, minute \in Minutes
  PROVE  <<PrefixOf[r], minute>> \in Buckets
BY PrefixOfAssumption DEF Buckets

LEMMA JudgeType ==
  ASSUME LimiterTypeOK, NEW r \in Requests, NEW b \in Buckets, NEW n \in Nat, Judge(r, b, n)
  PROVE  /\ lim' \in [Requests -> {"outside", "count", "get", "set", "admitted", "refused"}]
         /\ bucket' \in [Requests -> Buckets \union {None}]
         /\ seen' \in [Requests -> Nat]
         /\ source' \in [Requests -> Places \union {None}]
         /\ admitted' \in [Places -> [Buckets -> Nat]]
         /\ refused' \in [Places -> [Buckets -> Nat]]
<1>1. Pool(WorkerOf[r]) \in Places
  BY WorkerOfAssumption DEF Pool, Places
<1>2. /\ [admitted EXCEPT ![Pool(WorkerOf[r])][b] = @ + 1] \in [Places -> [Buckets -> Nat]]
      /\ [refused EXCEPT ![Pool(WorkerOf[r])][b] = @ + 1] \in [Places -> [Buckets -> Nat]]
  BY <1>1 DEF LimiterTypeOK
<1> QED
  BY <1>1, <1>2 DEF Judge, LimiterTypeOK

LEMMA OneResetMore ==
  ASSUME NEW n \in Nat
  PROVE  Limit * (n + 1) = Limit * n + Limit /\ Limit * n \in Nat
BY LimitAssumption


\* The types are kept.
LEMMA TypeStep ==
  IInv /\ [LimiterNext]_limiterVars => LimiterTypeOK'
<1> SUFFICES ASSUME IInv, [LimiterNext]_limiterVars PROVE LimiterTypeOK'
  OBVIOUS
<1> USE WorkersAssumption, WorkerOfAssumption, LimitAssumption, MaxMinuteAssumption
      DEF IInv, LimiterTypeOK
<1>1. ASSUME NEW r \in Requests, Arrive(r) PROVE LimiterTypeOK'
  <2>1. <<PrefixOf[r], minute>> \in Buckets
    BY NewBucket
  <2> QED
    BY <1>1, <2>1 DEF Arrive, history
<1>2. ASSUME NEW r \in Requests, CountAlone(r) PROVE LimiterTypeOK'
  <2> DEFINE w == WorkerOf[r]  b == <<PrefixOf[r], minute>>
  <2>1. w \in Places /\ b \in Buckets
    BY NewBucket DEF Places
  <2>2. count[w][b] + 1 \in Nat
    BY <2>1
  <2>3. Judge(r, b, count[w][b] + 1) /\ count' = [count EXCEPT ![w][b] = @ + 1]
    BY <1>2 DEF CountAlone
  <2>4. UNCHANGED <<minute, connected, lost, resets>>
    BY <1>2 DEF CountAlone
  <2> HIDE DEF w, b
  <2>5. count' \in [Places -> [Buckets -> Nat]]
    BY <2>1, <2>3
  <2> QED
    BY <2>1, <2>2, <2>3, <2>4, <2>5, JudgeType
<1>3. ASSUME NEW r \in Requests, Count(r) PROVE LimiterTypeOK'
  <2> DEFINE b == bucket[r]
  <2>1. b \in Buckets /\ Redis \in Places
    BY <1>3, BucketOf DEF Count, Places
  <2>2. count[Redis][b] + 1 \in Nat
    BY <2>1
  <2>3. Judge(r, b, count[Redis][b] + 1) /\ count' = [count EXCEPT ![Redis][b] = @ + 1]
    BY <1>3 DEF Count
  <2>4. UNCHANGED <<minute, connected, lost, resets>>
    BY <1>3 DEF Count
  <2> HIDE DEF b
  <2>5. count' \in [Places -> [Buckets -> Nat]]
    BY <2>1, <2>3
  <2> QED
    BY <2>1, <2>2, <2>3, <2>4, <2>5, JudgeType
<1>4. ASSUME NEW r \in Requests, NEW took \in BOOLEAN, PipelineFails(r, took)
      PROVE  LimiterTypeOK'
  <2>1. bucket[r] \in Buckets /\ Redis \in Places
    BY <1>4, BucketOf DEF PipelineFails, Places
  <2> QED
    BY <1>4, <2>1 DEF PipelineFails
<1>5. ASSUME NEW r \in Requests, NEW p \in {Redis, WorkerOf[r]}, Get(r, p) PROVE LimiterTypeOK'
  <2>1. bucket[r] \in Buckets /\ p \in Places
    BY <1>5, BucketOf DEF Get, Places
  <2> QED
    BY <1>5, <2>1 DEF Get, history
<1>6. ASSUME NEW r \in Requests, NEW places \in Written(r), Set(r, places)
      PROVE  LimiterTypeOK'
  <2> DEFINE b == bucket[r]
  <2>1. b \in Buckets
    BY <1>6, BucketOf DEF Set
  <2>2. seen[r] + 1 \in Nat
    OBVIOUS
  <2>3. Judge(r, b, seen[r] + 1) /\ resets' = [resets EXCEPT ![b] = @ + 1]
    BY <1>6 DEF Set
  <2>4. count' = [p \in Places |-> IF p \in places THEN [count[p] EXCEPT ![b] = seen[r] + 1]
                                                  ELSE count[p]]
    BY <1>6 DEF Set
  <2>5. UNCHANGED <<minute, connected, lost>>
    BY <1>6 DEF Set
  <2> HIDE DEF b
  <2>6. count' \in [Places -> [Buckets -> Nat]]
    BY <2>1, <2>2, <2>4
  <2>7. resets' \in [Buckets -> Nat]
    BY <2>1, <2>3
  <2> QED
    BY <2>1, <2>2, <2>3, <2>5, <2>6, <2>7, JudgeType
<1>7. CASE Tick
  BY <1>7 DEF Tick, history, Minutes
<1>8. ASSUME NEW p \in Places, NEW b \in Buckets, Expire(p, b) PROVE LimiterTypeOK'
  BY <1>8 DEF Expire
<1>9. CASE UNCHANGED limiterVars
  BY <1>9 DEF limiterVars, history
<1> HIDE DEF IInv, LimiterTypeOK, Fits, Bounded, Counted, Buckets, Places, Minutes
<1> QED
  BY <1>1, <1>2, <1>3, <1>4, <1>5, <1>6, <1>7, <1>8, <1>9
     DEF LimiterNext, Enter, Check, Time

\* A request keeps its bucket until it is judged.
LEMMA FitsStep ==
  IInv /\ [LimiterNext]_limiterVars => Fits'
<1> SUFFICES ASSUME IInv, [LimiterNext]_limiterVars PROVE Fits'
  OBVIOUS
<1> USE WorkersAssumption, WorkerOfAssumption, PrefixOfAssumption, LimitAssumption,
        MaxMinuteAssumption, NoBucketAssumption, NoPlaceAssumption
      DEF IInv, LimiterTypeOK, Fits, Places, Buckets, Minutes
<1>1. ASSUME NEW r \in Requests, Arrive(r) PROVE Fits'
  BY <1>1 DEF Arrive, history
<1>2. ASSUME NEW r \in Requests, CountAlone(r) PROVE Fits'
  BY <1>2 DEF CountAlone, Judge, WithinLimit, Pool
<1>3. ASSUME NEW r \in Requests, Count(r) PROVE Fits'
  BY <1>3 DEF Count, Judge, WithinLimit, Pool
<1>4. ASSUME NEW r \in Requests, NEW took \in BOOLEAN, PipelineFails(r, took) PROVE Fits'
  BY <1>4 DEF PipelineFails
<1>5. ASSUME NEW r \in Requests, NEW p \in {Redis, WorkerOf[r]}, Get(r, p) PROVE Fits'
  BY <1>5 DEF Get, history
<1>6. ASSUME NEW r \in Requests, NEW places \in Written(r), Set(r, places) PROVE Fits'
  BY <1>6 DEF Set, Judge, WithinLimit, Pool
<1>7. CASE Tick
  BY <1>7 DEF Tick, history
<1>8. ASSUME NEW p \in Places, NEW b \in Buckets, Expire(p, b) PROVE Fits'
  BY <1>8 DEF Expire
<1>9. CASE UNCHANGED limiterVars
  BY <1>9 DEF limiterVars, history
<1> HIDE DEF IInv, LimiterTypeOK, Fits, Bounded, Counted, Fits, Buckets, Places, Minutes
<1> QED
  BY <1>1, <1>2, <1>3, <1>4, <1>5, <1>6, <1>7, <1>8, <1>9
     DEF LimiterNext, Enter, Check, Time

\* Only a count within the limit lets a request through.
LEMMA BoundedStep ==
  IInv /\ [LimiterNext]_limiterVars => Bounded'
<1> SUFFICES ASSUME IInv, [LimiterNext]_limiterVars PROVE Bounded'
  OBVIOUS
<1> USE WorkersAssumption, WorkerOfAssumption, PrefixOfAssumption, LimitAssumption,
        MaxMinuteAssumption, NoBucketAssumption, NoPlaceAssumption
      DEF IInv, LimiterTypeOK, Fits, Places, Buckets, Minutes, Bounded
<1>1. ASSUME NEW r \in Requests, Arrive(r) PROVE Bounded'
  BY <1>1 DEF Arrive, history
<1>2. ASSUME NEW r \in Requests, CountAlone(r) PROVE Bounded'
  BY <1>2 DEF CountAlone, Judge, WithinLimit, Pool
<1>3. ASSUME NEW r \in Requests, Count(r) PROVE Bounded'
  BY <1>3 DEF Count, Judge, WithinLimit, Pool
<1>4. ASSUME NEW r \in Requests, NEW took \in BOOLEAN, PipelineFails(r, took) PROVE Bounded'
  BY <1>4 DEF PipelineFails
<1>5. ASSUME NEW r \in Requests, NEW p \in {Redis, WorkerOf[r]}, Get(r, p) PROVE Bounded'
  BY <1>5 DEF Get, history
<1>6. ASSUME NEW r \in Requests, NEW places \in Written(r), Set(r, places) PROVE Bounded'
  <2> DEFINE b == bucket[r]
  <2>1. b \in Buckets /\ WorkerOf[r] \in connected /\ Redis \notin Workers
    BY <1>6, BucketOf DEF Set
  <2>2. \/ admitted' = admitted
        \/ admitted' = [admitted EXCEPT ![Redis][b] = @ + 1]
    BY <1>6, <2>1 DEF Set, Judge, Pool
  <2>3. resets' = [resets EXCEPT ![b] = @ + 1] /\ UNCHANGED <<minute, connected>>
    BY <1>6 DEF Set
  <2>4. /\ \A p \in Places, c \in Buckets :
             p \notin {Redis, WorkerOf[r]} => count'[p][c] = count[p][c]
        /\ \A c \in Buckets : c # b => count'[Redis][c] = count[Redis][c]
        /\ count'[Redis][b] \in {count[Redis][b], seen[r] + 1}
    BY <1>6, <2>1 DEF Set, Written, Places
  <2> HIDE DEF b
  <2>5. ASSUME NEW c \in Buckets
        PROVE  /\ admitted'[Redis][c] <= Limit * resets'[c] + count'[Redis][c]
               /\ admitted'[Redis][c] <= Limit * resets'[c] + Limit
    <3>1. CASE c # b
      BY <2>1, <2>2, <2>3, <2>4, <3>1 DEF Places
    <3>2. CASE c = b
      <4>1. Limit * resets'[b] = Limit * resets[b] + Limit /\ Limit * resets[b] \in Nat
        BY <2>1, <2>3, OneResetMore
      <4>2. admitted'[Redis][b] <= admitted[Redis][b] + 1 /\ admitted[Redis][b] \in Nat
            /\ admitted'[Redis][b] \in Nat
        BY <2>1, <2>2 DEF Places
      <4>3. /\ admitted[Redis][b] <= Limit * resets[b] + count[Redis][b]
            /\ admitted[Redis][b] <= Limit * resets[b] + Limit
        BY <2>1
      <4>4. /\ count'[Redis][b] \in Nat /\ count[Redis][b] \in Nat
            /\ count'[Redis][b] >= 1 \/ count'[Redis][b] = count[Redis][b]
        BY <2>1, <2>4 DEF Places
      <4> QED
        BY <3>2, <4>1, <4>2, <4>3, <4>4
    <3> QED
      BY <3>1, <3>2
  <2>6. ASSUME NEW w \in Workers, w \notin connected, NEW c \in Buckets
        PROVE  admitted'[w][c] = admitted[w][c] /\ count'[w][c] = count[w][c]
    <3>1. w \notin {Redis, WorkerOf[r]} /\ w \in Places
      BY <2>1, <2>6 DEF Places
    <3> QED
      BY <2>1, <2>2, <2>4, <3>1
  <2> QED
    BY <2>3, <2>5, <2>6
<1>7. CASE Tick
  BY <1>7 DEF Tick, history
<1>8. ASSUME NEW p \in Places, NEW b \in Buckets, Expire(p, b) PROVE Bounded'
  <2>1. CASE p = Redis
    <3>1. Limit * resets'[b] = Limit * resets[b] + Limit /\ Limit * resets[b] \in Nat
      BY <1>8, <2>1, OneResetMore DEF Expire
    <3>2. /\ UNCHANGED <<minute, connected, admitted>>
          /\ count' = [count EXCEPT ![Redis][b] = 0] /\ resets' = [resets EXCEPT ![b] = @ + 1]
      BY <1>8, <2>1 DEF Expire
    <3>3. ASSUME NEW c \in Buckets
          PROVE  /\ admitted[Redis][c] <= Limit * resets'[c] + count'[Redis][c]
                 /\ admitted[Redis][c] <= Limit * resets'[c] + Limit
      <4>1. CASE c = b
        BY <3>1, <3>2, <4>1
      <4>2. CASE c # b
        BY <3>2, <4>2
      <4> QED
        BY <4>1, <4>2
    <3> QED
      BY <3>2, <3>3
  <2>2. CASE p # Redis
    <3>1. /\ UNCHANGED <<minute, connected, admitted, resets>>
          /\ count' = [count EXCEPT ![p][b] = 0] /\ minute >= b[2] + 2
      BY <1>8, <2>2 DEF Expire
    <3>2. b[2] \in Minutes
      OBVIOUS
    <3> QED
      BY <2>2, <3>1, <3>2
  <2> QED
    BY <2>1, <2>2
<1>9. CASE UNCHANGED limiterVars
  BY <1>9 DEF limiterVars, history
<1> HIDE DEF IInv, LimiterTypeOK, Fits, Bounded, Counted, Bounded, Buckets, Places, Minutes
<1> QED
  BY <1>1, <1>2, <1>3, <1>4, <1>5, <1>6, <1>7, <1>8, <1>9
     DEF LimiterNext, Enter, Check, Time

\* A counter grows by one request, which is judged at once or counted as lost.
LEMMA CountedStep ==
  IInv /\ [LimiterNext]_limiterVars => Counted'
<1> SUFFICES ASSUME IInv, [LimiterNext]_limiterVars PROVE Counted'
  OBVIOUS
<1> USE WorkersAssumption, WorkerOfAssumption, PrefixOfAssumption, LimitAssumption,
        MaxMinuteAssumption, NoBucketAssumption, NoPlaceAssumption
      DEF IInv, LimiterTypeOK, Fits, Places, Buckets, Minutes, Counted
<1>1. ASSUME NEW r \in Requests, Arrive(r) PROVE Counted'
  BY <1>1 DEF Arrive, history
<1>2. ASSUME NEW r \in Requests, CountAlone(r) PROVE Counted'
  <2> DEFINE w == WorkerOf[r]  b == <<PrefixOf[r], minute>>
  <2>1. w \in Workers /\ w \notin connected /\ w # Redis /\ b \in Buckets
    BY <1>2, NewBucket DEF CountAlone
  <2>2. count' = [count EXCEPT ![w][b] = @ + 1] /\ UNCHANGED <<connected, lost>>
    BY <1>2 DEF CountAlone
  <2>3. \/ /\ count[w][b] + 1 <= Limit
           /\ admitted' = [admitted EXCEPT ![w][b] = @ + 1] /\ refused' = refused
        \/ /\ count[w][b] + 1 > Limit
           /\ refused' = [refused EXCEPT ![w][b] = @ + 1] /\ admitted' = admitted
    BY <1>2, <2>1 DEF CountAlone, Judge, Pool, WithinLimit
  <2>4. lim'[r] \in {"admitted", "refused"}
        /\ \A s \in Requests \ {r} :
             lim'[s] = lim[s] /\ bucket'[s] = bucket[s] /\ seen'[s] = seen[s]
    BY <1>2 DEF CountAlone, Judge
  <2> HIDE DEF w, b
  <2>5. \A c \in Buckets :
          admitted'[Redis][c] = admitted[Redis][c] /\ refused'[Redis][c] = refused[Redis][c]
    BY <2>1, <2>3
  <2>6. \A v \in Workers : v # Redis
    OBVIOUS
  <2>7. ASSUME NEW c \in Buckets
        PROVE  /\ count'[Redis][c] <= admitted'[Redis][c] + refused'[Redis][c] + lost'[c]
               /\ \A v \in connected' :
                    count'[v][c] <= admitted'[Redis][c] + refused'[Redis][c] + lost'[c]
    <3>1. \A p \in connected \union {Redis} : count'[p][c] = count[p][c]
      BY <2>1, <2>2
    <3> QED
      BY <2>2, <2>5, <3>1
  <2>8. ASSUME NEW v \in Workers, v \notin connected', NEW c \in Buckets
        PROVE  count'[v][c] <= admitted'[v][c] + refused'[v][c]
    <3>1. CASE v = w /\ c = b
      BY <2>1, <2>2, <2>3, <3>1
    <3>2. CASE ~(v = w /\ c = b)
      <4>1. count'[v][c] = count[v][c] /\ admitted'[v][c] = admitted[v][c]
            /\ refused'[v][c] = refused[v][c]
        BY <2>1, <2>2, <2>3, <3>2
      <4> QED
        BY <2>2, <2>8, <4>1
    <3> QED
      BY <3>1, <3>2
  <2>9. ASSUME NEW s \in Requests, NEW c \in Buckets, lim'[s] = "set", bucket'[s] = c
        PROVE  seen'[s] <= admitted'[Redis][c] + refused'[Redis][c] + lost'[c]
    BY <2>2, <2>4, <2>5, <2>9
  <2> QED
    BY <2>7, <2>8, <2>9
<1>3. ASSUME NEW r \in Requests, Count(r) PROVE Counted'
  BY <1>3 DEF Count, Judge, WithinLimit, Pool
<1>4. ASSUME NEW r \in Requests, NEW took \in BOOLEAN, PipelineFails(r, took) PROVE Counted'
  BY <1>4 DEF PipelineFails
<1>5. ASSUME NEW r \in Requests, NEW p \in {Redis, WorkerOf[r]}, Get(r, p) PROVE Counted'
  BY <1>5 DEF Get, history
<1>6. ASSUME NEW r \in Requests, NEW places \in Written(r), Set(r, places) PROVE Counted'
  BY <1>6 DEF Set, Written, Judge, WithinLimit, Pool
<1>7. CASE Tick
  BY <1>7 DEF Tick, history
<1>8. ASSUME NEW p \in Places, NEW b \in Buckets, Expire(p, b) PROVE Counted'
  BY <1>8 DEF Expire
<1>9. CASE UNCHANGED limiterVars
  BY <1>9 DEF limiterVars, history
<1> HIDE DEF IInv, LimiterTypeOK, Fits, Bounded, Counted, Counted, Buckets, Places, Minutes
<1> QED
  BY <1>1, <1>2, <1>3, <1>4, <1>5, <1>6, <1>7, <1>8, <1>9
     DEF LimiterNext, Enter, Check, Time

\* The first refusal of a bucket comes with a counter past the limit.
LEMMA DeservedStep ==
  IInv /\ [LimiterNext]_limiterVars => RefusalsFollowLimit'
<1> SUFFICES ASSUME IInv, [LimiterNext]_limiterVars PROVE RefusalsFollowLimit'
  OBVIOUS
<1> USE WorkersAssumption, WorkerOfAssumption, PrefixOfAssumption, LimitAssumption,
        MaxMinuteAssumption, NoBucketAssumption, NoPlaceAssumption
      DEF IInv, LimiterTypeOK, Fits, Places, Buckets, Minutes, Counted, RefusalsFollowLimit
<1>1. ASSUME NEW r \in Requests, Arrive(r) PROVE RefusalsFollowLimit'
  BY <1>1 DEF Arrive, history
<1>2. ASSUME NEW r \in Requests, CountAlone(r) PROVE RefusalsFollowLimit'
  <2> DEFINE w == WorkerOf[r]  b == <<PrefixOf[r], minute>>
  <2>1. w \in Workers /\ w \notin connected /\ w # Redis /\ b \in Buckets
    BY <1>2, NewBucket DEF CountAlone
  <2>2. count' = [count EXCEPT ![w][b] = @ + 1] /\ UNCHANGED <<connected, lost>>
    BY <1>2 DEF CountAlone
  <2>3. \/ /\ count[w][b] + 1 <= Limit
           /\ admitted' = [admitted EXCEPT ![w][b] = @ + 1] /\ refused' = refused
        \/ /\ count[w][b] + 1 > Limit
           /\ refused' = [refused EXCEPT ![w][b] = @ + 1] /\ admitted' = admitted
    BY <1>2, <2>1 DEF CountAlone, Judge, Pool, WithinLimit
  <2>4. lim'[r] \in {"admitted", "refused"}
        /\ \A s \in Requests \ {r} :
             lim'[s] = lim[s] /\ bucket'[s] = bucket[s] /\ seen'[s] = seen[s]
    BY <1>2 DEF CountAlone, Judge
  <2> HIDE DEF w, b
  <2>5. \A c \in Buckets :
          admitted'[Redis][c] = admitted[Redis][c] /\ refused'[Redis][c] = refused[Redis][c]
    BY <2>1, <2>3
  <2>6. ASSUME NEW v \in Workers, NEW c \in Buckets, refused'[v][c] > 0
        PROVE  admitted'[v][c] >= Limit
    <3>1. CASE v = w /\ c = b
      <4>1. count[w][b] <= admitted[w][b] + refused[w][b]
        BY <2>1
      <4>2. refused[w][b] > 0 => admitted[w][b] >= Limit
        BY <2>1
      <4>3. count[w][b] \in Nat /\ admitted[w][b] \in Nat /\ refused[w][b] \in Nat
        BY <2>1
      <4> QED
        BY <2>1, <2>3, <2>6, <3>1, <4>1, <4>2, <4>3
    <3>2. CASE ~(v = w /\ c = b)
      <4>1. admitted'[v][c] = admitted[v][c] /\ refused'[v][c] = refused[v][c]
        BY <2>1, <2>3, <3>2
      <4> QED
        BY <2>6, <4>1
    <3> QED
      BY <3>1, <3>2
  <2>7. ASSUME NEW c \in Buckets, refused'[Redis][c] > 0
        PROVE  admitted'[Redis][c] + lost'[c] >= Limit
    BY <2>2, <2>5, <2>7
  <2> QED
    BY <2>6, <2>7
<1>3. ASSUME NEW r \in Requests, Count(r) PROVE RefusalsFollowLimit'
  BY <1>3 DEF Count, Judge, WithinLimit, Pool
<1>4. ASSUME NEW r \in Requests, NEW took \in BOOLEAN, PipelineFails(r, took)
      PROVE  RefusalsFollowLimit'
  BY <1>4 DEF PipelineFails
<1>5. ASSUME NEW r \in Requests, NEW p \in {Redis, WorkerOf[r]}, Get(r, p)
      PROVE  RefusalsFollowLimit'
  BY <1>5 DEF Get, history
<1>6. ASSUME NEW r \in Requests, NEW places \in Written(r), Set(r, places)
      PROVE  RefusalsFollowLimit'
  BY <1>6 DEF Set, Judge, WithinLimit, Pool
<1>7. CASE Tick
  BY <1>7 DEF Tick, history
<1>8. ASSUME NEW p \in Places, NEW b \in Buckets, Expire(p, b) PROVE RefusalsFollowLimit'
  BY <1>8 DEF Expire
<1>9. CASE UNCHANGED limiterVars
  BY <1>9 DEF limiterVars, history
<1> HIDE DEF IInv, LimiterTypeOK, Fits, Bounded, Counted, RefusalsFollowLimit, Buckets,
         Places, Minutes
<1> QED
  BY <1>1, <1>2, <1>3, <1>4, <1>5, <1>6, <1>7, <1>8, <1>9
     DEF LimiterNext, Enter, Check, Time

\* A step that judges nobody leaves the tallies as they are.
LEMMA TalliesStay ==
  ASSUME Tallied, UNCHANGED <<connected, admitted, refused>>, LimiterTypeOK,
         \A r \in Requests :
           \/ lim'[r] = lim[r] /\ bucket'[r] = bucket[r]
           \/ /\ lim[r] \notin {"admitted", "refused"}
              /\ lim'[r] \notin {"admitted", "refused"}
  PROVE  Tallied'
<1>1. \A p \in Places, b \in Buckets : Admitted(p, b)' = Admitted(p, b)
  BY DEF Admitted, Pool
<1> HIDE DEF Buckets, Places
<1> QED
  BY <1>1 DEF Tallied, Pool

\* One that judges a request adds it to the tally of its pool and bucket.
LEMMA TalliesGrow ==
  ASSUME Tallied, LimiterTypeOK, NEW r \in Requests, NEW b \in Buckets, NEW n,
         lim[r] \notin {"admitted", "refused"}, Judge(r, b, n), connected' = connected
  PROVE  Tallied'
<1> DEFINE q == Pool(WorkerOf[r])
<1>1. q \in Places /\ \A s \in Requests : Pool(WorkerOf[s])' = Pool(WorkerOf[s])
  BY WorkerOfAssumption DEF Pool, Places
<1>2. /\ bucket'[r] = b
      /\ \A s \in Requests \ {r} : lim'[s] = lim[s] /\ bucket'[s] = bucket[s]
  BY DEF Judge, LimiterTypeOK
<1>3. CASE WithinLimit(n)
  <2>1. lim'[r] = "admitted" /\ refused' = refused
        /\ admitted' = [admitted EXCEPT ![q][b] = @ + 1]
    BY <1>3 DEF Judge, LimiterTypeOK
  <2>2. ASSUME NEW p \in Places, NEW c \in Buckets
        PROVE  IsFiniteSet(Admitted(p, c))' /\ admitted'[p][c] = Cardinality(Admitted(p, c)')
    <3>1. CASE p = q /\ c = b
      <4>1. Admitted(p, c)' = Admitted(p, c) \union {r} /\ r \notin Admitted(p, c)
        BY <1>1, <1>2, <2>1, <3>1 DEF Admitted
      <4>2. /\ IsFiniteSet(Admitted(p, c)) /\ admitted[p][c] = Cardinality(Admitted(p, c))
        BY DEF Tallied
      <4>3. /\ IsFiniteSet(Admitted(p, c) \union {r})
            /\ Cardinality(Admitted(p, c) \union {r}) = Cardinality(Admitted(p, c)) + 1
        BY <4>1, <4>2, FS_AddElement
      <4>4. admitted'[p][c] = admitted[p][c] + 1
        BY <1>1, <2>1, <3>1 DEF LimiterTypeOK
      <4> QED
        BY <4>1, <4>2, <4>3, <4>4
    <3>2. CASE ~(p = q /\ c = b)
      <4>1. Admitted(p, c)' = Admitted(p, c)
        BY <1>1, <1>2, <2>1, <3>2 DEF Admitted
      <4>2. admitted'[p][c] = admitted[p][c]
        BY <1>1, <2>1, <3>2 DEF LimiterTypeOK
      <4> QED
        BY <4>1, <4>2 DEF Tallied
    <3> QED
      BY <3>1, <3>2
  <2>3. ASSUME NEW s \in Requests, lim'[s] = "refused"
        PROVE  bucket'[s] \in Buckets /\ refused'[Pool(WorkerOf[s])'][bucket'[s]] > 0
    BY <1>1, <1>2, <2>1, <2>3 DEF Tallied
  <2> QED
    BY <2>2, <2>3 DEF Tallied
<1>4. CASE ~WithinLimit(n)
  <2>1. lim'[r] = "refused" /\ admitted' = admitted
        /\ refused' = [refused EXCEPT ![q][b] = @ + 1]
    BY <1>4 DEF Judge, LimiterTypeOK
  <2>2. ASSUME NEW p \in Places, NEW c \in Buckets
        PROVE  IsFiniteSet(Admitted(p, c))' /\ admitted'[p][c] = Cardinality(Admitted(p, c)')
    <3>1. Admitted(p, c)' = Admitted(p, c)
      BY <1>1, <1>2, <2>1 DEF Admitted
    <3> QED
      BY <2>1, <3>1 DEF Tallied
  <2>3. ASSUME NEW s \in Requests, lim'[s] = "refused"
        PROVE  bucket'[s] \in Buckets /\ refused'[Pool(WorkerOf[s])'][bucket'[s]] > 0
    <3>1. refused'[q][b] = refused[q][b] + 1 /\ refused[q][b] \in Nat
      BY <1>1, <2>1 DEF LimiterTypeOK
    <3>2. CASE s = r
      BY <1>1, <1>2, <3>1, <3>2
    <3>3. CASE s # r
      <4> DEFINE p == Pool(WorkerOf[s])
      <4>1. p \in Places /\ bucket[s] \in Buckets /\ refused[p][bucket[s]] > 0
        BY <1>2, <2>3, <3>3, WorkerOfAssumption DEF Tallied, Pool, Places
      <4>2. refused'[p][bucket[s]] = refused[p][bucket[s]] \/ (p = q /\ bucket[s] = b)
        BY <1>1, <2>1, <4>1 DEF LimiterTypeOK
      <4> QED
        BY <1>1, <1>2, <3>1, <3>3, <4>1, <4>2
    <3> QED
      BY <3>2, <3>3
  <2> QED
    BY <2>2, <2>3 DEF Tallied
<1> QED
  BY <1>3, <1>4

\* The tallies follow the judgements.
LEMMA TalliedStep ==
  IInv /\ [LimiterNext]_limiterVars => Tallied'
<1> SUFFICES ASSUME IInv, [LimiterNext]_limiterVars PROVE Tallied'
  OBVIOUS
<1> USE DEF IInv
<1>1. ASSUME NEW r \in Requests, Arrive(r) PROVE Tallied'
  BY <1>1, TalliesStay DEF Arrive, history, LimiterTypeOK
<1>2. ASSUME NEW r \in Requests, CountAlone(r) PROVE Tallied'
  BY <1>2, NewBucket, TalliesGrow DEF CountAlone, LimiterTypeOK
<1>3. ASSUME NEW r \in Requests, Count(r) PROVE Tallied'
  BY <1>3, BucketOf, TalliesGrow DEF Count
<1>4. ASSUME NEW r \in Requests, NEW took \in BOOLEAN, PipelineFails(r, took) PROVE Tallied'
  BY <1>4, TalliesStay DEF PipelineFails, LimiterTypeOK
<1>5. ASSUME NEW r \in Requests, NEW p \in {Redis, WorkerOf[r]}, Get(r, p) PROVE Tallied'
  BY <1>5, TalliesStay DEF Get, history, LimiterTypeOK
<1>6. ASSUME NEW r \in Requests, NEW places \in Written(r), Set(r, places) PROVE Tallied'
  BY <1>6, BucketOf, TalliesGrow DEF Set
<1>7. CASE Tick
  BY <1>7, TalliesStay DEF Tick, history
<1>8. ASSUME NEW p \in Places, NEW b \in Buckets, Expire(p, b) PROVE Tallied'
  BY <1>8, TalliesStay DEF Expire
<1>9. CASE UNCHANGED limiterVars
  BY <1>9, TalliesStay DEF limiterVars, history
<1> HIDE DEF IInv
<1> QED
  BY <1>1, <1>2, <1>3, <1>4, <1>5, <1>6, <1>7, <1>8, <1>9
     DEF LimiterNext, Enter, Check, Time

-----------------------------------------------------------------------------
LEMMA InitIInv == LimiterInit => IInv
<1> SUFFICES ASSUME LimiterInit PROVE IInv
  OBVIOUS
<1>1. LimiterTypeOK /\ Fits /\ Bounded /\ Counted /\ RefusalsFollowLimit
  BY LimitAssumption, MaxMinuteAssumption, WorkersAssumption
     DEF LimiterInit, LimiterTypeOK, Fits, Bounded, Counted, RefusalsFollowLimit,
         Zeros, Places, Minutes, Redis
<1>2. \A p \in Places, b \in Buckets : Admitted(p, b) = {} /\ admitted[p][b] = 0
  BY DEF LimiterInit, Admitted, Zeros
<1>3. Tallied
  BY <1>2, FS_EmptySet DEF Tallied, LimiterInit
<1> QED
  BY <1>1, <1>3 DEF IInv

\* IInv, which the theorems below follow from, is kept by every step.
THEOREM InductiveInvariant == LimiterSpec => []IInv
<1>1. IInv /\ [LimiterNext]_limiterVars => IInv'
  BY TypeStep, FitsStep, BoundedStep, CountedStep, DeservedStep, TalliedStep DEF IInv
<1> QED
  BY InitIInv, <1>1, PTL DEF LimiterSpec

\* The limiter's state is always well-typed.
THEOREM LimiterTypeCorrect == LimiterSpec => []LimiterTypeOK
<1>1. IInv => LimiterTypeOK
  BY DEF IInv
<1> QED
  BY InductiveInvariant, <1>1, PTL

\* The limit is exceeded only as often as fallbacks and expiries put a counter back.
THEOREM LimitHolds == LimiterSpec => []OverrunsAreExplained
<1>1. IInv => OverrunsAreExplained
  <2> SUFFICES ASSUME IInv, NEW b \in Buckets
               PROVE  /\ admitted[Redis][b] <= Limit * (resets[b] + 1)
                      /\ \A w \in Workers : w \notin connected => admitted[w][b] <= Limit
    BY DEF OverrunsAreExplained
  <2>1. resets[b] \in Nat
    BY DEF IInv, LimiterTypeOK
  <2> QED
    BY <2>1, OneResetMore DEF IInv, Bounded
<1> QED
  BY InductiveInvariant, <1>1, PTL

\* Nobody is refused before the limit of its prefix and minute was let through.
THEOREM RefusalsHaveACause == LimiterSpec => []RefusalsFollowLimit
<1>1. IInv => RefusalsFollowLimit
  BY DEF IInv
<1> QED
  BY InductiveInvariant, <1>1, PTL
=============================================================================
