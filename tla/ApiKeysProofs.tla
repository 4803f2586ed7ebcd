--------------------------- MODULE ApiKeysProofs ---------------------------
(* Proofs about ApiKeys for any requests, keys, workers and limit.  Its      *)
(* steps are steps of the RateLimiter, whose theorems hold of it.            *)
EXTENDS ApiKeys, RateLimiterProofs

KeyTypes ==
  /\ key \in [Keys -> {"none", "active", "revoked"}]
  /\ auth \in [Requests -> {"new", "loaded", "waiting", "inside", "done"}]
  /\ revoking \in [Keys -> {"no", "waiting", "flushed", "answered"}]
  /\ told \subseteq Keys
  /\ overtaken \subseteq Requests

\* The limiter is asked inside the request's transaction, after authentication.
CallsAreInside ==
  \A r \in Requests :
    /\ lim[r] \in {"count", "get", "set"} => auth[r] = "inside"
    /\ auth[r] = "inside" => lim[r] # "outside"
    /\ auth[r] \in {"new", "loaded", "waiting"} => lim[r] = "outside"

\* The row of a key is held by one transaction at a time.
RowsAreHeldOnce ==
  \A r \in Requests :
    auth[r] = "inside" =>
      /\ \A s \in Requests : auth[s] = "inside" /\ KeyOf[s] = KeyOf[r] => s = r
      /\ revoking[KeyOf[r]] \notin {"flushed", "answered"}

\* Who goes on with a revoked key had loaded it when it was revoked.
LoadedBefore ==
  \A r \in Requests :
    key[KeyOf[r]] = "revoked" /\ auth[r] \in {"loaded", "waiting", "inside"} => r \in overtaken

\* Only a key that was created is being revoked, or was.
KnownKeys == \A k \in Keys : key[k] = "none" => revoking[k] = "no" /\ k \notin told

KInv == /\ IInv
        /\ KeyTypes
        /\ CallsAreInside
        /\ RowsAreHeldOnce
        /\ LoadedBefore
        /\ KnownKeys
        /\ LostCountsNeedASharedPrefix

-----------------------------------------------------------------------------
\* Every step of ApiKeys is one of the limiter or leaves it alone.
LEMMA StepOfLimiter == [Next]_vars => [LimiterNext]_limiterVars
<1> SUFFICES ASSUME [Next]_vars PROVE [LimiterNext]_limiterVars
  OBVIOUS
<1>1. ASSUME NEW r \in Requests, TouchKey(r) PROVE LimiterNext
  BY <1>1 DEF TouchKey, LimiterNext
<1>2. ASSUME NEW r \in Requests, CheckLimit(r) PROVE LimiterNext
  BY <1>2 DEF CheckLimit, LimiterNext
<1>3. CASE Time
  BY <1>3 DEF LimiterNext
<1>4. \/ UNCHANGED limiterVars
      \/ Time
      \/ \E r \in Requests : TouchKey(r) \/ CheckLimit(r)
  BY DEF Next, vars, Authenticate, Admin, LoadKey, RejectKey, CheckTenant, DatabaseFails,
     End, CreateKey, AskRevocation, FlushRevocation, AnswerRevocation, CommitRevocation,
     RevocationFails
<1> QED
  BY <1>1, <1>2, <1>3, <1>4

\* What the limiter's steps do to the phases of requests.
LEMMA EnterPhases ==
  ASSUME IInv, NEW r \in Requests, Enter(r)
  PROVE  /\ lim[r] = "outside" /\ lim'[r] # "outside"
         /\ \A s \in Requests \ {r} : lim'[s] = lim[s]
BY DEF Enter, Arrive, CountAlone, Judge, IInv, LimiterTypeOK

LEMMA CheckPhases ==
  ASSUME IInv, NEW r \in Requests, Check(r)
  PROVE  /\ lim[r] \in {"count", "get", "set"} /\ lim'[r] # "outside"
         /\ \A s \in Requests \ {r} : lim'[s] = lim[s]
BY DEF Check, Count, PipelineFails, Get, Set, Judge, IInv, LimiterTypeOK


\* The types are kept.
LEMMA KeyTypesStep ==
  KInv /\ [Next]_vars => KeyTypes'
<1> SUFFICES ASSUME KInv, [Next]_vars PROVE KeyTypes'
  OBVIOUS
<1> USE KeyOfAssumption
      DEF KInv, KeyTypes, Goto
<1>1. ASSUME NEW r \in Requests, LoadKey(r) PROVE KeyTypes'
  BY <1>1 DEF LoadKey
<1>2. ASSUME NEW r \in Requests, RejectKey(r) PROVE KeyTypes'
  BY <1>2 DEF RejectKey
<1>3. ASSUME NEW r \in Requests, CheckTenant(r) PROVE KeyTypes'
  BY <1>3 DEF CheckTenant
<1>4. ASSUME NEW r \in Requests, TouchKey(r) PROVE KeyTypes'
  BY <1>4 DEF TouchKey
<1>5. ASSUME NEW r \in Requests, DatabaseFails(r) PROVE KeyTypes'
  BY <1>5 DEF DatabaseFails
<1>6. ASSUME NEW r \in Requests, CheckLimit(r) PROVE KeyTypes'
  BY <1>6 DEF CheckLimit, keyVars
<1>7. ASSUME NEW r \in Requests, End(r) PROVE KeyTypes'
  BY <1>7 DEF End
<1>8. ASSUME NEW k \in Keys, CreateKey(k) PROVE KeyTypes'
  BY <1>8 DEF CreateKey
<1>9. ASSUME NEW k \in Keys, AskRevocation(k) PROVE KeyTypes'
  BY <1>9 DEF AskRevocation
<1>10. ASSUME NEW k \in Keys, FlushRevocation(k) PROVE KeyTypes'
  BY <1>10 DEF FlushRevocation
<1>11. ASSUME NEW k \in Keys, AnswerRevocation(k) PROVE KeyTypes'
  BY <1>11 DEF AnswerRevocation
<1>12. ASSUME NEW k \in Keys, CommitRevocation(k) PROVE KeyTypes'
  BY <1>12 DEF CommitRevocation
<1>13. ASSUME NEW k \in Keys, RevocationFails(k) PROVE KeyTypes'
  BY <1>13 DEF RevocationFails
<1>14. CASE Time /\ UNCHANGED keyVars
  BY <1>14 DEF keyVars
<1>15. CASE UNCHANGED vars
  BY <1>15 DEF vars, keyVars, limiterVars, history
<1> HIDE DEF KInv, KeyTypes
<1> QED
  BY <1>1, <1>2, <1>3, <1>4, <1>5, <1>6, <1>7, <1>8, <1>9, <1>10, <1>11, <1>12, <1>13,
     <1>14, <1>15 DEF Next, Authenticate, Admin

\* A request enters the limiter when its transaction gets the key's row, and ends it
\* only after the limiter has answered.
LEMMA InsideStep ==
  KInv /\ [Next]_vars => CallsAreInside'
<1> SUFFICES ASSUME KInv, [Next]_vars PROVE CallsAreInside'
  OBVIOUS
<1> USE KeyOfAssumption
      DEF KInv, KeyTypes, Goto, CallsAreInside
<1>1. ASSUME NEW r \in Requests, LoadKey(r) PROVE CallsAreInside'
  BY <1>1 DEF LoadKey, limiterVars
<1>2. ASSUME NEW r \in Requests, RejectKey(r) PROVE CallsAreInside'
  BY <1>2 DEF RejectKey, limiterVars
<1>3. ASSUME NEW r \in Requests, CheckTenant(r) PROVE CallsAreInside'
  BY <1>3 DEF CheckTenant, limiterVars
<1>4. ASSUME NEW r \in Requests, TouchKey(r) PROVE CallsAreInside'
  BY <1>4, EnterPhases DEF TouchKey
<1>5. ASSUME NEW r \in Requests, DatabaseFails(r) PROVE CallsAreInside'
  BY <1>5 DEF DatabaseFails, limiterVars
<1>6. ASSUME NEW r \in Requests, CheckLimit(r) PROVE CallsAreInside'
  BY <1>6, CheckPhases DEF CheckLimit, keyVars
<1>7. ASSUME NEW r \in Requests, End(r) PROVE CallsAreInside'
  BY <1>7 DEF End, limiterVars
<1>8. ASSUME NEW k \in Keys, CreateKey(k) PROVE CallsAreInside'
  BY <1>8 DEF CreateKey, limiterVars
<1>9. ASSUME NEW k \in Keys, AskRevocation(k) PROVE CallsAreInside'
  BY <1>9 DEF AskRevocation, limiterVars
<1>10. ASSUME NEW k \in Keys, FlushRevocation(k) PROVE CallsAreInside'
  BY <1>10 DEF FlushRevocation, limiterVars
<1>11. ASSUME NEW k \in Keys, AnswerRevocation(k) PROVE CallsAreInside'
  BY <1>11 DEF AnswerRevocation, limiterVars
<1>12. ASSUME NEW k \in Keys, CommitRevocation(k) PROVE CallsAreInside'
  BY <1>12 DEF CommitRevocation, limiterVars
<1>13. ASSUME NEW k \in Keys, RevocationFails(k) PROVE CallsAreInside'
  BY <1>13 DEF RevocationFails, limiterVars
<1>14. CASE Time /\ UNCHANGED keyVars
  <2>1. lim' = lim
    BY <1>14 DEF Time, Tick, Expire
  <2> QED
    BY <1>14, <2>1 DEF keyVars
<1>15. CASE UNCHANGED vars
  BY <1>15 DEF vars, keyVars, limiterVars, history
<1> HIDE DEF KInv, CallsAreInside
<1> QED
  BY <1>1, <1>2, <1>3, <1>4, <1>5, <1>6, <1>7, <1>8, <1>9, <1>10, <1>11, <1>12, <1>13,
     <1>14, <1>15 DEF Next, Authenticate, Admin

\* A row is taken only when it is free.
LEMMA RowsStep ==
  KInv /\ [Next]_vars => RowsAreHeldOnce'
<1> SUFFICES ASSUME KInv, [Next]_vars PROVE RowsAreHeldOnce'
  OBVIOUS
<1> USE KeyOfAssumption
      DEF KInv, KeyTypes, Goto, RowsAreHeldOnce, RowFree, Holders
<1>1. ASSUME NEW r \in Requests, LoadKey(r) PROVE RowsAreHeldOnce'
  BY <1>1 DEF LoadKey
<1>2. ASSUME NEW r \in Requests, RejectKey(r) PROVE RowsAreHeldOnce'
  BY <1>2 DEF RejectKey
<1>3. ASSUME NEW r \in Requests, CheckTenant(r) PROVE RowsAreHeldOnce'
  BY <1>3 DEF CheckTenant
<1>4. ASSUME NEW r \in Requests, TouchKey(r) PROVE RowsAreHeldOnce'
  BY <1>4 DEF TouchKey
<1>5. ASSUME NEW r \in Requests, DatabaseFails(r) PROVE RowsAreHeldOnce'
  BY <1>5 DEF DatabaseFails
<1>6. ASSUME NEW r \in Requests, CheckLimit(r) PROVE RowsAreHeldOnce'
  BY <1>6 DEF CheckLimit, keyVars
<1>7. ASSUME NEW r \in Requests, End(r) PROVE RowsAreHeldOnce'
  BY <1>7 DEF End
<1>8. ASSUME NEW k \in Keys, CreateKey(k) PROVE RowsAreHeldOnce'
  BY <1>8 DEF CreateKey
<1>9. ASSUME NEW k \in Keys, AskRevocation(k) PROVE RowsAreHeldOnce'
  BY <1>9 DEF AskRevocation
<1>10. ASSUME NEW k \in Keys, FlushRevocation(k) PROVE RowsAreHeldOnce'
  BY <1>10 DEF FlushRevocation
<1>11. ASSUME NEW k \in Keys, AnswerRevocation(k) PROVE RowsAreHeldOnce'
  BY <1>11 DEF AnswerRevocation
<1>12. ASSUME NEW k \in Keys, CommitRevocation(k) PROVE RowsAreHeldOnce'
  BY <1>12 DEF CommitRevocation
<1>13. ASSUME NEW k \in Keys, RevocationFails(k) PROVE RowsAreHeldOnce'
  BY <1>13 DEF RevocationFails
<1>14. CASE Time /\ UNCHANGED keyVars
  BY <1>14 DEF keyVars
<1>15. CASE UNCHANGED vars
  BY <1>15 DEF vars, keyVars, limiterVars, history
<1> HIDE DEF KInv, RowsAreHeldOnce
<1> QED
  BY <1>1, <1>2, <1>3, <1>4, <1>5, <1>6, <1>7, <1>8, <1>9, <1>10, <1>11, <1>12, <1>13,
     <1>14, <1>15 DEF Next, Authenticate, Admin

\* Only an active key is loaded, and nobody holds the row when the key is revoked.
LEMMA LoadedStep ==
  KInv /\ [Next]_vars => LoadedBefore'
<1> SUFFICES ASSUME KInv, [Next]_vars PROVE LoadedBefore'
  OBVIOUS
<1> USE KeyOfAssumption
      DEF KInv, KeyTypes, Goto, LoadedBefore, RowsAreHeldOnce
<1>1. ASSUME NEW r \in Requests, LoadKey(r) PROVE LoadedBefore'
  BY <1>1 DEF LoadKey
<1>2. ASSUME NEW r \in Requests, RejectKey(r) PROVE LoadedBefore'
  BY <1>2 DEF RejectKey
<1>3. ASSUME NEW r \in Requests, CheckTenant(r) PROVE LoadedBefore'
  BY <1>3 DEF CheckTenant
<1>4. ASSUME NEW r \in Requests, TouchKey(r) PROVE LoadedBefore'
  BY <1>4 DEF TouchKey
<1>5. ASSUME NEW r \in Requests, DatabaseFails(r) PROVE LoadedBefore'
  BY <1>5 DEF DatabaseFails
<1>6. ASSUME NEW r \in Requests, CheckLimit(r) PROVE LoadedBefore'
  BY <1>6 DEF CheckLimit, keyVars
<1>7. ASSUME NEW r \in Requests, End(r) PROVE LoadedBefore'
  BY <1>7 DEF End
<1>8. ASSUME NEW k \in Keys, CreateKey(k) PROVE LoadedBefore'
  BY <1>8 DEF CreateKey
<1>9. ASSUME NEW k \in Keys, AskRevocation(k) PROVE LoadedBefore'
  BY <1>9 DEF AskRevocation
<1>10. ASSUME NEW k \in Keys, FlushRevocation(k) PROVE LoadedBefore'
  BY <1>10 DEF FlushRevocation
<1>11. ASSUME NEW k \in Keys, AnswerRevocation(k) PROVE LoadedBefore'
  BY <1>11 DEF AnswerRevocation
<1>12. ASSUME NEW k \in Keys, CommitRevocation(k) PROVE LoadedBefore'
  BY <1>12 DEF CommitRevocation
<1>13. ASSUME NEW k \in Keys, RevocationFails(k) PROVE LoadedBefore'
  BY <1>13 DEF RevocationFails
<1>14. CASE Time /\ UNCHANGED keyVars
  BY <1>14 DEF keyVars
<1>15. CASE UNCHANGED vars
  BY <1>15 DEF vars, keyVars, limiterVars, history
<1> HIDE DEF KInv, LoadedBefore
<1> QED
  BY <1>1, <1>2, <1>3, <1>4, <1>5, <1>6, <1>7, <1>8, <1>9, <1>10, <1>11, <1>12, <1>13,
     <1>14, <1>15 DEF Next, Authenticate, Admin

\* A key is revoked only when it is active.
LEMMA KnownStep ==
  KInv /\ [Next]_vars => KnownKeys'
<1> SUFFICES ASSUME KInv, [Next]_vars PROVE KnownKeys'
  OBVIOUS
<1> USE KeyOfAssumption
      DEF KInv, KeyTypes, Goto, KnownKeys
<1>1. ASSUME NEW r \in Requests, LoadKey(r) PROVE KnownKeys'
  BY <1>1 DEF LoadKey
<1>2. ASSUME NEW r \in Requests, RejectKey(r) PROVE KnownKeys'
  BY <1>2 DEF RejectKey
<1>3. ASSUME NEW r \in Requests, CheckTenant(r) PROVE KnownKeys'
  BY <1>3 DEF CheckTenant
<1>4. ASSUME NEW r \in Requests, TouchKey(r) PROVE KnownKeys'
  BY <1>4 DEF TouchKey
<1>5. ASSUME NEW r \in Requests, DatabaseFails(r) PROVE KnownKeys'
  BY <1>5 DEF DatabaseFails
<1>6. ASSUME NEW r \in Requests, CheckLimit(r) PROVE KnownKeys'
  BY <1>6 DEF CheckLimit, keyVars
<1>7. ASSUME NEW r \in Requests, End(r) PROVE KnownKeys'
  BY <1>7 DEF End
<1>8. ASSUME NEW k \in Keys, CreateKey(k) PROVE KnownKeys'
  BY <1>8 DEF CreateKey
<1>9. ASSUME NEW k \in Keys, AskRevocation(k) PROVE KnownKeys'
  BY <1>9 DEF AskRevocation
<1>10. ASSUME NEW k \in Keys, FlushRevocation(k) PROVE KnownKeys'
  BY <1>10 DEF FlushRevocation
<1>11. ASSUME NEW k \in Keys, AnswerRevocation(k) PROVE KnownKeys'
  BY <1>11 DEF AnswerRevocation
<1>12. ASSUME NEW k \in Keys, CommitRevocation(k) PROVE KnownKeys'
  BY <1>12 DEF CommitRevocation
<1>13. ASSUME NEW k \in Keys, RevocationFails(k) PROVE KnownKeys'
  BY <1>13 DEF RevocationFails
<1>14. CASE Time /\ UNCHANGED keyVars
  BY <1>14 DEF keyVars
<1>15. CASE UNCHANGED vars
  BY <1>15 DEF vars, keyVars, limiterVars, history
<1> HIDE DEF KInv, KnownKeys
<1> QED
  BY <1>1, <1>2, <1>3, <1>4, <1>5, <1>6, <1>7, <1>8, <1>9, <1>10, <1>11, <1>12, <1>13,
     <1>14, <1>15 DEF Next, Authenticate, Admin

\* A step that changes a counter is that of a request with its prefix, and not of
\* one with the same key: the fallback holds the row.
LEMMA LostStep ==
  KInv /\ [Next]_vars => LostCountsNeedASharedPrefix'
<1> SUFFICES ASSUME KInv, [Next]_vars, NEW r \in Requests, lim'[r] = "set",
                    count'[source'[r]][bucket'[r]] > seen'[r]
             PROVE  \E s \in Requests : /\ PrefixOf[s] = PrefixOf[r]
                                        /\ KeyOf[s] # KeyOf[r]
                                        /\ lim'[s] # "outside"
  BY DEF LostCountsNeedASharedPrefix
<1> DEFINE Other(s) == PrefixOf[s] = PrefixOf[r] /\ KeyOf[s] # KeyOf[r]
<1> USE DEF KInv
<1>1. \A s \in Requests : lim[s] # "outside" => lim'[s] # "outside"
  <2>1. [LimiterNext]_limiterVars
    BY StepOfLimiter
  <2>2. ASSUME NEW s \in Requests, Enter(s) \/ Check(s)
        PROVE  \A q \in Requests : lim[q] # "outside" => lim'[q] # "outside"
    BY <2>2, EnterPhases, CheckPhases
  <2>3. CASE Time
    BY <2>3 DEF Time, Tick, Expire
  <2>4. CASE UNCHANGED limiterVars
    BY <2>4 DEF limiterVars
  <2> QED
    BY <2>1, <2>2, <2>3, <2>4 DEF LimiterNext
\* The counters are as they were, or one was put back to zero.
<1>2. CASE /\ lim[r] = "set"
           /\ UNCHANGED <<source, bucket, seen>>
           /\ \A p \in Places, b \in Buckets : count'[p][b] <= count[p][b]
  <2>1. bucket[r] \in Buckets /\ source[r] \in Places
    BY <1>2, BucketOf, WorkerOfAssumption DEF IInv, Fits, Places
  <2>2. count[source[r]][bucket[r]] > seen[r]
    <3>1. count'[source[r]][bucket[r]] <= count[source[r]][bucket[r]]
      BY <1>2, <2>1
    <3>2. count'[source[r]][bucket[r]] > seen[r]
      BY <1>2
    <3>3. count[source[r]][bucket[r]] \in Nat /\ count'[source[r]][bucket[r]] \in Nat
          /\ seen[r] \in Nat
      BY <2>1, StepOfLimiter, TypeStep DEF IInv, LimiterTypeOK
    <3> QED
      BY <3>1, <3>2, <3>3
  <2>3. PICK s \in Requests : Other(s) /\ lim[s] # "outside"
    BY <1>2, <2>2 DEF LostCountsNeedASharedPrefix
  <2> QED
    BY <1>1, <2>3
\* A request has been counted, this one or another.
<1>3. ASSUME NEW q \in Requests, Enter(q) \/ Check(q), auth'[q] = "inside",
             lim[q] = "outside" => RowFree(KeyOf[q]),
             lim[q] # "outside" => auth[q] = "inside"
      PROVE  \E s \in Requests : Other(s) /\ lim'[s] # "outside"
  <2>1. CASE q = r
    <3>1. PICK p \in {Redis, WorkerOf[r]} : Get(r, p)
      BY <1>3, <2>1 DEF Enter, Check, Arrive, CountAlone, Count, PipelineFails, Set, Judge,
         IInv, LimiterTypeOK
    <3>2. seen'[r] = count[p][bucket[r]] /\ source'[r] = p /\ UNCHANGED <<count, bucket>>
      BY <3>1 DEF Get, IInv, LimiterTypeOK
    <3>3. count[p][bucket[r]] \in Nat
      BY <3>1, BucketOf, WorkerOfAssumption DEF Get, IInv, LimiterTypeOK, Places
    <3> QED
      BY <3>2, <3>3
  <2>2. CASE q # r
    <3>1. /\ lim[r] = "set" /\ bucket'[r] = bucket[r] /\ seen'[r] = seen[r]
          /\ source'[r] = source[r]
      BY <1>3, <2>2 DEF Enter, Check, Arrive, CountAlone, Count, PipelineFails, Get, Set,
         Judge,
         IInv, LimiterTypeOK, history
    <3>2. KeyOf[q] # KeyOf[r] /\ lim'[q] # "outside"
      <4>1. auth[r] = "inside"
        BY <3>1 DEF CallsAreInside
      <4> QED
        BY <1>3, <2>2, <4>1, EnterPhases, CheckPhases DEF RowsAreHeldOnce, RowFree, Holders
    <3>3. CASE PrefixOf[q] = PrefixOf[r]
      BY <3>2, <3>3
    <3>4. CASE PrefixOf[q] # PrefixOf[r]
      <4>1. bucket[r] \in Buckets /\ source[r] \in Places /\ bucket[r][1] = PrefixOf[r]
        BY <3>1, BucketOf, WorkerOfAssumption DEF IInv, Fits, Places
      <4>2. count'[source[r]][bucket[r]] = count[source[r]][bucket[r]]
        <5>1. lim[q] \in {"count", "get", "set"} => bucket[q][1] = PrefixOf[q]
          BY DEF IInv, Fits
        <5>2. bucket[r] # <<PrefixOf[q], minute>>
          BY <3>4, <4>1
        <5>3. lim[q] \in {"count", "get", "set"} => bucket[r] # bucket[q]
          BY <3>4, <4>1, <5>1
        <5>4. count \in [Places -> [Buckets -> Nat]] /\ Redis \in Places
              /\ WorkerOf[q] \in Places
          BY WorkerOfAssumption DEF IInv, LimiterTypeOK, Places
        <5>5. CASE Enter(q)
          BY <4>1, <5>2, <5>4, <5>5 DEF Enter, Arrive, CountAlone
        <5>6. CASE Count(q)
          BY <4>1, <5>3, <5>4, <5>6 DEF Count
        <5>7. ASSUME NEW took \in BOOLEAN, PipelineFails(q, took)
              PROVE  count'[source[r]][bucket[r]] = count[source[r]][bucket[r]]
          BY <4>1, <5>3, <5>4, <5>7 DEF PipelineFails
        <5>8. ASSUME NEW p \in {Redis, WorkerOf[q]}, Get(q, p)
              PROVE  count'[source[r]][bucket[r]] = count[source[r]][bucket[r]]
          BY <5>8 DEF Get
        <5>9. ASSUME NEW places \in Written(q), Set(q, places)
              PROVE  count'[source[r]][bucket[r]] = count[source[r]][bucket[r]]
          BY <4>1, <5>3, <5>4, <5>9 DEF Set
        <5> QED
          BY <1>3, <5>5, <5>6, <5>7, <5>8, <5>9 DEF Check
      <4>3. PICK s \in Requests : Other(s) /\ lim[s] # "outside"
        BY <3>1, <4>2 DEF LostCountsNeedASharedPrefix
      <4> QED
        BY <1>1, <4>3
    <3> QED
      BY <3>3, <3>4
  <2> QED
    BY <2>1, <2>2
<1>4. ASSUME NEW q \in Requests, TouchKey(q)
      PROVE  \E s \in Requests : Other(s) /\ lim'[s] # "outside"
  BY <1>3, <1>4 DEF TouchKey, Goto, KeyTypes, CallsAreInside
<1>5. ASSUME NEW q \in Requests, CheckLimit(q)
      PROVE  \E s \in Requests : Other(s) /\ lim'[s] # "outside"
  BY <1>3, <1>5, CheckPhases DEF CheckLimit, keyVars
<1>6. CASE Time
  <2>1. lim[r] = "set" /\ UNCHANGED <<source, bucket, seen>>
    BY <1>6 DEF Time, Tick, Expire, history
  <2>2. \A p \in Places, b \in Buckets : count'[p][b] <= count[p][b]
    <3>1. count \in [Places -> [Buckets -> Nat]]
      BY DEF IInv, LimiterTypeOK
    <3>2. CASE Tick
      BY <3>1, <3>2 DEF Tick
    <3>3. ASSUME NEW q \in Places, NEW c \in Buckets, Expire(q, c)
          PROVE  \A p \in Places, b \in Buckets : count'[p][b] <= count[p][b]
      <4> SUFFICES ASSUME NEW p \in Places, NEW b \in Buckets
                   PROVE  count'[p][b] <= count[p][b]
        OBVIOUS
      <4>1. count' = [count EXCEPT ![q][c] = 0] /\ count[p][b] \in Nat
        BY <3>1, <3>3 DEF Expire
      <4>2. count'[p][b] = IF p = q /\ b = c THEN 0 ELSE count[p][b]
        BY <3>1, <4>1
      <4> QED
        BY <4>1, <4>2
    <3> QED
      BY <1>6, <3>2, <3>3 DEF Time
  <2> QED
    BY <1>2, <2>1, <2>2
<1>7. CASE UNCHANGED limiterVars
  BY <1>2, <1>7 DEF limiterVars, history, IInv, LimiterTypeOK
<1>8. \/ UNCHANGED limiterVars
      \/ Time
      \/ \E q \in Requests : TouchKey(q) \/ CheckLimit(q)
  BY DEF Next, vars, Authenticate, Admin, LoadKey, RejectKey, CheckTenant, DatabaseFails,
     End, CreateKey, AskRevocation, FlushRevocation, AnswerRevocation, CommitRevocation,
     RevocationFails
<1> QED
  BY <1>4, <1>5, <1>6, <1>7, <1>8

-----------------------------------------------------------------------------
LEMMA InitKInv == Init => KInv
BY InitIInv DEF Init, LimiterInit, KInv, KeyTypes, CallsAreInside, RowsAreHeldOnce,
   LoadedBefore,
   KnownKeys, LostCountsNeedASharedPrefix

\* KInv, which the theorems below follow from, is kept by every step.
THEOREM KeysInductiveInvariant == Spec => []KInv
<1>1. KInv /\ [Next]_vars => KInv'
  <2> SUFFICES ASSUME KInv, [Next]_vars PROVE KInv'
    OBVIOUS
  <2>1. IInv'
    BY StepOfLimiter, TypeStep, FitsStep, BoundedStep, CountedStep, DeservedStep,
       TalliedStep DEF KInv, IInv
  <2> QED
    BY <2>1, KeyTypesStep, InsideStep, RowsStep, LoadedStep, KnownStep, LostStep
       DEF KInv
<1> QED
  BY InitKInv, <1>1, PTL DEF Spec

\* API keys and limiter together are always well-typed.
THEOREM TypeCorrect == Spec => []TypeOK
<1>1. KInv => TypeOK
  BY DEF KInv, IInv, KeyTypes, TypeOK
<1> QED
  BY KeysInductiveInvariant, <1>1, PTL

\* The dependency uses the limiter as RateLimiter describes it.
THEOREM LimiterIsImplemented == Spec => LimiterSpec
<1>1. Init => LimiterInit
  BY DEF Init
<1> QED
  BY <1>1, StepOfLimiter, PTL DEF Spec, LimiterSpec

\* In front of real keys, too, the limit holds but for fallbacks and expiries.
THEOREM LimitHoldsForKeys == Spec => []OverrunsAreExplained
BY LimiterIsImplemented, LimitHolds, PTL

\* A request is refused only when the limit of its own key was let through or other
\* keys with its first 12 characters were counted with it.
THEOREM RefusalsHaveACauseForKeys == Spec => []RefusalsAreDeserved
<1>1. IInv => RefusalsAreDeserved
  <2> SUFFICES ASSUME IInv, NEW r \in Requests, lim[r] = "refused",
                      \A s \in Requests : bucket[s] = bucket[r] => KeyOf[s] = KeyOf[r]
               PROVE  Cardinality(OwnAdmitted(r)) + lost[bucket[r]] >= Limit
    BY DEF RefusalsAreDeserved
  <2> DEFINE p == Pool(WorkerOf[r])  b == bucket[r]
  <2>1. OwnAdmitted(r) = Admitted(p, b)
    BY DEF OwnAdmitted, Admitted
  <2>2. b \in Buckets /\ p \in Places /\ refused[p][b] > 0
        /\ admitted[p][b] = Cardinality(Admitted(p, b))
    BY WorkerOfAssumption DEF IInv, Tallied, Pool, Places
  <2>3. p = Redis \/ p \in Workers
    BY WorkerOfAssumption DEF Pool
  <2>4. admitted[p][b] \in Nat /\ lost[b] \in Nat
    BY <2>2 DEF IInv, LimiterTypeOK
  <2>5. admitted[p][b] + lost[b] >= Limit
    BY <2>2, <2>3, <2>4, LimitAssumption DEF IInv, RefusalsFollowLimit
  <2> QED
    BY <2>1, <2>2, <2>5
<1>2. KInv => IInv
  BY DEF KInv
<1> QED
  BY KeysInductiveInvariant, <1>1, <1>2, PTL

\* Once its revocation may have been answered a key is used only by requests that had
\* loaded it before the commit, or because that commit failed.
THEOREM RevocationIsFinal == Spec => []RevokedKeysAreSpent
<1>1. KInv => RevokedKeysAreSpent
  <2> SUFFICES ASSUME KInv, NEW r \in Requests, auth[r] = "inside", KeyOf[r] \in told
               PROVE  \/ r \in overtaken
                      \/ key[KeyOf[r]] = "active" /\ revoking[KeyOf[r]] # "answered"
    BY DEF RevokedKeysAreSpent
  <2>1. KeyOf[r] \in Keys /\ key[KeyOf[r]] \in {"active", "revoked"}
    BY KeyOfAssumption DEF KInv, KeyTypes, KnownKeys
  <2>2. CASE key[KeyOf[r]] = "revoked"
    BY <2>2 DEF KInv, LoadedBefore
  <2>3. CASE key[KeyOf[r]] = "active"
    BY <2>3 DEF KInv, RowsAreHeldOnce
  <2> QED
    BY <2>1, <2>2, <2>3
<1> QED
  BY KeysInductiveInvariant, <1>1, PTL

\* Counts are lost only between keys that share their first 12 characters.
THEOREM KeysNeverLoseTheirOwnCounts == Spec => []LostCountsNeedASharedPrefix
<1>1. KInv => LostCountsNeedASharedPrefix
  BY DEF KInv
<1> QED
  BY KeysInductiveInvariant, <1>1, PTL
=============================================================================
