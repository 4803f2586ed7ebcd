------------------------------ MODULE ApiKeys ------------------------------
(* API keys and the dependency every tenant request goes through:           *)
(* get_current_tenant_and_key with authenticate_api_key, in front of the    *)
(* RateLimiter, against the admin endpoints that create and revoke keys.    *)
(* Authentication flushes last_used_at, and with autocommit off the key's   *)
(* row stays locked until the request ends, the limiter's call of Redis     *)
(* included.                                                                *)
EXTENDS RateLimiter

CONSTANTS Keys,
          KeyOf,       \* the key a request presents
          Issued,      \* the keys created before
          Revocable,   \* the keys an operator may revoke
          Suspendable  \* the keys whose tenant an operator may have set inactive

ASSUME KeyOfAssumption == KeyOf \in [Requests -> Keys]
ASSUME PrefixOfKeyAssumption ==
  \A r, s \in Requests : KeyOf[r] = KeyOf[s] => PrefixOf[r] = PrefixOf[s]

VARIABLES
  key,        \* the committed row of each key: absent, "active" or "revoked"
  auth,       \* how far each request's authentication and its transaction are
  revoking,   \* the state of each key's revocation request
  told,       \* history: the keys whose revocation may have been answered
  overtaken   \* history: requests that had loaded their key when it was revoked

keyVars == <<key, auth, revoking, told, overtaken>>
vars == <<limiterVars, keyVars>>

TypeOK ==
  /\ LimiterTypeOK
  /\ key \in [Keys -> {"none", "active", "revoked"}]
  /\ auth \in [Requests -> {"new", "loaded", "waiting", "inside", "done"}]
  /\ revoking \in [Keys -> {"no", "waiting", "flushed", "answered"}]
  /\ told \subseteq Keys
  /\ overtaken \subseteq Requests

Init ==
  /\ LimiterInit
  /\ key = [k \in Keys |-> IF k \in Issued THEN "active" ELSE "none"]
  /\ auth = [r \in Requests |-> "new"]
  /\ revoking = [k \in Keys |-> "no"]
  /\ told = {}
  /\ overtaken = {}

-----------------------------------------------------------------------------
\* Helpers

\* The transactions that have updated the row of key k and not ended.
Holders(k) == {r \in Requests : auth[r] = "inside" /\ KeyOf[r] = k}
RowFree(k) == Holders(k) = {} /\ revoking[k] \notin {"flushed", "answered"}

Goto(r, phase) == auth' = [auth EXCEPT ![r] = phase]

-----------------------------------------------------------------------------
\* authenticate_api_key and what follows it in the request

\* (A slip: the lookup is by the hash alone.)
LoadAnyKey(r) ==
  /\ auth[r] = "new"
  /\ key[KeyOf[r]] # "none"
  /\ Goto(r, "loaded")
  /\ UNCHANGED <<limiterVars, key, revoking, told, overtaken>>

\* SELECT of the key by its hash among the active ones.
LoadKey(r) ==
  /\ auth[r] = "new"
  /\ key[KeyOf[r]] = "active"
  /\ Goto(r, "loaded")
  /\ UNCHANGED <<limiterVars, key, revoking, told, overtaken>>

\* "Invalid or revoked API key".
RejectKey(r) ==
  /\ auth[r] = "new"
  /\ key[KeyOf[r]] # "active"
  /\ Goto(r, "done")
  /\ UNCHANGED <<limiterVars, key, revoking, told, overtaken>>

\* selectinload fetches the tenant by a SELECT of its own; it may be inactive.
CheckTenant(r) ==
  /\ auth[r] = "loaded"
  /\ \/ Goto(r, "waiting")
     \/ KeyOf[r] \in Suspendable /\ Goto(r, "done")
  /\ UNCHANGED <<limiterVars, key, revoking, told, overtaken>>

\* (A slip: last_used_at is left to the flush of the commit, so nothing is locked
\* and nothing waited for.)
TouchKeyLater(r) ==
  /\ auth[r] = "waiting"
  /\ Goto(r, "inside")
  /\ Enter(r)
  /\ UNCHANGED <<key, revoking, told, overtaken>>

\* The database fails a request that has not got the row; get_db rolls back.
DatabaseFails(r) ==
  /\ auth[r] \in {"loaded", "waiting"}
  /\ Goto(r, "done")
  /\ UNCHANGED <<limiterVars, key, revoking, told, overtaken>>

\* The flush of last_used_at gets the key's row, whatever has become of the key,
\* and the limiter is asked.  Without Redis it answers at once.
TouchKey(r) ==
  /\ auth[r] = "waiting"
  /\ RowFree(KeyOf[r])
  /\ Goto(r, "inside")
  /\ Enter(r)
  /\ UNCHANGED <<key, revoking, told, overtaken>>

CheckLimit(r) ==
  /\ auth[r] = "inside"
  /\ Check(r)
  /\ UNCHANGED keyVars

\* The handler is through, or the limiter raised 429: get_db commits or rolls back.
End(r) ==
  /\ auth[r] = "inside"
  /\ lim[r] \in {"admitted", "refused"}
  /\ Goto(r, "done")
  /\ UNCHANGED <<limiterVars, key, revoking, told, overtaken>>

-----------------------------------------------------------------------------
\* The admin endpoints

CreateKey(k) ==
  /\ key[k] = "none"
  /\ key' = [key EXCEPT ![k] = "active"]
  /\ UNCHANGED <<limiterVars, auth, revoking, told, overtaken>>

\* revoke_api_key has loaded the key; its UPDATE waits for the row.
AskRevocation(k) ==
  /\ k \in Revocable
  /\ key[k] = "active"
  /\ revoking[k] = "no"
  /\ revoking' = [revoking EXCEPT ![k] = "waiting"]
  /\ UNCHANGED <<limiterVars, key, auth, told, overtaken>>

FlushRevocation(k) ==
  /\ revoking[k] = "waiting"
  /\ RowFree(k)
  /\ revoking' = [revoking EXCEPT ![k] = "flushed"]
  /\ UNCHANGED <<limiterVars, key, auth, told, overtaken>>

\* requirements.txt admits releases of FastAPI that run get_db's exit, and so the
\* commit, only after the answer: there "API key revoked" goes out first.
AnswerRevocation(k) ==
  /\ revoking[k] = "flushed"
  /\ revoking' = [revoking EXCEPT ![k] = "answered"]
  /\ told' = told \union {k}
  /\ UNCHANGED <<limiterVars, key, auth, overtaken>>

\* get_db commits.  In the other releases the answer may be out from here on.
CommitRevocation(k) ==
  /\ revoking[k] \in {"flushed", "answered"}
  /\ key' = [key EXCEPT ![k] = "revoked"]
  /\ told' = told \union {k}
  /\ overtaken' = overtaken \union {r \in Requests : /\ KeyOf[r] = k
                                                     /\ auth[r] \in {"loaded", "waiting"}}
  /\ revoking' = [revoking EXCEPT ![k] = "no"]
  /\ UNCHANGED <<limiterVars, auth>>

\* The flush or the commit fails, before the answer or after it, and get_db rolls back.
RevocationFails(k) ==
  /\ revoking[k] # "no"
  /\ revoking' = [revoking EXCEPT ![k] = "no"]
  /\ UNCHANGED <<limiterVars, key, auth, told, overtaken>>

Authenticate(r) == \/ LoadKey(r) \/ RejectKey(r) \/ CheckTenant(r) \/ TouchKey(r)
                   \/ DatabaseFails(r)

Admin(k) == \/ CreateKey(k) \/ AskRevocation(k) \/ FlushRevocation(k)
            \/ AnswerRevocation(k) \/ CommitRevocation(k) \/ RevocationFails(k)

Next == \/ \E r \in Requests : Authenticate(r) \/ CheckLimit(r) \/ End(r)
        \/ \E k \in Keys : Admin(k)
        \/ Time /\ UNCHANGED keyVars

Spec == Init /\ [][Next]_vars

-----------------------------------------------------------------------------
\* Properties

\* The requests with r's key let through in the minute and the pool r was counted in.
OwnAdmitted(r) == {s \in Admitted(Pool(WorkerOf[r]), bucket[r]) : KeyOf[s] = KeyOf[r]}

\* A request is refused only when the limit of its own key was let through in its
\* minute, a lost answer to an INCR counting as one more; or when a request with
\* another key was counted with it, for the code counts by the key's first 12
\* characters where the documents promise the limit per key.
RefusalsAreDeserved ==
  \A r \in Requests : lim[r] = "refused" =>
    \/ Cardinality(OwnAdmitted(r)) + lost[bucket[r]] >= Limit
    \/ \E s \in Requests : KeyOf[s] # KeyOf[r] /\ bucket[s] = bucket[r]

\* Once a revocation may have been answered, no request works with the key but for
\* those that had loaded it before the commit and were still waiting for its row: the
\* revocation waits for the requests under way, and nothing they write makes the key
\* active again.  A key whose revocation was answered before its commit works on only
\* when that commit has failed, and never while it is to come.
RevokedKeysAreSpent ==
  \A r \in Requests :
    auth[r] = "inside" /\ KeyOf[r] \in told =>
      \/ r \in overtaken
      \/ key[KeyOf[r]] = "active" /\ revoking[KeyOf[r]] # "answered"

\* The fallback's read and write of a counter are not atomic, but requests with one
\* key are never in it together, for each holds the key's row: a count that is about
\* to be lost is one of another key whose first 12 characters are the same.
LostCountsNeedASharedPrefix ==
  \A r \in Requests :
    lim[r] = "set" /\ count[source[r]][bucket[r]] > seen[r] =>
      \E s \in Requests : /\ PrefixOf[s] = PrefixOf[r]
                          /\ KeyOf[s] # KeyOf[r]
                          /\ lim[s] # "outside"
=============================================================================
