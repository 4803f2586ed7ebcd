----------------------------- MODULE TokenCache -----------------------------
(* PhonePeClient: how an authenticated call to PhonePe gets its OAuth token *)
(* (get_access_token) and uses it (_send_authenticated_request), for one    *)
(* tenant and environment, over RedisManager with its per-worker fallback,  *)
(* while an operator replaces the tenant's credentials.                     *)
EXTENDS Naturals

CONSTANTS Calls,         \* the authenticated calls, of any endpoint or of the reconciler
          Workers,
          WorkerOf,
          Lifetimes,     \* how long PhonePe honours a token, in units of the clock
          DefaultLife,   \* what is assumed of a token without expires_in: 3600 s
          Buffer,        \* the safety buffer: 60 s
          MinTtl,        \* the shortest TTL: 60 s
          MaxTime,       \* the bound on the clock
          MaxCreds,      \* the bound on the versions of the credentials
          None

ASSUME WorkerOfAssumption == WorkerOf \in [Calls -> Workers]
ASSUME TimesAssumption ==
  /\ Buffer \in Nat /\ MinTtl \in Nat
  /\ MaxTime \in Nat /\ MaxCreds \in Nat
  /\ MaxCreds >= 1
ASSUME LifetimesAssumption == Lifetimes \subseteq Nat /\ DefaultLife \in Nat

Creds == 1..MaxCreds
Clock == 0..MaxTime

\* A token lives for "life"; the code counts with "stated", which is that, or the default
\* if the answer has no expires_in.  An entry is cached at one moment until another.
Tokens ==
  [cred : Creds, born : Clock, life : Lifetimes, stated : Lifetimes \union {DefaultLife}]
Entries == [token : Tokens, at : Clock, until : Nat]

ASSUME NoneAssumption ==
  None \notin Tokens \union Entries \union Creds \union {"ok", "error", "refused"}

VARIABLES
  now,
  creds,      \* the version of the tenant's credentials in the database
  withdrawn,  \* the versions PhonePe does not honour any more
  redis,      \* the entry of the tenant's cache key in Redis, or None
  memory,     \* the same in each worker's fallback dictionary
  pc,
  cred,       \* the credentials each call's PhonePeClient was built with
  token,      \* the token each call holds
  retried,    \* the calls that have used up retry_on_401
  processed,  \* how often PhonePe carried out each call
  outcome     \* how each call ended

vars == <<now, creds, withdrawn, redis, memory, pc, cred, token, retried, processed, outcome>>

TypeOK ==
  /\ now \in Clock
  /\ creds \in Creds
  /\ withdrawn \subseteq Creds
  /\ redis \in Entries \union {None}
  /\ memory \in [Workers -> Entries \union {None}]
  /\ pc \in [Calls -> {"idle", "lookup", "oauth", "store", "fallback", "send", "done"}]
  /\ cred \in [Calls -> Creds \union {None}]
  /\ token \in [Calls -> Tokens \union {None}]
  /\ \A c \in Calls : /\ pc[c] # "idle" => cred[c] # None
                      /\ pc[c] \in {"store", "fallback", "send"} => token[c] # None
  /\ retried \subseteq Calls
  /\ processed \in [Calls -> 0..2]
  /\ outcome \in [Calls -> {"ok", "error", "refused", None}]

Init ==
  /\ now = 0
  /\ creds = 1
  /\ withdrawn = {}
  /\ redis = None
  /\ memory = [w \in Workers |-> None]
  /\ pc = [c \in Calls |-> "idle"]
  /\ cred = [c \in Calls |-> None]
  /\ token = [c \in Calls |-> None]
  /\ retried = {}
  /\ processed = [c \in Calls |-> 0]
  /\ outcome = [c \in Calls |-> None]

-----------------------------------------------------------------------------
\* Helpers

Expiry(t) == t.born + t.life
Honoured(t) == now < Expiry(t) /\ t.cred \notin withdrawn

\* (A slip: the token is cached for all the time PhonePe states.)
TtlUnbuffered(life) == life

\* cache_ttl: the buffer short of what PhonePe states, but never below MinTtl.
Ttl(life) == IF life >= Buffer + MinTtl THEN life - Buffer ELSE MinTtl

\* What c caches now: its time to live counts from here, not from the token's issue.
Entry(c) == [token |-> token[c], at |-> now, until |-> now + Ttl(token[c].stated)]

Live(entry) == entry # None /\ now < entry.until

\* The entries RedisManager.get may answer c from: Redis, or the dictionary of its
\* worker when Redis fails this time.
Sources(c) == {redis, memory[WorkerOf[c]]}

Goto(c, phase) == pc' = [pc EXCEPT ![c] = phase]

End(c, how) == Goto(c, "done") /\ outcome' = [outcome EXCEPT ![c] = how]

-----------------------------------------------------------------------------
\* get_access_token

\* The tenant is loaded and its client built, with the credentials of this moment.
Start(c) ==
  /\ pc[c] = "idle"
  /\ cred' = [cred EXCEPT ![c] = creds]
  /\ Goto(c, "lookup")
  /\ UNCHANGED <<now, creds, withdrawn, redis, memory, token, retried, processed, outcome>>

\* The cached token is taken, whichever credentials it was issued for.
Hit(c) ==
  /\ pc[c] = "lookup"
  /\ \E entry \in Sources(c) : Live(entry) /\ token' = [token EXCEPT ![c] = entry.token]
  /\ Goto(c, "send")
  /\ UNCHANGED <<now, creds, withdrawn, redis, memory, cred, retried, processed, outcome>>

Miss(c) ==
  /\ pc[c] = "lookup"
  /\ \E entry \in Sources(c) : ~Live(entry)
  /\ Goto(c, "oauth")
  /\ UNCHANGED <<now, creds, withdrawn, redis, memory, cred, token, retried, processed,
                 outcome>>

\* (A slip: an answer without an access_token is taken for one with.)
IssueUnchecked(c) ==
  /\ pc[c] = "oauth"
  /\ cred[c] \notin withdrawn
  /\ token' = [token EXCEPT ![c] = None]
  /\ Goto(c, "store")
  /\ UNCHANGED <<now, creds, withdrawn, redis, memory, cred, retried, processed, outcome>>

\* PhonePe issues a token for the client's credentials; the answer is on its way.
Issue(c) ==
  /\ pc[c] = "oauth"
  /\ cred[c] \notin withdrawn
  /\ \E life \in Lifetimes : \E stated \in {life, DefaultLife} :
       token' = [token EXCEPT
                   ![c] = [cred |-> cred[c], born |-> now, life |-> life, stated |-> stated]]
  /\ Goto(c, "store")
  /\ UNCHANGED <<now, creds, withdrawn, redis, memory, cred, retried, processed, outcome>>

\* The credentials are refused, or the answer is lost, late or has no token.
IssueFails(c) ==
  /\ pc[c] \in {"oauth", "store"}
  /\ End(c, "error")
  /\ UNCHANGED <<now, creds, withdrawn, redis, memory, cred, token, retried, processed>>

\* RedisManager.set: Redis takes the entry, and its answer arrives or is lost, or it
\* fails.  No timeout bounds how long the call waits for any of it.
StoreInRedis(c) ==
  /\ pc[c] = "store"
  /\ redis' \in {redis, Entry(c)}
  /\ \/ redis' = Entry(c) /\ Goto(c, "send")
     \/ Goto(c, "fallback")
  /\ UNCHANGED <<now, creds, withdrawn, memory, cred, token, retried, processed, outcome>>

\* Redis failed, at once or late: the worker's dictionary takes the entry.
StoreInMemory(c) ==
  /\ pc[c] = "fallback"
  /\ memory' = [memory EXCEPT ![WorkerOf[c]] = Entry(c)]
  /\ Goto(c, "send")
  /\ UNCHANGED <<now, creds, withdrawn, redis, cred, token, retried, processed, outcome>>

-----------------------------------------------------------------------------
\* _send_authenticated_request

\* (A slip: a lost answer is retried like a 401.)
CarriedOutRetried(c) ==
  /\ pc[c] = "send"
  /\ Honoured(token[c])
  /\ processed' = [processed EXCEPT ![c] = @ + 1]
  /\ \/ End(c, "ok") /\ UNCHANGED retried
     \/ c \notin retried /\ retried' = retried \union {c} /\ UNCHANGED <<pc, outcome>>
  /\ UNCHANGED <<now, creds, withdrawn, redis, memory, cred, token>>

\* PhonePe carries the request out; its answer arrives, or it is lost.
CarriedOut(c) ==
  /\ pc[c] = "send"
  /\ Honoured(token[c])
  /\ processed' = [processed EXCEPT ![c] = @ + 1]
  /\ \E how \in {"ok", "error"} : End(c, how)
  /\ UNCHANGED <<now, creds, withdrawn, redis, memory, cred, token, retried>>

\* The request does not get there, or PhonePe rejects it with another status.
SendFails(c) ==
  /\ pc[c] = "send"
  /\ End(c, "error")
  /\ UNCHANGED <<now, creds, withdrawn, redis, memory, cred, token, retried, processed>>

\* (A slip: the retry takes its token from the cache again.)
RefreshFromCache(c) ==
  /\ pc[c] = "send"
  /\ ~Honoured(token[c])
  /\ c \notin retried
  /\ retried' = retried \union {c}
  /\ Goto(c, "lookup")
  /\ UNCHANGED <<now, creds, withdrawn, redis, memory, cred, token, processed, outcome>>

\* 401: the token is refreshed past the cache, and the request is sent once more.
Refresh(c) ==
  /\ pc[c] = "send"
  /\ ~Honoured(token[c])
  /\ c \notin retried
  /\ retried' = retried \union {c}
  /\ Goto(c, "oauth")
  /\ UNCHANGED <<now, creds, withdrawn, redis, memory, cred, token, processed, outcome>>

\* A second 401 is an error like any other status.
RefusedAgain(c) ==
  /\ pc[c] = "send"
  /\ ~Honoured(token[c])
  /\ c \in retried
  /\ End(c, "refused")
  /\ UNCHANGED <<now, creds, withdrawn, redis, memory, cred, token, retried, processed>>

-----------------------------------------------------------------------------
\* The operator, PhonePe and the clock

\* PATCH /admin/tenants/{id} commits new credentials.  The cache is left alone.
ReplaceCredentials ==
  /\ creds < MaxCreds
  /\ creds' = creds + 1
  /\ UNCHANGED <<now, withdrawn, redis, memory, pc, cred, token, retried, processed, outcome>>

\* PhonePe stops honouring replaced credentials and the tokens issued for them.
Withdraw(k) ==
  /\ k < creds
  /\ k \notin withdrawn
  /\ withdrawn' = withdrawn \union {k}
  /\ UNCHANGED <<now, creds, redis, memory, pc, cred, token, retried, processed, outcome>>

\* Time passes, whatever the calls wait for.
Tick ==
  /\ now < MaxTime
  /\ now' = now + 1
  /\ UNCHANGED <<creds, withdrawn, redis, memory, pc, cred, token, retried, processed,
                 outcome>>

\* Every call has ended.
AllDone ==
  /\ \A c \in Calls : pc[c] = "done"
  /\ UNCHANGED vars

Call(c) == \/ Start(c) \/ Hit(c) \/ Miss(c) \/ Issue(c) \/ IssueFails(c)
           \/ StoreInRedis(c) \/ StoreInMemory(c)
           \/ CarriedOut(c) \/ SendFails(c) \/ Refresh(c) \/ RefusedAgain(c)

Next == \/ \E c \in Calls : Call(c)
        \/ ReplaceCredentials
        \/ \E k \in Creds : Withdraw(k)
        \/ Tick
        \/ AllDone

Spec == Init /\ [][Next]_vars

-----------------------------------------------------------------------------
\* Properties

\* Whichever worker cached it and wherever, a cached token is dropped before it expires
\* (docs/requirement.md:99) if it was cached within the safety buffer of its issue,
\* however the OAuth answer and a Redis that fails late share that time, and if PhonePe
\* stated its lifetime and that leaves room for the buffer.
EntriesExpireFirst ==
  \A entry \in {redis} \union {memory[w] : w \in Workers} :
    entry # None =>
      LET t == entry.token
          prompt == entry.at <= t.born + Buffer
          foreseen == t.stated = t.life /\ t.life >= Buffer + MinTtl
      IN prompt /\ foreseen => entry.until <= Expiry(t)

\* The retry never has PhonePe carry out a request twice: a payment or a refund is
\* asked for once per call, as the other modules take for granted.
CarriedOutOnce == \A c \in Calls : processed[c] <= 1

\* A call gives up on 401 only if its own credentials were withdrawn, or its token
\* expired on the way: a stale token, left in a cache by credentials replaced since
\* or by a slower call, costs a refresh and never the call.
RefusalsHaveACause ==
  \A c \in Calls :
    outcome[c] = "refused" => cred[c] \in withdrawn \/ Expiry(token[c]) <= now
=============================================================================
