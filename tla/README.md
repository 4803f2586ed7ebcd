# Verification of the PhonePe multi-tenant gateway

TLA+ models of the gateway in `src/`: a FastAPI service that lets several
merchant sites (tenants) create payment orders at PhonePe, follows the payments
through webhooks, status polls and a background reconciler, and notifies the
tenants. The modules are translated from the Python source. TLC checks them on
small instances, and TLAPS proves the safety properties of all of them for every
instance. `PROJECT.json` lists components, runs, mutants, findings, hazards and
theorems, and maps every definition to the lines it models.

## 1. Inventory

| Component | State it keeps | Operations | Interacts through |
|---|---|---|---|
| Order creation (`order_service.create_or_get_order`, `POST /v1/orders`) | `orders`, first `transactions` row | look up, insert, call PhonePe, record or fail | the request's transaction, the unique index on (tenant_id, merchant_order_id), PhonePe |
| Request transaction (`database.get_db`) | session, pool connection, row locks | commit, rollback, close | every endpoint |
| API-key dependency (`api/deps.py`, `tenant_service.authenticate_api_key`) | `api_keys.last_used_at` | authenticate, throttle | row lock on the key until the request ends |
| Order status (`get_and_sync_order_status`, `GET /v1/orders/{id}`) | `orders.status` | poll PhonePe, compare, update | order rows, PhonePe |
| Inbound webhooks (`process_inbound_phonepe_webhook`) | `orders.status`, `webhook_logs` (PHONEPE) | log, look up, verify, update, spawn a dispatch | order rows, dispatcher tasks |
| Reconciler (`services/reconciliation.py`), one loop per worker | the session of a pass | select a batch, sync each order, spawn dispatches | order rows, PhonePe, dispatcher tasks |
| Outbound dispatch (`dispatch_outbound_webhook`) | task in memory, `webhook_logs` (OUTBOUND_TENANT) | log, POST, retry, give up | tenant endpoints |
| Refunds (`refund_service.py`, tenant and admin endpoint) | REFUND rows of `transactions` | check, call PhonePe, record | order rows, PhonePe |
| OAuth token cache (`phonepe_client.get_access_token`, `redis.py`) | token per tenant and environment, with a TTL | get, refresh, retry on 401 | Redis or per-worker memory, PhonePe |
| Rate limiter (`core/rate_limit.py`, `redis.check_rate_limit`) | counter per key prefix and minute | count, refuse | Redis or per-worker memory |
| Tenant and key administration (`tenant_service.py`, `api/admin`) | `tenants`, `api_keys` | create, update, revoke | authentication, credentials, reconciler |
| Master-key rotation (`scripts/rotate_master_key.py`) | encrypted credentials | re-encrypt all tenants | running workers' key |
| Dashboard statistics (`api/admin/stats.py`) | none | counts, sums | order rows |
| Health, logging, error pages, front end, migrations | none of interest | | |

The service runs as four uvicorn workers (`docker/Dockerfile`) on Postgres (READ
COMMITTED) and Redis. Every request, webhook, reconciliation pass and dispatch is
an asyncio task with a session of its own, so tasks interleave at every await
and every row lock.

### What is hard, and what would make each component correct

* **Order creation.** The check for an existing order, the INSERT, the call to
  PhonePe and the commit are four moments; other calls, crashes, timeouts and
  lost answers fall between them. Correct: one stored order per reference, a
  stored order is one PhonePe answered, answers name stored orders, PhonePe is
  called once per order, nobody waits for ever. That PhonePe also took the payment
  does not hold: `initiate_payment` takes every JSON answer below 400 for a success.
* **Order status.** Three writers load a row, wait for the network and write
  without a version check; events are late, repeated, out of order or about
  orders not committed yet. Correct: what is stored or announced as an end is the
  payment's own end or what an unsigned delivery said, only an event reopens an
  order that truly ended, what was lost is made up for, passes end. That only real
  outcomes are stored or announced does **not** hold of this code: a delivery without
  the signature header is not verified (`webhook_service.py:97`), so nothing ties its
  word to the payment, although docs/requirement.md:107 says that unverified
  webhooks are not processed.
* **Outbound dispatch.** Retries, answers that get lost, commits that fail,
  workers that stop. Correct: the log tells the truth, repeats have a cause,
  dispatches end.
* **Refunds.** Retries, a check that is stale when PhonePe is asked, and the gap
  between PhonePe's answer and the commit. Correct: what recorded refunds say of
  their end is so, those told of are recorded, and a refund is asked for only of a
  payment that completed or that an unsigned delivery said had completed.
* **Token cache.** Expiry, the 401 retry, replaced credentials, two places that
  cache, the last of them perhaps long after the token was issued. Correct: what is
  cached promptly is dropped before its token expires, a stale token costs a refresh
  and never the call, the retry repeats nothing that was done.
* **Rate limiter.** Redis may fail before or after it has counted, the fallback
  reads and writes in separate steps and per worker, buckets change while a request
  waits. Correct: what passes is the limit of a key prefix and what fallbacks explain,
  and nobody is refused before that limit was let through. The documents promise the
  limit per key (docs/requirement.md:79 and :143, README.md:61 of the repository); keys
  with the same first 12 characters share one (`rate_limit.py:17`).
* **API keys.** A revocation meets requests that have loaded the key, hold its row
  or wait for it, and may be answered before it is committed. Correct: a revoked key
  is spent, a request is refused only for requests with its own key or with one of
  the same prefix, the row lock keeps requests with one key out of each other's counts.
* **Key rotation.** A script re-encrypts all tenants while workers with the old key
  serve operators who register tenants and replace credentials. Correct: a rotation
  covers all tenants or none, and what does not race with it survives it.

`PROJECT.json` has each hazard at its line, with the properties that cover it.

## 2. Modules

| Module | What it is |
|---|---|
| `OrderOnce` | abstract: a create-once register of orders with answers |
| `OrderLife` | abstract: one order's payment, status and the unsigned claims about it, as the modules see it of each other |
| `OrderCreation` | `POST /v1/orders` with its transaction, locks, PhonePe and crashes |
| `OrderCreationProofs` | TLAPS proofs about it, and that it implements `OrderOnce` and the first step of `OrderLife` |
| `OrderStatus` | polls, inbound webhooks and reconcilers over the order rows |
| `OrderStatusProofs` | TLAPS proofs about it, and that it implements `OrderLife` |
| `WebhookDispatch` | the outbound dispatcher and its log rows |
| `WebhookDispatchProofs` | TLAPS proofs about it |
| `TokenCache` | the OAuth token of a tenant: cache, refresh, retry on 401 |
| `TokenCacheProofs` | TLAPS proofs about it |
| `Refunds` | both refund endpoints with their transaction, PhonePe and crashes |
| `RefundsProofs` | TLAPS proofs about it |
| `RateLimiter` | the counters of `check_rate_limit` in Redis and in the workers |
| `RateLimiterProofs` | TLAPS proofs about it |
| `ApiKeys` | authentication, creation and revocation of keys, in front of `RateLimiter` |
| `ApiKeysProofs` | TLAPS proofs about it, and that it implements `LimiterSpec` |
| `KeyRotation` | the rotation script, the workers' keys, operators writing credentials |
| `KeyRotationProofs` | TLAPS proofs about it |
| `MC...` | the instances TLC checks |

How they compose: a request of `ApiKeys` contains the `RateLimiter`'s steps. The
modules about orders share the row of an order, and each would need the others'
states; `OrderLife` is what they may suppose of each other instead. `OrderCreation`
takes only its step `OrderStored` (`OnlyStoresOrders`), `OrderStatus` takes only its
steps (`ImplementsOrderLife`), and `Refunds` has it as its environment
(`OrderMoves`).

### OrderCreation

A request walks through `pc`; each phase ends at an await where another task
can run. `Connect` to `Throttle` are the dependencies of the endpoint; `FindExisting`
to `PaymentFails` are `create_or_get_order`; `Commit`, `CommitFails`, `Rollback` and
`Respond` are `get_db` and the endpoint's answer; `PhonePeAccepts`, `PhonePeDeclines`
and `PhonePeDrops` decide a sent call at any later time, also after the caller has
given up.

* `Connect` takes one of the `PoolSize` connections, or `PoolTimeout` ends the request.
  `RejectKey` and `AcceptKey` end the check of the key; only then does the flush of
  `last_used_at` wait for the key's row (`waiting`), which nothing but `Authenticate`,
  or a crash, ends. The INSERT waits for an index entry in the same way.
* `RecordPayment` needs an answer below 400 and nothing else. PhonePe gives one to a
  payment it accepts and possibly to one it does not (`declined`): the order is then
  stored as PENDING without a payment.
* `session[r]` is the Order object of the request, `rows` the committed rows. An
  order is named by the request that built it (ids are fresh uuid4s). Flushed and
  uncommitted rows are session rows of requests inside a transaction, which is all
  that READ COMMITTED shows of them: a lock (`KeyHolders`) or a unique-index entry
  (`IndexHolders`) that others wait for.
* `build` is chosen once: `requirements.txt` admits FastAPI releases that leave
  `get_db` before they send the response and releases that leave it after.
* A 401 from PhonePe and its one retry are inside the call: the first attempt was
  refused, so a call is accepted at most once.
* Abstracted: amounts, URLs, metadata, the text of errors, the first
  `transactions` row (flushed and committed together with the order).

### OrderStatus

`payment` is PhonePe's word for a payment, `db` the committed status. An actor
(poller, event, reconciler) has what it `loaded`, the `reply` it was told, and
the `writes` of its open transaction, which lock the rows. SQLAlchemy compares
with the loaded value, and its UPDATE names only what differs: `Apply` and
`ApplyNothing` for polls; `EventApply` writes `"KEEP"` for an event whose status
is the loaded one (`updated_at` is written in any case). The reconciler's
`EndPass` closes its session, and there is no commit in it, as in the code.
`notices` are the payloads handed to the dispatcher. `DeadlockVictim` is Postgres's
deadlock detection, for cycles of any length; that only reconcilers can be in
one is proved.

The words of PhonePe are one of each class the tables tell apart, and
`CANCELLED`, which neither table names. The two tables (`check_order_status` and
the webhook's) differ only in `INITIATED`, which both send to PENDING.
A webhook without a signature (`Unsigned`) is processed like one with a good one, as
in the code, and may say anything of any order (`Says`); `claims` records the ends it
was believed about. A signed one says how the payment stood when it was sent. Its
signature is made with the client_secret of a tenant, taken to be no other
tenant's; `Rekeyed` names the tenants whose stored secret may be unreadable or
replaced when it arrives (`EventIgnored`). `Crash` stands for a lost worker or
connection and for any statement that fails. Each order has one payment here: the
second payment of the `duplicate_payment` finding and its events are not modelled.

### WebhookDispatch

One task per notice. `attempt` is the loop variable, `row` the committed log row,
`accepted` and `unheard` count what the endpoint took and what of that was never
heard. `SaveFails` is the commit inside the try: it counts as a failed delivery,
and because nothing rolls the session back, later commits of the task raise as
well (`broken`). A commit that raises may have reached the database. `Crash(u)`
takes every task of a worker, for dispatches live in memory only and `lifespan`
does not wait for them.

### TokenCache

`Start` builds a `PhonePeClient` with the credentials of that moment; `Hit`,
`Miss`, `Issue`, `StoreInRedis`, `StoreInMemory` are `get_access_token`; `CarriedOut`,
`Refresh` and `RefusedAgain` are `_send_authenticated_request`. A token is the
credentials it was issued for, its birth, its life, and the life the code goes by
(`stated`: 3600 s if the answer names none). `RedisManager` may fail at any operation,
so an answer may come from Redis or from the dictionary of the worker (`Sources`). A
`set` may reach Redis and lose its answer, and the dictionary is written after Redis
has failed, with a TTL that counts from then. The clock ticks between any two steps:
the OAuth answer has its 15 s timeout, but nothing bounds the wait for Redis, which has
no socket_timeout (`redis.py:19-24`), so a cached entry may outlive its token. An
entry remembers when it was cached (`at`), which `EntriesExpireFirst` asks about.
Abstracted: other tenants and environments
(they have cache keys of their own) and the request's contents. The other modules
see of all this that a call is carried out at most once, which is
`CarriedOutOnce`.

### Refunds

The phases and the end of a request are those of `OrderCreation`: `Reject` and `Accept`
come before the wait for the key's row, `Authenticate` ends it. `Check` and
`Deny` stand for everything up to the client, `InitiateRefund` for the call,
`RecordRefund` and `RefundFails` for the two ends of the `try`. `payment`, `status` and
`claims` are the order's, and move as `OrderLife` lets them (`OrderMoves`).
What PhonePe makes of a call is a refund whose state may settle after the answer, or
none (`DECLINED`), also told in an answer below 400; what the answer says may be older,
or a word the table does not name, and then a PENDING row is all that comes of a
refund PhonePe never took. Amounts are reduced to the
verdict of the comparison; the total of several refunds is PhonePe's to refuse.

### RateLimiter and ApiKeys

`lim[r]` is how far `check_rate_limit` has got with a request: `Arrive` takes the
bucket (prefix and minute), `Count` and `PipelineFails` are the INCR pipeline,
`Get` and `Set` the fallback through `RedisManager.get` and `.set`, each of which
tries Redis again and then the dictionary of the worker. A failed pipeline may
have counted, and a failed `set` may have stored. A worker that found no Redis
when it started (`connected`) does all of it without an await: `CountAlone`.
`admitted`, `refused`, `lost` and `resets` are history variables that only the
properties read; `bucket` stays when a request is judged, so that `Admitted` names the
requests that were let through in a bucket. `Expire` is the TTL of two windows.

`ApiKeys` extends it. `LoadKey` and `CheckTenant` are the two SELECTs of
`authenticate_api_key`, `TouchKey` is its flush of `last_used_at`: it waits for the
key's row and keeps it locked until `End`. The limiter runs in between, so its
steps are steps of `ApiKeys`, and `LimiterIsImplemented` proves that `ApiKeys`
implements `LimiterSpec`. A revocation is loaded, flushed under the same lock, and
committed; the releases that respond first answer between the flush and the commit
(`AnswerRevocation`), and the commit may fail after that. `told` has the keys whose
revocation may have been answered, `overtaken` the requests that had loaded their key
when it was committed.
Abstracted: the hash, the numbers in the 429, what the endpoint does between
`TouchKey` and `End`. A Postgres connection that is lost under a request, which
would free the row while the request still runs, is not modelled.

### KeyRotation

A ciphertext is a pair of its text and its key; keys are numbered in the order they
come into use, and a credential entered by request `a` has the text `a`.
`UpdateTenant` encrypts under the key its worker started with (`get_settings` is
cached) and then waits for the row, so a write may be under a key that is no longer
in force when it is committed. `Load` is the script's SELECT together with the
loop, which needs nothing but what was loaded; `FlushRow` are the UPDATEs of its
commit, row after row, in an order that depends on uuids and is left open.
`Rewrapped` takes a client id that does not decrypt for plain text, as the code
does. `UpdateEnv` and `Restart` are what README.md:244-252 of the repository asks
for, at any time and worker by worker. Empty credentials, which `encrypt_secret`
stores as they are, and columns other than the two credentials are left out.

`raced` is the exact list of what can go wrong: a write by a worker that does not
have the key in force, and a write committed between the script's SELECT and its
commit. The first leaves a credential under an old key; the second is overwritten
with what the script had loaded, or, for a new tenant, never re-encrypted. An
update that enters both credentials again under the key in force heals it. That no
worker reads any re-encrypted secret between the commit and its restart follows from
the definitions, although docs/walkthrough_2026-08-25_16-30-39.md:29 calls the
script "zero-downtime".

## 3. Runs

| Run | Instance | Shows |
|---|---|---|
| `creation` | 3 calls, 2 references, 2 keys, a pool of 2 | the safety properties, `ImplementsOrderOnce`, `OnlyStoresOrders`, no deadlock, second payments have a cut-off request, `EveryRequestEnds` |
| `duplicate_payment` | the same | **violation**: a retry after a lost answer pays again |
| `status` | 1 order, 1 poller, 1 signed and 1 unsigned event, 1 reconciler, 4 final words, 1 crash | outcomes and notices are real or claimed, only events reopen a true end, `ImplementsOrderLife`, polling heals, from claims too |
| `passes` | 2 orders, 2 reconcilers, 1 crash | passes end although they can deadlock on rows |
| `reconciler` | 1 order, 1 reconciler, no crash | **violation**: no pass is ever committed |
| `shared_id` | 2 tenants' orders with one id, 1 signed event | **violation**: a webhook misses its order |
| `dispatch` | 2 notices, 1 worker, 3 attempts | the log is true, its outcomes are final, repeats are explained, dispatches end |
| `token_cache` | 2 calls of 1 worker, lifetimes 1 and 2, 2 ticks, 2 versions of the credentials | prompt entries end before their tokens, retries repeat nothing, refusals have a cause |
| `refunds` | 2 calls with one key | recorded ends are real, told ones recorded, only payments that completed or were claimed to are refunded, requests end |
| `repeated_refund` | the same and one of the admin's | **violation**: one `merchant_refund_id`, two rows |
| `api_keys` | 3 requests, 2 keys of one prefix, 2 workers, limit 1, 3 minutes | the limit, whose requests a refusal is for, revoked keys are spent, counts are lost only across keys |
| `rotation` | 2 tenants, 2 workers, 3 admin requests, 2 rotations | rotations are complete, and invisible but for races |

**Why the bounds are enough.** In `creation`, r1 and r2 compete for a reference
and r2 and r3 for a key, so a call can wait for an index entry while another waits
for its key row, the longest chain of waits two kinds of lock can form; and the third
call waits for one of the two connections the others have. Proofs cover larger
instances. In `status`, two events are the least that can be repeated or swapped: one
is verified, with a secret that may have been replaced meanwhile (`Rekeyed`), one
says what it likes; and the poller and the reconciler each run any number of
times. `passes` has the two orders and two sessions a cycle of row locks needs.
In `dispatch`, three attempts give a first, a middle and a last one, and two
notices of one worker are lost together.
`token_cache` lets a token be cached, dropped, reissued and expire within its two
ticks, and a slower call cache a token of credentials already replaced, in time or
too late; a lifetime of 1 is too short for the buffer and 2 is not, and either may be
left unstated. The two calls are interchangeable; what two workers add, a dictionary
each, is the proofs'. `MaxTime` and `MaxCreds` bound the clock and the
replacements. In `refunds` the retry waits
for the key of the first; calls with different keys share nothing but the order.
In `api_keys`, r1 and r2 share a key (they are interchangeable, hence the
symmetry), r3 has one with the same first 12 characters in another worker; with a
limit of 1 the second request decides, and the third minute (`MaxMinute` = 2) lets
a counter expire under a request; requests come in the first two (`LastArrival` = 1).
Only k2 exists at the start (`Issued`) and its tenant may be inactive
(`Suspendable`); k1 is created in the run and may be revoked (`Revocable`). Two keys
in one worker, and higher limits, are the proofs'.
Workers live once: a restart would only empty a dictionary, whose bound is per life
of the worker. In `rotation`, one tenant is there and one can be registered; two
rotations (`MaxKey` = 2) are needed for a client id left under an old key to be
garbled, and three requests for a race, its repair and another.
`MaxCrashes` bounds the crashes in `OrderStatus` and `MaxRetries` is the
setting, 5 in production; nothing else is bounded but the sets. `Suspendable`
names the tenants that may be inactive when a pass meets their order: the one of
the order in `status`, one of two in `passes` (so that the other's rows are still
fought over), none in the violation runs.

Each property of a passing run has a mutant in the module (the definitions marked
"A slip"): a plausible bug in that code, under which TLC finds the property
violated.

## 4. Fairness

* `OrderCreation`: a worker runs the requests it has (`WF` on a request's steps).
  Crashes, the pool's timeout and PhonePe's decisions are not fair: the HTTP client's
  timeout is a step of the request, so PhonePe need not answer. A request that waits
  for its key's row or an index entry has no step but the one that gets it, so
  `EveryRequestEnds` says that each lock and each connection is given up again.
* `OrderStatus`: the loop and the clients go on for ever (`WF`); an order gets
  stored and grows old. `SF` on `Ask` says that PhonePe, asked again and again, is
  reached some time; `SF` on `Apply` that a row lock released again and again is
  granted, as Postgres queues the waiters. Event processing is fair after the
  lock, and events themselves may never come. `PaymentEnds` is not fair.
* `WebhookDispatch`: the event loop runs its tasks, and each await ends, by the
  10 s timeout of the POST at the latest.
* `Refunds`: as for `OrderCreation`, with the key's row as the one wait.
* `TokenCache`, `ApiKeys` and `KeyRotation` claim no liveness and have no fairness:
  nothing makes an operator go on.

## 5. Proofs

`OrderCreationProofs` proves, for any sets of calls, references and keys, from the
constants' assumptions alone: type correctness, `OneOrderPerReference`,
`ExclusiveCheckout`, `StoredOrdersWereAnswered`, `AnswersAreDurable`,
`CallsOnlyForNewOrders` and `ImplementsOrderOnce`. None is inductive by itself.
`IInv` joins to them `SessionFits` (what a session holds in each phase: until PhonePe
answers its own row, afterwards its own row as PhonePe's answer left it, with its own
payment or, of a declined call, none, or a stored order of the reference asked
for), `BuildersCommitted` (the builder of a
stored order is past its transaction) and `AnswersComeLate`. The argument: an
INSERT needs the index free of flushed and of stored rows of the reference, so
the checkout is exclusive; the one row that a commit adds is of a reference that
had none; and what it adds went through `RecordPayment`. The refinement maps
`created` to the ids of the stored rows, and `answers` to the answers of releases
that commit first.

From `IInv` follow three more results. `NoRequestsDeadlock`: a request waits for its
key's row before it holds anything, and for an index entry when it holds that row
only, and who holds an entry waits for no lock (`HoldersWaitForNobody`); so a chain
of waits has at most two links, for any number of requests.
`DoublePaymentsHaveACause`: `PayersFit` adds that a request with a call at PhonePe or
an accepted payment has its own row in its session until its transaction is over.
So it holds the reference, has its order stored, or was cut off, and by
`ExclusiveCheckout` and `OneOrderPerReference` two of the first two kinds are one
request (`PayersHoldOrLose`): the `duplicate_payment` finding takes a failure or a
crash, and no interleaving suffices. `CreationStoresOrders` is `OnlyStoresOrders`.

`WebhookDispatchProofs` proves, for any tasks, workers and `MaxRetries`: type
correctness (hence the bound on attempts), `RowsTellTheTruth`, `RepeatsAreExplained` and
`OutcomesAreFinal`. Its `IInv` adds, per task, that acceptances are attempts
(`Counted`), that a heard acceptance is followed by nothing but its commit, the end or a
broken session (`Heard`), and that a row states an outcome only past the end or in a
broken session (`Logged`), which is why nothing writes over it (`OutcomeKept`): it is
because the failed commit is not rolled back that the attempts after it cannot turn a
FORWARDED row into a FAILED one.

`TokenCacheProofs` proves, for any calls, workers, lifetimes and bounds: type
correctness, `EntriesExpireFirst`, `CarriedOutOnce` and `RefusalsHaveACause`. Nothing is
assumed of delays or lifetimes: `EntriesExpireFirst` itself says when it applies. The
buffer of 60 s covers the OAuth answer's 15 s and leaves 45 for a Redis that fails late;
an entry cached later than that, or one of a token that lives less than the buffer and
the shortest TTL or whose life was not stated, may outlive its token, and then the 401
retry has to make up for it. `IInv` adds that a call under way was not carried out, and
that a call on its second try holds a token of its own credentials, because only `Issue`
leads there.

`RefundsProofs` proves, for any calls, keys and refund ids: type correctness,
`RowsAreReal`, `ToldIsRecorded` and `RefundsFollowPayment`. `IInv` adds that a
stored status other than PENDING is the payment's or among the claims, that a call is
sent and answered once, and that a flushed row is of a call that PhonePe answered, and
says of an end what PhonePe made of the call, which no later event
contradicts. `OnlyRepeatedCallsRecordTwice` proves `OneRowPerRefund`, which
`repeated_refund` refutes, from the assumption that no two calls carry one
merchant_refund_id: one call never makes two rows (`OneRowPerCall`), so the finding
takes a repeated call, and no failure of a single one suffices.

`OrderStatusProofs` proves, for any orders, pollers, events (signed or not), reconcilers
and words: type correctness, `OutcomesAreReal`, `NoticesAreReal` and `OnlyEventsReopen`,
from the constants' assumptions alone. A signed event is applied to an order of its
tenant, which the unique constraint makes its own (`LoadedIsOwn`), so what it says was
the payment's; what an unsigned one says is among the claims from the moment it is
written. `IInv` adds that an end which an actor was told is the end of that order's
payment, but for unsigned events (`RepliesAreReal`), that an end which it has written is
that or a claim (`WritesAreReal`), and that a poll is about to write PENDING over an end
only where the end it had loaded was a claim (`PollsOpenClaims`): an end that was the
payment's was real when PhonePe was asked, and PhonePe does not take it back.

`OrdersLive` proves `ImplementsOrderLife`, and `EveryOrderLives`
states it as `Spec => Life(o)!Spec` for every order `o`. `StatusOf` maps an EXPIRED order
to FAILED, and `PaymentOf` every end without money. A commit is a step
`StatusChanges` or a stutter: the order is stored (`WorkIsStored`) and what is
written is an end of its payment, a claim or PENDING (`WrittenStatus`); an unsigned
event that is believed is a step `Claim` (`ClaimIsSeen`).
`EventsReachOrdersOfTheirOwnId` proves `EventsReachTheirOrder`, which `shared_id`
refutes, from `IdsApart` (no two orders share an id) and from every tenant's secret
being the one PhonePe signs with (`Rekeyed` empty of them), for deliveries whose
transaction does not fail: of the causes that a delivery is missed for, the shared id
is the one that finding takes. `OnlyStoredOrdersAreWorkedOn` and `OnlyPassesDeadlock`
need no assumption either: a row is updated by one open transaction at a time, polls
and events commit right after their one update (`LocksFit`), so whoever waits while he
is waited for is a reconciler, and no other transaction is ever a victim of
`DeadlockVictim`.

`RateLimiterProofs` proves for `LimiterSpec`, for any requests, workers, prefixes and
limit, `OverrunsAreExplained` and `RefusalsFollowLimit`: nobody is refused before the
limit of his prefix and minute was let through. `IInv` adds that a request under way
has a bucket of its prefix (`Fits`), that what was let through is still
in the counter but for resets (`Bounded`), that whatever a counter holds or a
fallback has read of it was counted or lost (`Counted`), and that `admitted` is the
number of the requests that `Admitted` names (`Tallied`). `ApiKeysProofs` shows that
every step of `ApiKeys` is one of the limiter's or leaves it alone
(`LimiterIsImplemented`) and takes both theorems over. `RefusalsAreDeserved` follows
from the second: either all that were let through in the bucket have the request's key,
and then the limit is the key's own, or one has another key of its prefix. It also
proves `RevokedKeysAreSpent` and `LostCountsNeedASharedPrefix`. `KInv` adds that calls
of the limiter are made inside a transaction (`CallsAreInside`), that a row is held
once (`RowsAreHeldOnce`), that a key that is not there yet has no revocation
(`KnownKeys`) and that whoever goes on with a revoked key had loaded it
(`LoadedBefore`). A lost count needs two requests in the fallback with one bucket;
the row lock excludes that they have one key.

`KeyRotationProofs` proves type correctness, `CredentialsSurvive` and
`RotationIsComplete` for any tenants, workers, requests and number of rotations.
`IInv` adds that what the script has loaded is still what is there, but for tenants
in `since` (`SnapFits`), and that a request under way names all credentials of a
tenant that is not there yet (`JobsFit`). A tenant outside `raced` and `since` has
its secret under the key in force; the script has decrypted it with the old key;
so the old key was the one in force, and the id decrypts as well.

Model-checked only: the liveness properties (`EveryRequestEnds`, `PollingHeals`,
`PassesEnd`, `DispatchEnds`, `EveryRefundEnds`), which are out of the prover's
reach. Of deadlocks the proofs say whether waits can form a cycle, and whose; that
those who wait go on is liveness. What the violation runs refute holds of no
instance like theirs; `OneRowPerRefund` and `EventsReachTheirOrder` are proved from
the assumptions that their findings break, `OnePaymentPerOrder` has
`SecondPaymentsFollowFailures` in its place.

## 6. Findings

1. A create call that fails or is cut off after PhonePe accepted the payment leaves
   no row; the retry pays again (`duplicate_payment`). Without such a failure no
   number of calls does (`DoublePaymentsHaveACause`).
2. The reconciler never commits, and repeats its notices in every pass
   (`reconciler`). Its test passes in a session and reads back the same session.
3. Webhooks are looked up without the tenant; two tenants with the same
   `merchant_order_id` block or miss each other's events (`shared_id`). With ids apart and
   the secrets readable and current, an event misses its order only if its transaction
   fails (`EventsReachOrdersOfTheirOwnId`).
4. A refund repeated with its `merchant_refund_id` is sent to PhonePe and recorded again
   (`repeated_refund`); what PhonePe makes of the repetition is its own affair. Only the
   repetition does it (`OnlyRepeatedCallsRecordTwice`).

Three more differences between the documents and the code have no violation run. The
properties about the code concerned say what does hold, with the difference as an
explicit exception.

* docs/requirement.md:107 says that unverified webhooks are not processed;
  `webhook_service.py:97` verifies only those that carry the header. The ends that the
  others name are the claims in `OutcomesAreReal`, `NoticesAreReal`, `OnlyEventsReopen`
  and `RefundsFollowPayment`.
* docs/requirement.md:79 and :143 promise the rate limit per API key;
  `rate_limit.py:17` counts by the key's first 12 characters: the second case of
  `RefusalsAreDeserved`.
* docs/requirement.md:99 wants cached tokens to end before PhonePe's expiry; one cached
  late, by a Redis that took its time to fail, does not: the conditions in
  `EntriesExpireFirst`.

## 7. Not modelled

* Dashboard statistics and the admin lists: they only read, each figure from a
  snapshot of its own, and nothing in the repository says that figures agree.
* The limit of 100 orders per reconciliation batch: the SELECT has no ORDER BY, so
  orders can be left out for ever, and no property to the contrary holds.
* The callbacks of refunds: no code of the service updates a REFUND row, and the
  form of these callbacks is not to be found in the repository.
* The order in which two notices of one order arrive: the code promises none.
* PHONEPE rows of `webhook_logs`, base64 and JSON decoding, amounts, URLs, names,
  the admin key's comparison.
* Health check, configuration, logging, error pages, the dashboard front end, the
  migrations: they keep no state of the protocol.
