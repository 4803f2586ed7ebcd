---------------------------- MODULE KeyRotation ----------------------------
(* The rotation of MASTER_ENCRYPTION_KEY: scripts/rotate_master_key.py       *)
(* against a running service, whose workers keep the key they started with   *)
(* and whose operators register tenants and replace credentials meanwhile.   *)
(* A ciphertext is the text in it and the key it was made with; keys are     *)
(* numbered in the order they come into use.                                 *)
EXTENDS Naturals

CONSTANTS Tenants,
          Registered,  \* the tenants that exist at the start
          Workers,
          Requests,    \* admin requests that write credentials, once each
          MaxKey,      \* the bound on rotations
          First,       \* the text of the first credentials; a request enters its own
          Garbled,     \* a ciphertext taken for a client id
          None

ASSUME RegisteredAssumption == Registered \subseteq Tenants
ASSUME MaxKeyAssumption == MaxKey \in Nat

Keys == 0..MaxKey
Fields == {"id", "secret"}
Texts == Requests \union {First, Garbled}
Row == [Fields -> [text : Texts, key : Keys]]
Job == [tenant : Tenants, fields : SUBSET Fields, worker : Workers, key : Keys]

ASSUME NoneAssumption == None \notin Row \union Job

VARIABLES
  env,      \* the key in .env
  worker,   \* the key of each worker: its settings are read once
  row,      \* the committed credentials of each tenant, None if it is not there
  phase,    \* how far each request is
  job,      \* what it writes: whose credentials, which, and under which key
  script,   \* whether the script is running
  snap,     \* the credentials it has loaded
  written,  \* the rows it has updated, which stay locked until it ends
  force,    \* history: the key of the last rotation to commit
  entered,  \* history: the credentials operators have entered last
  since,    \* history: the tenants written to since the script's SELECT
  raced     \* history: the tenants written to by a worker without the key in force
            \* or during a rotation, and not entered anew since

service == <<env, worker>>
requests == <<phase, job>>
rotation == <<script, snap, written>>
history == <<force, entered, since, raced>>
vars == <<service, row, requests, rotation, history>>

TypeOK ==
  /\ env \in Keys
  /\ worker \in [Workers -> Keys]
  /\ row \in [Tenants -> Row \union {None}]
  /\ phase \in [Requests -> {"new", "sealed", "flushed", "done"}]
  /\ job \in [Requests -> Job \union {None}]
  /\ script \in {"idle", "loaded"}
  /\ snap \in [Tenants -> Row \union {None}]
  /\ written \subseteq Tenants
  /\ force \in Keys
  /\ entered \in [Tenants -> [Fields -> Texts]]
  /\ since \subseteq Tenants
  /\ raced \subseteq Tenants

\* encrypt_secret of both credentials of a tenant.
Seal(texts, k) == [f \in Fields |-> [text |-> texts[f], key |-> k]]

NoRows == [t \in Tenants |-> None]

Init ==
  /\ env = 0
  /\ worker = [w \in Workers |-> 0]
  /\ entered = [t \in Tenants |-> [f \in Fields |-> First]]
  /\ row = [t \in Tenants |-> IF t \in Registered THEN Seal(entered[t], 0) ELSE None]
  /\ phase = [a \in Requests |-> "new"]
  /\ job = [a \in Requests |-> None]
  /\ script = "idle"
  /\ snap = NoRows
  /\ written = {}
  /\ force = 0
  /\ since = {}
  /\ raced = {}

-----------------------------------------------------------------------------
\* Helpers

\* The row is locked by no request and not by the script.
RowFree(t) ==
  /\ t \notin written
  /\ \A a \in Requests : phase[a] = "flushed" => job[a].tenant # t

\* (A slip: an update stores the credentials it names and no other.)
StoredNamed(a) ==
  [f \in job[a].fields |-> [text |-> a, key |-> job[a].key]]

\* The row after request a: the credentials it names, under the key of its worker.
Stored(a) ==
  [f \in Fields |-> IF f \in job[a].fields THEN [text |-> a, key |-> job[a].key]
                                           ELSE row[job[a].tenant][f]]

\* (A slip: the client id is encrypted again as it is.)
RewrappedTwice(creds) ==
  [f \in Fields |-> [text |-> IF f = "secret" THEN creds[f].text ELSE Garbled,
                     key |-> env + 1]]

\* What the script makes of credentials: a client id that it cannot decrypt is taken
\* for plain text and its ciphertext encrypted.
Rewrapped(creds) ==
  [f \in Fields |-> [text |-> IF creds[f].key = env THEN creds[f].text ELSE Garbled,
                     key |-> env + 1]]

-----------------------------------------------------------------------------
\* The admin endpoints

\* create_tenant under a fresh id: encryption and INSERT, which waits for nobody.
CreateTenant(a, w, t) ==
  /\ phase[a] = "new"
  /\ row[t] = None
  /\ \A b \in Requests : job[b] # None => job[b].tenant # t
  /\ phase' = [phase EXCEPT ![a] = "flushed"]
  /\ job' = [job EXCEPT ![a] = [tenant |-> t, fields |-> Fields, worker |-> w,
                                key |-> worker[w]]]
  /\ UNCHANGED <<service, row, rotation, history>>

\* update_tenant loads the tenant, encrypts what the request names, and flushes.
UpdateTenant(a, w, t, fields) ==
  /\ phase[a] = "new"
  /\ row[t] # None
  /\ fields # {}
  /\ phase' = [phase EXCEPT ![a] = "sealed"]
  /\ job' = [job EXCEPT ![a] = [tenant |-> t, fields |-> fields, worker |-> w,
                                key |-> worker[w]]]
  /\ UNCHANGED <<service, row, rotation, history>>

\* The UPDATE gets the tenant's row.
FlushUpdate(a) ==
  /\ phase[a] = "sealed"
  /\ RowFree(job[a].tenant)
  /\ phase' = [phase EXCEPT ![a] = "flushed"]
  /\ UNCHANGED <<service, row, job, rotation, history>>

CommitRequest(a) ==
  LET t == job[a].tenant
      fields == job[a].fields IN
  /\ phase[a] = "flushed"
  /\ row' = [row EXCEPT ![t] = Stored(a)]
  /\ entered' = [entered EXCEPT ![t] = [f \in Fields |-> IF f \in fields THEN a ELSE @[f]]]
  /\ since' = IF script = "loaded" THEN since \union {t} ELSE since
  /\ raced' = IF job[a].key # force THEN raced \union {t}
              ELSE IF fields = Fields THEN raced \ {t} ELSE raced
  /\ phase' = [phase EXCEPT ![a] = "done"]
  /\ job' = [job EXCEPT ![a] = None]
  /\ UNCHANGED <<service, rotation, force>>

\* The flush or the commit fails: get_db rolls back.
FailRequest(a) ==
  /\ phase[a] \in {"sealed", "flushed"}
  /\ phase' = [phase EXCEPT ![a] = "done"]
  /\ job' = [job EXCEPT ![a] = None]
  /\ UNCHANGED <<service, row, rotation, history>>

-----------------------------------------------------------------------------
\* The script

\* (A slip: a tenant whose secret cannot be decrypted is passed over.)
LoadReadable ==
  /\ script = "idle"
  /\ env < MaxKey
  /\ script' = "loaded"
  /\ snap' = [t \in Tenants |-> IF row[t] # None /\ row[t]["secret"].key # env THEN None
                                                                              ELSE row[t]]
  /\ since' = {}
  /\ UNCHANGED <<service, row, requests, written, force, entered, raced>>

\* The SELECT of all tenants.  If some secret does not decrypt with the old key the
\* script rolls back and exits, which changes nothing.
Load ==
  /\ script = "idle"
  /\ env < MaxKey
  /\ \A t \in Tenants : row[t] # None => row[t]["secret"].key = env
  /\ script' = "loaded"
  /\ snap' = row
  /\ since' = {}
  /\ UNCHANGED <<service, row, requests, written, force, entered, raced>>

\* The flush of the commit updates one row after the other.
FlushRow(t) ==
  /\ script = "loaded"
  /\ snap[t] # None
  /\ RowFree(t)
  /\ written' = written \union {t}
  /\ UNCHANGED <<service, row, requests, script, snap, history>>

EndScript ==
  /\ script' = "idle"
  /\ snap' = NoRows
  /\ written' = {}
  /\ since' = {}

CommitRotation ==
  /\ script = "loaded"
  /\ \A t \in Tenants : snap[t] # None => t \in written
  /\ row' = [t \in Tenants |-> IF snap[t] = None THEN row[t] ELSE Rewrapped(snap[t])]
  /\ force' = env + 1
  /\ raced' = raced \union since
  /\ EndScript
  /\ UNCHANGED <<service, requests, entered>>

\* The script is stopped, or its flush or commit fails.
AbortRotation ==
  /\ script = "loaded"
  /\ EndScript
  /\ UNCHANGED <<service, row, requests, force, entered, raced>>

-----------------------------------------------------------------------------
\* The operator, told to update .env and to restart the service

UpdateEnv ==
  /\ script = "idle"
  /\ env < force
  /\ env' = force
  /\ UNCHANGED <<worker, row, requests, rotation, history>>

\* A worker starts again, with what .env says now; its requests are rolled back.
Restart(w) ==
  LET Of(a) == job[a] # None /\ job[a].worker = w IN
  /\ worker' = [worker EXCEPT ![w] = env]
  /\ phase' = [a \in Requests |-> IF Of(a) THEN "done" ELSE phase[a]]
  /\ job' = [a \in Requests |-> IF Of(a) THEN None ELSE job[a]]
  /\ UNCHANGED <<env, row, rotation, history>>

Admin(a) == \/ \E w \in Workers, t \in Tenants :
                 \/ CreateTenant(a, w, t)
                 \/ \E fields \in SUBSET Fields : UpdateTenant(a, w, t, fields)
            \/ FlushUpdate(a) \/ CommitRequest(a) \/ FailRequest(a)

Script == \/ Load \/ CommitRotation \/ AbortRotation
          \/ \E t \in Tenants : FlushRow(t)

Next == \/ \E a \in Requests : Admin(a)
        \/ Script
        \/ UpdateEnv
        \/ \E w \in Workers : Restart(w)

Spec == Init /\ [][Next]_vars

-----------------------------------------------------------------------------
\* Properties

\* A rotation is invisible outside its race windows: the credentials of a tenant are
\* what operators entered last, under the key in force, unless a worker without that
\* key, or during the rotation, wrote some of them and they were not all entered anew.
CredentialsSurvive ==
  \A t \in Tenants :
    row[t] # None /\ t \notin raced => row[t] = Seal(entered[t], force)

\* A rotation that commits covers every tenant: but for those written to since its
\* SELECT, none is left with a credential under an older key, none has its secret
\* changed, and a client id only if it was not under the old key: it is garbled then.
RotationIsComplete ==
  [][CommitRotation =>
       \A t \in Tenants \ since : row[t] # None =>
         /\ \A f \in Fields : row'[t][f].key = force'
         /\ \A f \in Fields : \/ row'[t][f].text = row[t][f].text
                              \/ f = "id" /\ row[t][f].key # env /\ row'[t][f].text = Garbled
    ]_vars
=============================================================================
