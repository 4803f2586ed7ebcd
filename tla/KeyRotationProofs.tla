-------------------------- MODULE KeyRotationProofs --------------------------
(* Proofs about KeyRotation for any tenants, workers, requests and number of  *)
(* rotations.                                                                 *)
EXTENDS KeyRotation, TLAPS

\* What a request under way writes is known, and it names all credentials of a
\* tenant that is not there.
JobsFit ==
  \A a \in Requests :
    phase[a] \in {"sealed", "flushed"} =>
      /\ job[a] \in Job
      /\ row[job[a].tenant] # None \/ job[a].fields = Fields

\* What the script has loaded is what is there, but for tenants written to since, and
\* every secret of it opens with the old key.
SnapFits ==
  script = "loaded" =>
    /\ env < MaxKey
    /\ \A t \in Tenants : snap[t] # None => snap[t]["secret"].key = env
    /\ \A t \in Tenants \ since : snap[t] = row[t]

IInv == /\ TypeOK
        /\ JobsFit
        /\ SnapFits
        /\ CredentialsSurvive

-----------------------------------------------------------------------------
\* Rows made by requests and by the script are rows.
LEMMA StoredIsRow ==
  ASSUME IInv, NEW a \in Requests, phase[a] = "flushed"
  PROVE  Stored(a) \in Row
<1>1. job[a] \in Job /\ (row[job[a].tenant] # None \/ job[a].fields = Fields)
  BY DEF IInv, JobsFit
<1>2. row[job[a].tenant] \in Row \union {None}
  BY <1>1 DEF IInv, TypeOK, Job
<1> QED
  BY <1>1, <1>2 DEF Stored, Row, Job, Texts

LEMMA RewrappedIsRow ==
  ASSUME IInv, NEW creds \in Row, env < MaxKey
  PROVE  Rewrapped(creds) \in Row
<1>1. env + 1 \in Keys
  BY MaxKeyAssumption DEF IInv, TypeOK, Keys
<1> QED
  BY <1>1 DEF Rewrapped, Row, Texts


\* The types are kept.
LEMMA TypeStep ==
  IInv /\ [Next]_vars => TypeOK'
<1> SUFFICES ASSUME IInv, [Next]_vars PROVE TypeOK'
  OBVIOUS
<1> USE NoneAssumption, MaxKeyAssumption DEF IInv, TypeOK
<1>1. ASSUME NEW a \in Requests, NEW w \in Workers, NEW t \in Tenants, CreateTenant(a, w, t)
      PROVE  TypeOK'
  <2>1. [tenant |-> t, fields |-> Fields, worker |-> w, key |-> worker[w]] \in Job
    BY DEF Job
  <2> QED
    BY <1>1, <2>1 DEF CreateTenant, service, rotation, history
<1>2. ASSUME NEW a \in Requests, NEW w \in Workers, NEW t \in Tenants,
            NEW fields \in SUBSET Fields, UpdateTenant(a, w, t, fields)
      PROVE  TypeOK'
  <2>1. [tenant |-> t, fields |-> fields, worker |-> w, key |-> worker[w]] \in Job
    BY DEF Job
  <2> QED
    BY <1>2, <2>1 DEF UpdateTenant, service, rotation, history
<1>3. ASSUME NEW a \in Requests, FlushUpdate(a)
      PROVE  TypeOK'
  BY <1>3 DEF FlushUpdate, service, requests, rotation, history
<1>4. ASSUME NEW a \in Requests, CommitRequest(a)
      PROVE  TypeOK'
  <2>1. Stored(a) \in Row /\ job[a].tenant \in Tenants
    BY <1>4, StoredIsRow DEF CommitRequest, JobsFit, Job
  <2>2. row' \in [Tenants -> Row \union {None}]
    BY <1>4, <2>1 DEF CommitRequest
  <2>3. entered' \in [Tenants -> [Fields -> Texts]]
    BY <1>4, <2>1 DEF CommitRequest, Texts
  <2>4. since' \subseteq Tenants /\ raced' \subseteq Tenants
    BY <1>4, <2>1 DEF CommitRequest
  <2> QED
    BY <1>4, <2>2, <2>3, <2>4 DEF CommitRequest, service, rotation
<1>5. ASSUME NEW a \in Requests, FailRequest(a)
      PROVE  TypeOK'
  BY <1>5 DEF FailRequest, service, requests, rotation, history
<1>6. CASE Load
  BY <1>6 DEF Load, service, requests, rotation, history
<1>7. ASSUME NEW t \in Tenants, FlushRow(t)
      PROVE  TypeOK'
  BY <1>7 DEF FlushRow, service, requests, rotation, history
<1>8. CASE CommitRotation
  <2>1. env < MaxKey
    BY <1>8 DEF CommitRotation, SnapFits
  <2>2. \A t \in Tenants : snap[t] # None => Rewrapped(snap[t]) \in Row
    BY <2>1, RewrappedIsRow
  <2>3. row' \in [Tenants -> Row \union {None}]
    BY <1>8, <2>2 DEF CommitRotation
  <2>4. env + 1 \in Keys
    BY <2>1 DEF Keys
  <2> QED
    BY <1>8, <2>3, <2>4 DEF CommitRotation, EndScript, NoRows, service, requests
<1>9. CASE AbortRotation
  BY <1>9 DEF AbortRotation, EndScript, NoRows, service, requests
<1>10. CASE UpdateEnv
  BY <1>10 DEF UpdateEnv, service, requests, rotation, history
<1>11. ASSUME NEW w \in Workers, Restart(w)
      PROVE  TypeOK'
  BY <1>11 DEF Restart, service, requests, rotation, history
<1>12. CASE UNCHANGED vars
  BY <1>12 DEF vars, service, requests, rotation, history
<1> HIDE DEF IInv, TypeOK
<1> QED
  BY <1>1, <1>2, <1>3, <1>4, <1>5, <1>6, <1>7, <1>8, <1>9, <1>10, <1>11, <1>12
     DEF Next, Admin, Script

\* Rows never vanish under a request.
LEMMA JobsStep ==
  IInv /\ [Next]_vars => JobsFit'
<1> SUFFICES ASSUME IInv, [Next]_vars PROVE JobsFit'
  OBVIOUS
<1> USE NoneAssumption, MaxKeyAssumption DEF IInv, TypeOK, JobsFit
<1>1. ASSUME NEW a \in Requests, NEW w \in Workers, NEW t \in Tenants, CreateTenant(a, w, t)
      PROVE  JobsFit'
  <2>1. [tenant |-> t, fields |-> Fields, worker |-> w, key |-> worker[w]] \in Job
    BY DEF Job
  <2> QED
    BY <1>1, <2>1 DEF CreateTenant, service, rotation, history
<1>2. ASSUME NEW a \in Requests, NEW w \in Workers, NEW t \in Tenants,
            NEW fields \in SUBSET Fields, UpdateTenant(a, w, t, fields)
      PROVE  JobsFit'
  <2>1. [tenant |-> t, fields |-> fields, worker |-> w, key |-> worker[w]] \in Job
    BY DEF Job
  <2> QED
    BY <1>2, <2>1 DEF UpdateTenant, service, rotation, history
<1>3. ASSUME NEW a \in Requests, FlushUpdate(a)
      PROVE  JobsFit'
  BY <1>3 DEF FlushUpdate, service, requests, rotation, history
<1>4. ASSUME NEW a \in Requests, CommitRequest(a)
      PROVE  JobsFit'
  <2>1. Stored(a) # None /\ job[a].tenant \in Tenants
    BY <1>4, StoredIsRow DEF CommitRequest, Job
  <2>2. \A t \in Tenants : row[t] # None => row'[t] # None
    BY <1>4, <2>1 DEF CommitRequest
  <2> QED
    BY <1>4, <2>2 DEF CommitRequest, Job
<1>5. ASSUME NEW a \in Requests, FailRequest(a)
      PROVE  JobsFit'
  BY <1>5 DEF FailRequest, service, requests, rotation, history
<1>6. CASE Load
  BY <1>6 DEF Load, service, requests, rotation, history
<1>7. ASSUME NEW t \in Tenants, FlushRow(t)
      PROVE  JobsFit'
  BY <1>7 DEF FlushRow, service, requests, rotation, history
<1>8. CASE CommitRotation
  <2>1. \A t \in Tenants : snap[t] # None => Rewrapped(snap[t]) # None
    BY <1>8, RewrappedIsRow DEF CommitRotation, SnapFits
  <2>2. \A t \in Tenants : row[t] # None => row'[t] # None
    BY <1>8, <2>1 DEF CommitRotation
  <2> QED
    BY <1>8, <2>2 DEF CommitRotation, requests, Job
<1>9. CASE AbortRotation
  BY <1>9 DEF AbortRotation, service, requests, rotation, history, EndScript
<1>10. CASE UpdateEnv
  BY <1>10 DEF UpdateEnv, service, requests, rotation, history
<1>11. ASSUME NEW w \in Workers, Restart(w)
      PROVE  JobsFit'
  BY <1>11 DEF Restart, service, requests, rotation, history
<1>12. CASE UNCHANGED vars
  BY <1>12 DEF vars, service, requests, rotation, history
<1> HIDE DEF IInv, JobsFit
<1> QED
  BY <1>1, <1>2, <1>3, <1>4, <1>5, <1>6, <1>7, <1>8, <1>9, <1>10, <1>11, <1>12
     DEF Next, Admin, Script

\* Whoever commits credentials under the script is remembered in since.
LEMMA SnapStep ==
  IInv /\ [Next]_vars => SnapFits'
<1> SUFFICES ASSUME IInv, [Next]_vars PROVE SnapFits'
  OBVIOUS
<1> USE NoneAssumption, MaxKeyAssumption DEF IInv, TypeOK, SnapFits
<1>1. ASSUME NEW a \in Requests, NEW w \in Workers, NEW t \in Tenants, CreateTenant(a, w, t)
      PROVE  SnapFits'
  BY <1>1 DEF CreateTenant, service, requests, rotation, history
<1>2. ASSUME NEW a \in Requests, NEW w \in Workers, NEW t \in Tenants,
            NEW fields \in SUBSET Fields, UpdateTenant(a, w, t, fields)
      PROVE  SnapFits'
  BY <1>2 DEF UpdateTenant, service, requests, rotation, history
<1>3. ASSUME NEW a \in Requests, FlushUpdate(a)
      PROVE  SnapFits'
  BY <1>3 DEF FlushUpdate, service, requests, rotation, history
<1>4. ASSUME NEW a \in Requests, CommitRequest(a)
      PROVE  SnapFits'
  <2>1. job[a].tenant \in Tenants
    BY <1>4 DEF CommitRequest, JobsFit, Job
  <2> QED
    BY <1>4, <2>1 DEF CommitRequest, service, rotation
<1>5. ASSUME NEW a \in Requests, FailRequest(a)
      PROVE  SnapFits'
  BY <1>5 DEF FailRequest, service, requests, rotation, history
<1>6. CASE Load
  BY <1>6 DEF Load, service, requests, rotation, history
<1>7. ASSUME NEW t \in Tenants, FlushRow(t)
      PROVE  SnapFits'
  BY <1>7 DEF FlushRow, service, requests, rotation, history
<1>8. CASE CommitRotation
  BY <1>8 DEF CommitRotation, service, requests, rotation, history, EndScript
<1>9. CASE AbortRotation
  BY <1>9 DEF AbortRotation, service, requests, rotation, history, EndScript
<1>10. CASE UpdateEnv
  BY <1>10 DEF UpdateEnv, service, requests, rotation, history
<1>11. ASSUME NEW w \in Workers, Restart(w)
      PROVE  SnapFits'
  BY <1>11 DEF Restart, service, requests, rotation, history
<1>12. CASE UNCHANGED vars
  BY <1>12 DEF vars, service, requests, rotation, history
<1> HIDE DEF IInv, SnapFits
<1> QED
  BY <1>1, <1>2, <1>3, <1>4, <1>5, <1>6, <1>7, <1>8, <1>9, <1>10, <1>11, <1>12
     DEF Next, Admin, Script

\* Only requests outside a race take a tenant out of raced, and a rotation re-encrypts what
\* it finds there.
LEMMA SurviveStep ==
  IInv /\ [Next]_vars => CredentialsSurvive'
<1> SUFFICES ASSUME IInv, [Next]_vars PROVE CredentialsSurvive'
  OBVIOUS
<1> USE NoneAssumption, MaxKeyAssumption DEF IInv, TypeOK, CredentialsSurvive
<1>1. ASSUME NEW a \in Requests, NEW w \in Workers, NEW t \in Tenants, CreateTenant(a, w, t)
      PROVE  CredentialsSurvive'
  BY <1>1 DEF CreateTenant, service, requests, rotation, history
<1>2. ASSUME NEW a \in Requests, NEW w \in Workers, NEW t \in Tenants,
            NEW fields \in SUBSET Fields, UpdateTenant(a, w, t, fields)
      PROVE  CredentialsSurvive'
  BY <1>2 DEF UpdateTenant, service, requests, rotation, history
<1>3. ASSUME NEW a \in Requests, FlushUpdate(a)
      PROVE  CredentialsSurvive'
  BY <1>3 DEF FlushUpdate, service, requests, rotation, history
<1>4. ASSUME NEW a \in Requests, CommitRequest(a)
      PROVE  CredentialsSurvive'
  <2> DEFINE t == job[a].tenant
             fields == job[a].fields
  <2>1. t \in Tenants /\ fields \subseteq Fields /\ (row[t] # None \/ fields = Fields)
    BY <1>4 DEF CommitRequest, JobsFit, Job
  <2>2. CASE t \notin raced'
    <3>1. job[a].key = force /\ (fields = Fields \/ t \notin raced)
      BY <1>4, <2>1, <2>2 DEF CommitRequest
    <3>2. entered'[t] = [f \in Fields |-> IF f \in fields THEN a ELSE entered[t][f]]
      BY <1>4, <2>1 DEF CommitRequest
    <3>3. row'[t] = Stored(a) /\ force' = force
      BY <1>4, <2>1 DEF CommitRequest
    <3>4. Stored(a) = Seal(entered'[t], force)
      <4>1. CASE fields = Fields
        BY <3>1, <3>2, <4>1 DEF Stored, Seal
      <4>2. CASE fields # Fields
        <5>1. row[t] = Seal(entered[t], force)
          BY <2>1, <3>1, <4>2
        <5> QED
          BY <3>1, <3>2, <5>1 DEF Stored, Seal
      <4> QED
        BY <4>1, <4>2
    <3> QED
      BY <1>4, <2>1, <3>3, <3>4 DEF CommitRequest
  <2>3. CASE t \in raced'
    BY <1>4, <2>1, <2>3 DEF CommitRequest
  <2> QED
    BY <2>2, <2>3
<1>5. ASSUME NEW a \in Requests, FailRequest(a)
      PROVE  CredentialsSurvive'
  BY <1>5 DEF FailRequest, service, requests, rotation, history
<1>6. CASE Load
  BY <1>6 DEF Load, service, requests, rotation, history
<1>7. ASSUME NEW t \in Tenants, FlushRow(t)
      PROVE  CredentialsSurvive'
  BY <1>7 DEF FlushRow, service, requests, rotation, history
<1>8. CASE CommitRotation
  <2> SUFFICES ASSUME NEW t \in Tenants, row'[t] # None, t \notin raced'
               PROVE  row'[t] = Seal(entered'[t], force')
    BY DEF CredentialsSurvive
  <2>1. t \notin raced /\ t \notin since
    BY <1>8 DEF CommitRotation
  <2>2. snap[t] = row[t] /\ snap[t] # None /\ snap[t]["secret"].key = env
    BY <1>8, <2>1 DEF CommitRotation, SnapFits
  <2>3. row[t] = Seal(entered[t], force)
    BY <2>1, <2>2
  <2>4. force = env
    BY <2>2, <2>3 DEF Seal, Fields
  <2>5. Rewrapped(row[t]) = Seal(entered[t], env + 1)
    BY <2>3, <2>4 DEF Rewrapped, Seal
  <2> QED
    BY <1>8, <2>2, <2>5 DEF CommitRotation
<1>9. CASE AbortRotation
  BY <1>9 DEF AbortRotation, service, requests, rotation, history, EndScript
<1>10. CASE UpdateEnv
  BY <1>10 DEF UpdateEnv, service, requests, rotation, history
<1>11. ASSUME NEW w \in Workers, Restart(w)
      PROVE  CredentialsSurvive'
  BY <1>11 DEF Restart, service, requests, rotation, history
<1>12. CASE UNCHANGED vars
  BY <1>12 DEF vars, service, requests, rotation, history
<1> HIDE DEF IInv, CredentialsSurvive
<1> QED
  BY <1>1, <1>2, <1>3, <1>4, <1>5, <1>6, <1>7, <1>8, <1>9, <1>10, <1>11, <1>12
     DEF Next, Admin, Script

-----------------------------------------------------------------------------
LEMMA InitIInv == Init => IInv
<1> SUFFICES ASSUME Init PROVE IInv
  OBVIOUS
<1>1. 0 \in Keys
  BY MaxKeyAssumption DEF Keys
<1>2. entered \in [Tenants -> [Fields -> Texts]]
  BY DEF Init, Texts
<1>3. \A t \in Tenants : Seal(entered[t], 0) \in Row
  BY <1>1, <1>2 DEF Seal, Row
<1>4. row \in [Tenants -> Row \union {None}]
  BY <1>3 DEF Init
<1>5. TypeOK
  BY <1>1, <1>2, <1>4 DEF Init, TypeOK, NoRows
<1> QED
  BY <1>5 DEF Init, IInv, JobsFit, SnapFits, CredentialsSurvive

\* IInv, which the theorems below follow from, is kept by every step.
THEOREM InductiveInvariant == Spec => []IInv
<1>1. IInv /\ [Next]_vars => IInv'
  BY TypeStep, JobsStep, SnapStep, SurviveStep DEF IInv
<1> QED
  BY InitIInv, <1>1, PTL DEF Spec

\* The state of service, script and operators is always well-typed.
THEOREM TypeCorrect == Spec => []TypeOK
<1>1. IInv => TypeOK
  BY DEF IInv
<1> QED
  BY InductiveInvariant, <1>1, PTL

\* Credentials that no race with a rotation has touched are the ones entered last,
\* under the key in force.
THEOREM RotationIsInvisible == Spec => []CredentialsSurvive
<1>1. IInv => CredentialsSurvive
  BY DEF IInv
<1> QED
  BY InductiveInvariant, <1>1, PTL

\* A rotation that commits covers every tenant.
THEOREM RotationCoversAll == Spec => RotationIsComplete
<1> DEFINE Complete ==
      CommitRotation =>
        \A t \in Tenants \ since : row[t] # None =>
          /\ \A f \in Fields : row'[t][f].key = force'
          /\ \A f \in Fields : \/ row'[t][f].text = row[t][f].text
                               \/ f = "id" /\ row[t][f].key # env /\ row'[t][f].text = Garbled
<1>1. IInv => Complete
  <2> SUFFICES ASSUME IInv, CommitRotation, NEW t \in Tenants \ since, row[t] # None
               PROVE  /\ \A f \in Fields : row'[t][f].key = force'
                      /\ \A f \in Fields :
                           \/ row'[t][f].text = row[t][f].text
                           \/ f = "id" /\ row[t][f].key # env /\ row'[t][f].text = Garbled
    OBVIOUS
  <2>1. snap[t] = row[t] /\ row[t]["secret"].key = env
    BY DEF IInv, SnapFits, CommitRotation
  <2>2. row'[t] = Rewrapped(row[t]) /\ force' = env + 1
    BY <2>1 DEF CommitRotation
  <2> QED
    BY <2>1, <2>2 DEF Rewrapped, Fields
<1> QED
  BY InductiveInvariant, <1>1, PTL DEF RotationIsComplete
==============================================================================
