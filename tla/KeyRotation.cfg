CONSTANTS
  t1 = t1
  t2 = t2
  w1 = w1
  w2 = w2
  a1 = a1
  a2 = a2
  a3 = a3
  First = First
  Garbled = Garbled
  None = None
  Tenants = {t1, t2}
  Registered = {t1}
  Workers = {w1, w2}
  Requests = {a1, a2, a3}
  MaxKey = 2
SYMMETRY Twins
SPECIFICATION Spec
INVARIANTS
  TypeOK
  CredentialsSurvive
PROPERTIES
  RotationIsComplete
