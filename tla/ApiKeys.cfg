CONSTANTS
  r1 = r1
  r2 = r2
  r3 = r3
  w1 = w1
  w2 = w2
  k1 = k1
  k2 = k2
  p1 = p1
  None = None
  Requests = {r1, r2, r3}
  Workers = {w1, w2}
  WorkerOf <- MCWorkerOf
  Prefixes = {p1}
  PrefixOf <- MCPrefixOf
  Keys = {k1, k2}
  KeyOf <- MCKeyOf
  Issued = {k2}
  Revocable = {k1}
  Suspendable = {k2}
  Limit = 1
  MaxMinute = 2
  LastArrival = 1
SYMMETRY Twins
SPECIFICATION Spec
INVARIANTS
  TypeOK
  OverrunsAreExplained
  RefusalsAreDeserved
  RevokedKeysAreSpent
  LostCountsNeedASharedPrefix
CHECK_DEADLOCK FALSE
