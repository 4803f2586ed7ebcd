CONSTANTS
  c1 = c1
  c2 = c2
  w1 = w1
  None = None
  Calls = {c1, c2}
  Workers = {w1}
  WorkerOf <- MCWorkerOf
  Lifetimes = {1, 2}
  DefaultLife = 2
  Buffer = 1
  MinTtl = 1
  MaxTime = 2
  MaxCreds = 2
SYMMETRY CallsAlike
SPECIFICATION Spec
INVARIANTS
  TypeOK
  EntriesExpireFirst
  CarriedOutOnce
  RefusalsHaveACause
