CONSTANTS
  d1 = d1
  d2 = d2
  u1 = u1
  None = None
  Tasks = {d1, d2}
  Workers = {u1}
  WorkerOf <- MCWorkerOf
  MaxRetries = 3
SPECIFICATION Spec
INVARIANTS
  TypeOK
  RowsTellTheTruth
  RepeatsAreExplained
PROPERTIES
  OutcomesAreFinal
  DispatchEnds
