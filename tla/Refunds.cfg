CONSTANTS
  r1 = r1
  r2 = r2
  r3 = r3
  k1 = k1
  id1 = id1
  None = None
  Error = Error
  Requests = {r1, r2}
  ApiKeys = {k1}
  ApiKeyOf <- MCApiKeyOf
  RefundIds = {id1}
  RefundIdOf <- MCRefundIdOf
SPECIFICATION Spec
INVARIANTS
  TypeOK
  RowsAreReal
  ToldIsRecorded
  RefundsFollowPayment
PROPERTIES
  EveryRefundEnds
