CONSTANTS
  r1 = r1
  r2 = r2
  r3 = r3
  o1 = o1
  o2 = o2
  k1 = k1
  k2 = k2
  None = None
  Error = Error
  Requests = {r1, r2, r3}
  Refs = {o1, o2}
  ApiKeys = {k1, k2}
  RefOf <- MCRefOf
  ApiKeyOf <- MCApiKeyOf
  PoolSize = 2
SPECIFICATION Spec
INVARIANTS
  TypeOK
  OneOrderPerReference
  ExclusiveCheckout
  StoredOrdersWereAnswered
  AnswersAreDurable
  WaitsAreShort
  SecondPaymentsFollowFailures
PROPERTIES
  CallsOnlyForNewOrders
  ImplementsOrderOnce
  OnlyStoresOrders
  EveryRequestEnds
