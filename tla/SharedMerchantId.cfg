CONSTANTS
  o1 = o1
  o2 = o2
  t1 = t1
  t2 = t2
  g1 = g1
  None = None
  Orders = {o1, o2}
  TenantOf <- MCTenantOf
  MerchantIdOf <- MCShared
  Pollers = {}
  PollerOrder <- MCPollerOrder
  Events = {e1}
  Unsigned = {}
  Rekeyed = {}
  Reconcilers = {}
  FinalWords = {"COMPLETED"}
  Suspendable = {}
  MaxCrashes = 0
SPECIFICATION Spec
PROPERTIES
  EventsReachTheirOrder
