CONSTANTS
  o1 = o1
  o2 = o2
  t1 = t1
  t2 = t2
  g1 = g1
  None = None
  Orders = {o1}
  TenantOf <- MCTenantOf
  MerchantIdOf <- MCApart
  Pollers = {}
  PollerOrder <- MCPollerOrder
  Events = {}
  Unsigned = {}
  Rekeyed = {}
  Reconcilers = {w1}
  FinalWords = {"COMPLETED"}
  Suspendable = {}
  MaxCrashes = 0
SPECIFICATION Spec
PROPERTIES
  ReconcilerHeals
