CONSTANTS
  o1 = o1
  o2 = o2
  t1 = t1
  t2 = t2
  g1 = g1
  None = None
  Orders = {o1, o2}
  TenantOf <- MCTenantOf
  MerchantIdOf <- MCApart
  Pollers = {}
  PollerOrder <- MCPollerOrder
  Events = {}
  Unsigned = {}
  Rekeyed = {}
  Reconcilers = {w1, w2}
  FinalWords = {"COMPLETED"}
  Suspendable = {t2}
  MaxCrashes = 1
SPECIFICATION Spec
PROPERTIES
  PassesEnd
