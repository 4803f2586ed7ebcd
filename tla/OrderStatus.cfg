CONSTANTS
  o1 = o1
  o2 = o2
  t1 = t1
  t2 = t2
  g1 = g1
  None = None
  Orders = {o1}
  TenantOf <- MCTenantOf
  MerchantIdOf <- MCApart
  Pollers = {g1}
  PollerOrder <- MCPollerOrder
  Events = {e1, e2}
  Unsigned = {e1}
  Rekeyed = {t1}
  Reconcilers = {w1}
  FinalWords = {"COMPLETED", "PAYMENT_ERROR", "EXPIRED", "CANCELLED"}
  Suspendable = {t1}
  MaxCrashes = 1
SPECIFICATION Spec
INVARIANTS
  TypeOK
  OutcomesAreReal
  NoticesAreReal
PROPERTIES
  OnlyEventsReopen
  ImplementsOrderLife
  PollingHeals
