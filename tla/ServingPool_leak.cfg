CONSTANTS
  a = a  b = b  t1 = t1  t2 = t2  t3 = t3  c1 = c1  c2 = c2
  Turn = {t1, t2, t3}
  Call = {c1, c2}
  Tenants = {a, b}
  Tenant <- MCTenant
  Seq <- MCSeq
  Class <- MCClass
  Quota <- MCQuota
  Configured = {}
  Hash = {h1, h2}
  Capacity = 2
  FairCap = 3
  MaxQueue = 1
  Wfq = FALSE
  Faults = {"backpressure"}
SPECIFICATION Spec
CHECK_DEADLOCK FALSE
INVARIANT SlotNeverLeaked
