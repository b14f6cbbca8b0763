CONSTANTS
  a = a  b = b  t1 = t1  t2 = t2  t3 = t3  c1 = c1  c2 = c2
  Turn = {t1, t2, t3}
  Call = {c1, c2}
  Tenants = {a, b}
  Tenant <- MCTenant
  Seq <- MCSeq
  Class <- MCClass
  Quota <- MCQuota
  Configured = {}
  Hash = {h1, h2}
  Capacity = 2
  FairCap = 3
  MaxQueue = 1
  Wfq = FALSE
  Faults = {"backpressure", "twice"}
SPECIFICATION FairSpec
CHECK_DEADLOCK FALSE
INVARIANTS FairShare GuaranteedShare PlaceHasOwner OneAnswer
PROPERTY PlacesComeBack
\* These hold on this instance too:
\* INVARIANTS TypeOK PlacesDistinct
