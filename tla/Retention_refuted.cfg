CONSTANTS
  t1 = t1  t2 = t2  t3 = t3  i1 = i1  A = A  B = B  s1 = s1  s2 = s2
  payment = payment  internal = internal  m1 = m1  x = x  y = y  z = z
  Turn = {t1, t3}
  Item = {i1}
  Subject = {A, B}
  Session = {s1, s2}
  Classes = {payment, internal}
  Matter = {m1}
  Owner <- MCOwner
  Id <- MCId
  Of <- MCOf
  Class <- MCClass
  Policies <- MCPolicies
  Initially <- MCInitially
  Scope <- MCScope
  MaxTime = 1
  MaxAsk = 1
  Commands = {"hold", "policy", "store", "memory", "tick"}
SPECIFICATION Spec
CHECK_DEADLOCK FALSE
\* Each of these is refuted on this instance: TLC stops at the first it is given.
PROPERTY HeldTextSurvivesAlias
\* PROPERTY HeldItemSurvives
\* INVARIANT FiredItemIsGone
\* PROPERTY ClassHoldHolds
\* INVARIANT StruckIsGone
