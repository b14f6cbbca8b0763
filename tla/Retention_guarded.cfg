CONSTANTS
  t1 = t1  t2 = t2  t3 = t3  i1 = i1  A = A  B = B  s1 = s1  s2 = s2
  payment = payment  internal = internal  m1 = m1  x = x  y = y  z = z
  Turn = {t1, t2}
  Item = {i1}
  Subject = {A}
  Session = {s1}
  Classes = {payment, internal}
  Matter = {m1}
  Owner <- MCOwner
  Id <- MCId
  Of <- MCOf
  Class <- MCClass
  Policies <- MCPolicies
  Initially <- MCInitially
  Scope <- MCScope
  MaxTime = 1
  MaxAsk = 2
  Commands = {"hold", "policy", "store", "memory", "tick"}
CHECK_DEADLOCK FALSE
SPECIFICATION FairSpec
INVARIANTS ErasedIsGone FloorAnchored
PROPERTIES HeldTextSurvives DeferredFires
\* These hold on this instance too:
\* INVARIANT TypeOK
\* PROPERTIES NeverDropped ErasedIsOwed
