CONSTANTS
  p1 = p1  p2 = p2  m1 = m1  m2 = m2  s1 = s1  s2 = s2  x1 = x1
  k1 = k1  k2 = k2  k3 = k3  k4 = k4  r1 = r1  r2 = r2  mandate = mandate
  NoCall = NoCall  NoResource = NoResource  NoMandate = NoMandate
  Call = {p1, p2, m1, m2, s1, s2, x1}
  Together = {{p1, p2, s1}}
  Keys = {k1, k2, k3, k4}
  Resources = {r1, r2}
  Mandates = {mandate}
  Kind <- MCKind
  Key <- MCKey
  Runs <- MCRewritten
  Resource <- MCResource
  Mandate <- MCMandate
  MaxUses <- MCMaxUses
  NotAfter <- MCNotAfter
  Prev <- MCPrev
  Undoable = {s1}
  Ttl = 0
  SoftCap = 0
  MaxTime = 1
  Faults = {}
SPECIFICATION Spec
CHECK_DEADLOCK FALSE
INVARIANT PreviewedIsRun
