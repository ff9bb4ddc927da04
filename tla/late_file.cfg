SPECIFICATION Spec
CONSTANTS
  r1 = r1  f1 = f1  f2 = f2  f3 = f3  q1 = q1  q2 = q2  p1 = p1  p2 = p2
  u1 = u1
  None = None
  Runs = {r1}
  Files = {f1, f2}
  Requests = {q1, q2}
  PublicIds = {p1, p2}
  Urls = {u1}
  PartNumbers = {1}
  RunOf <- TwoRunOf
  ShaOf <- TwoShaOf
  KindOf <- TwoKindOf
  RunLimit = 2
SYMMETRY Interchangeable
PROPERTIES
  ClosedRunGainsNoFile
