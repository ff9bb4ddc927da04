SPECIFICATION Spec
CONSTANTS
  r1 = r1  f1 = f1  f2 = f2  f3 = f3  q1 = q1  q2 = q2  p1 = p1  p2 = p2
  u1 = u1
  None = None
  Runs = {r1}
  Files = {f1, f2, f3}
  Requests = {q1, q2}
  PublicIds = {p1, p2}
  Urls = {}
  PartNumbers = {1}
  RunOf <- ThreeRunOf
  ShaOf <- ThreeShaOf
  KindOf <- MixKindOf
  RunLimit = 1
SYMMETRY Mixed
INVARIANTS
  PublishedHoldsNoRejected
  ServedBytesVerified
  QuarantineExplained
  CeilingOvershootBounded
PROPERTIES
  VerdictIsFinal
  PublicationPromise
