SPECIFICATION FairSpec
CONSTANTS
  f1 = f1  f2 = f2  a = a  b = b  p1 = p1  p2 = p2
  None = None
  Files = {f1, f2}
  Publishers = {a, b}
  PublicIds = {p1, p2}
  MaxFaults = 2
INVARIANTS
  LinksNeverChange
  PublishedIsAnnounced
  CommentsDoNotMultiply
PROPERTIES
  RetryPublishes
CHECK_DEADLOCK FALSE
