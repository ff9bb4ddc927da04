SPECIFICATION RetentionSpec
CONSTANTS
  r1 = r1  f1 = f1  q1 = q1  q2 = q2  p1 = p1  u1 = u1
  None = None
  Runs = {r1}
  Files = {f1}
  Requests = {q1}
  PublicIds = {p1}
  Urls = {}
  PartNumbers = {1}
  RunOf <- OneRunOf
  ShaOf <- OneShaOf
  KindOf <- ReportKindOf
  RunLimit = 1
  MaxFailures = 1
PROPERTIES
  SchedulesSparePublished
