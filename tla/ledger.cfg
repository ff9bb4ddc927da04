SPECIFICATION Spec
CONSTANTS
  a1 = a1  a2 = a2
  r1 = r1  r2 = r2
  consultant = consultant  user = user
  x1 = x1  x2 = x2
  k1 = k1  k2 = k2
  o1 = o1  o2 = o2
  NoRun = NoRun  NoAccount = NoAccount  NoKey = NoKey
  NoObject = NoObject  NoTime = NoTime
  Accounts = {a1, a2}
  Runs = {r1, r2}
  OrisoDevRuns = {r1}
  Roles = {consultant, user}
  RolesOf <- TwoRoles
  Demands <- TwoDemands
  Results = {"passed"}
  Resources = {x1, x2}
  Keys = {k1, k2}
  Objects = {o1, o2}
  MaxClock = 2
  MaxSlots = 2
SYMMETRY Symmetric
INVARIANTS
  NothingLeftBehind
  DeletedIsGone
  AccountStaysWithObject
  ParentsOutliveChildren
  SelectionIsComplete
PROPERTIES
  ReleasedIsFinal
  CustodyPromise
CHECK_DEADLOCK FALSE
