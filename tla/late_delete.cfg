SPECIFICATION Spec
CONSTANTS
  c1 = c1  c2 = c2
  w1 = w1  w2 = w2  w3 = w3
  s1 = s1  s2 = s2
  NoSeed = NoSeed  NoRecord = NoRecord  NoAccount = NoAccount
  Nobody = Nobody  Orphan = Orphan
  Calls = {c1}
  Passwords = {w1, w2}
  Seeds = {s1}
  Roles = {"tenant-admin"}
  Invitees = {}
  MaxLate = 1
  MaxDelayed = 1
  LateRequests = {"erase"}
INVARIANT ErasedIsMarked
