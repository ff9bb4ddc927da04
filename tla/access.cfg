SPECIFICATION Spec
CONSTANTS
  u1 = u1  u2 = u2
  Everybody = Everybody
  Users = {u1, u2}
  CodeUsers = {u1}
  Timeout = 2
  Ttl = 1
  Cooldown = 2
  CodeTtl = 4
  Attempts = 2
  MaxQueue = 2
  MaxCodes = 2
  MaxClock = 5
INVARIANTS
  SettledGrantsWereTold
  AnsweredInTime
  CodeOpensOneSession
PROPERTIES
  GrantsAreFresh
  CodesAreApart
