CONSTANTS
  u1 = u1
  u2 = u2
  m1 = m1
  m2 = m2
  i1 = i1
  b1 = b1
  t1 = t1
  c1 = c1
  p1 = p1
  Users = {u1, u2}
  Mailboxes = {m1, m2}
  MailOf <- MCMailOf
  Invites = {i1, i2}
  Founder = f
  Roles = {"organization_owner", "manager"}
  Requests = {r1}
  MaxTokens = 2
  Keys = {k1, k2}
  MaxUnit = 2
  MaxVersion = 3
  Branches = {b1}
  Territories = {t1}
  BranchOf <- MCBranchOf
  Primary = t1
  Crews = {c1}
  Properties = {x1}
  Jobs = {j1, j2, v1}
  v1 = v1
  d1 = d1
  e1 = e1
  Accounts = {e1}
  AccountOf <- MCAccountOf
  Unreleased = {v1}
  Visited = v1
  Customers = {a1}
  ManagerPages = {u1, u2}
  MaxEvents = 4
  MaxKeys = 2
  MaxMessages = 3
  Plans = {p1}
  CrewOf <- MCCrewOf
  Writers = {w1, w2}
  MaxCapacity = 2
  Shift = 4
  MaxOrder = 8
  Days = {d1}
  MaxTime = 4
  None = None
  Sides = {"routes"}
SPECIFICATION MCSpec
CHECK_DEADLOCK FALSE
PROPERTIES
  NeverOverbooked
