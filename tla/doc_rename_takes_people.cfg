\* The people of an entry are renamed with it.
SPECIFICATION PartsSpec
CONSTANTS
  None = None
  Nobody = Nobody
  Unchanged = Unchanged
  NoScheme = NoScheme
  Idle = Idle
  Indicators = {i1, i2}
  Cases = {e1}
  Contracts = {k1, k2}
  MaxVersions = 3
  g1 = g1
  g2 = g2
  s1 = s1
  General = {g1, g2}
  Specialized = {s1}
  Schemes <- MCSchemes
  Bonuses = {0, 26, 300, 500}
  SchemeRows = {v1, v2, v3}
  Clerks = {a, b}
  StampedCases = {e1, e2}
  FirstScheme = v1
  u1 = u1
  u2 = u2
  PlanCases = {e1}
  PlanUsers = {u1, u2}
  Percentages = {1}
  Caps = {1, 2}
  ReviewDays = {0, 1}
  AlertDays = 0
  LastPlanDay = 1
  RolesOf <- MCRolesOf
  p1 = p1  p2 = p2  p3 = p3  d1 = d1  d2 = d2  d3 = d3  d4 = d4
  Codes = {p1, p2, p3}
  Evaluators = {d1, d2, d3, d4}
  InitialProfile <- MCProfiles
  ProfilesOf <- MCProfilesOf
  Traceless = {d1}
  Files <- MCFiles
  Imports = {i1, i2}
  UnitIds = {c1, c2}
  Editors = {x1, x2}
  UnitNames = {"shop", "hall", "yard"}
  r1 = r1  r2 = r2  r3 = r3  r4 = r4  r5 = r5  r6 = r6  r7 = r7
  Requests = {r1, r2, r3, r4, r5, r6, r7}
  Kind <- MCKind
CHECK_DEADLOCK FALSE
PROPERTY RenamesTakeTheirPeople
