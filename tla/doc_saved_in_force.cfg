SPECIFICATION AccessSpec
CONSTANTS
  None = None
  laptop = laptop
  t1 = t1
  t2 = t2
  u1 = u1
  Devices = {laptop}
  Tabs = {t1, t2}
  DeviceOf <- TabsOfOne
  Clerks = {c1}
  SessionIds = {s1}
  MaxClosing = 0
  MaxPassword = 0
  Logins = {l1}
  MaxAttempts = 3
  Window = 2
  Lockout = 3
  MaxTime = 1
  NoRow = NoRow
  People = {u1}
  Capabilities = {"manage_capabilities", "manage_users"}
  DefaultHR = {"manage_users"}
  Staffers = {"support", "hr", "employee"}
  Nobody = Nobody
  Processes = {p1, p2}
  Keys = {k1, k2}
  Numbers = {0, 1, 2}
  InRange = {1, 2}
  EnvDefault <- Defaults
  Unset = Unset
CHECK_DEADLOCK FALSE
PROPERTY SavedIsInForce
