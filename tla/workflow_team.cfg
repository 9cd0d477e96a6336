\* Two people and two cases, opened one by one or in bulk; or two periods and a calendar.
CONSTANTS
    None = None
    s = s  d = d  c = c  h = h  k = k  p = p  q = q  r2 = r2
    Users = {s, c, h}
    Personnel = {p, q}
    Records = {r1, r2}
    Periods = {q1, q2}
    LastDay = 2
    EmptySheet = e0
    Sheets = {e0, e1}
    CompleteSheets = {e1}
    NoBonus = b0
    Bonuses = {b0}
    Comments = {}
    Chains <- ShortChains
    AccountEdits <- NoEdits
    InitialAccounts <- ShortAccounts
    Administrators = {h}
SPECIFICATION CaseloadSpec
INVARIANTS
    OneOpenRecord
    PeriodsInOrder
PROPERTIES
    ImplementsLifecycle
    DeadlineMovesOnlyByDecision
