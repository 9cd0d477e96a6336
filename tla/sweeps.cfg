\* Documents come in the end; whom the jobs remind and what they report; the outbox drains.
CONSTANTS
    None = None
    s = s  d = d  c = c  h = h  k = k  p = p  r2 = r2
    Users = {s, d, c, h}
    Personnel = {p}
    Records = {r1, r2}
    Periods = {}
    LastDay = 1
    EmptySheet = e0
    Sheets = {e0, e1}
    CompleteSheets = {e1}
    NoBonus = b0
    Bonuses = {b0}
    Comments = {}
    Chains <- OwnedChains
    AccountEdits <- DeputyLeaves
    InitialAccounts <- MCAccounts
    Administrators = {h}
    SlaDays = 1
    DocumentBatch = 1
    Replicas = {n1, n2}
    Channels = {sms}
    BatchSize = 1
    MaxAttempts = 2
    RetryBase = 1
    DedupWindow = 2
    MaxRows = 2
    MaxTroubles = 2
    Nobody = Nobody
SPECIFICATION SweepsSpec
INVARIANTS
    NextActorIsReminded
    ReportsAreTrue
    NoNeedlessRepeat
PROPERTIES
    DocumentsArchived
    RemindersAreSpaced
    QueueDrains
