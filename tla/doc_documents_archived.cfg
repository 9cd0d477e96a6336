\* The backfill of documents is a guarantee.
CONSTANTS
    None = None
    s = s  d = d  c = c  h = h  k = k  p = p  r2 = r2
    Users = {s, c, h}
    Personnel = {p}
    Records = {r1, r2}
    Periods = {}
    LastDay = 1
    EmptySheet = e0
    Sheets = {e0, e1}
    CompleteSheets = {e1}
    NoBonus = b0
    Bonuses = {b0}
    Comments = {}
    Chains <- ShortChains
    AccountEdits <- NoEdits
    InitialAccounts <- MCAccounts
    Administrators = {h}
    SlaDays = 1
    DocumentBatch = 1
    Replicas = {n1}
    Channels = {sms}
    BatchSize = 1
    MaxAttempts = 2
    RetryBase = 1
    DedupWindow = 2
    MaxRows = 1
    MaxTroubles = 0
    Nobody = Nobody
SPECIFICATION SweepsSpec
PROPERTY DocumentsArchived
