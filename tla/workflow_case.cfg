\* One case over every shape of chain; one case while accounts change role, link and activity.
CONSTANTS
    None = None
    s = s  d = d  c = c  h = h  k = k  p = p  q = q  e1 = e1
    Users = {s, d, c, h, k}
    Personnel = {p}
    Records = {r1}
    Periods = {}
    LastDay = 0
    EmptySheet = e0
    Sheets = {e0, e1, e2}
    CompleteSheets = {e1, e2}
    NoBonus = b0
    Bonuses = {b0, b1}
    Comments = {m1}
    Chains <- AllChains
    AccountEdits <- ChurnEdits
    InitialAccounts <- CaseAccounts
    Administrators = {h}
SPECIFICATION CaseSpec
INVARIANTS
    TypeOK
    EveryStageSigned
    ResultMatchesScores
    SnapshotIsFinal
    NobodyEvaluatesHimself
    NoRedundantChain
    PathFollowsTitle
PROPERTIES
    TerminalFrozen
    NextActorIsTold
